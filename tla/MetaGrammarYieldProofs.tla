----------------------- MODULE MetaGrammarYieldProofs -----------------------
(***************************************************************************)
(* That the tree of an accepted source holds its tokens, for every source  *)
(* of any length:                                                          *)
(*   - every frame of the stack stands for some of what has been read (Own *)
(*     and Given), and all of them together, from the bottom up, for       *)
(*     everything (Told). Each action adds to that what it reads (Writes); *)
(*   - what it adds is what the tree must hold of the token (Writ), as     *)
(*     long as the production goes on (Gathers). A group that the end of   *)
(*     its production abandons takes with it what stands behind its `(`:   *)
(*     the invariant keeps, beside Told, what the frames outside the       *)
(*     outermost group stand for.                                          *)
(* Yield is a recursive function: that it is well defined is part of the   *)
(* invariant (Spelt), carried from one heap to the next.                   *)
(***************************************************************************)
EXTENDS MetaGrammarProps, MetaGrammarProofs

-----------------------------------------------------------------------------
(* FlattenSeq, one sequence more at a time.                                *)

Flat(f, n) == FlattenSeq([i \in 1 .. n |-> f[i]])
FlatUpTo(f, g, n) == g = [i \in 1 .. n |-> IF i = 1 THEN f[i] ELSE g[i - 1] \o f[i]]

LEMMA FlatExists ==
  ASSUME NEW f
  PROVE  \A n \in Nat : \E g : FlatUpTo(f, g, n)
<1> DEFINE S == {n \in Nat : \E g : FlatUpTo(f, g, n)}
<1>1. 0 \in S
  <2> DEFINE g == [i \in 1 .. 0 |-> f[i]]
  <2>1. FlatUpTo(f, g, 0)
    BY DEF FlatUpTo
  <2> QED BY <2>1
<1>2. ASSUME NEW n \in Nat, n \in S PROVE n + 1 \in S
  <2>1. PICK g : FlatUpTo(f, g, n)
    BY <1>2
  <2> DEFINE d == [i \in 1 .. n + 1 |->
                     IF i <= n THEN g[i] ELSE IF i = 1 THEN f[i] ELSE g[n] \o f[i]]
  <2>2. \A i \in 1 .. n : g[i] = IF i = 1 THEN f[i] ELSE g[i - 1] \o f[i]
    BY <2>1 DEF FlatUpTo
  <2>3. \A i \in 1 .. n : d[i] = g[i] /\ (i # 1 => d[i - 1] = g[i - 1])
    OBVIOUS
  <2>4. d[n + 1] = IF n + 1 = 1 THEN f[n + 1] ELSE g[n] \o f[n + 1]
    OBVIOUS
  <2>5. n # 0 => d[n] = g[n] /\ (n + 1) - 1 = n
    OBVIOUS
  <2>6. \A i \in 1 .. n + 1 : i \in 1 .. n \/ i = n + 1
    OBVIOUS
  <2>7. d = [i \in 1 .. n + 1 |-> d[i]]
    OBVIOUS
  <2> HIDE DEF d
  <2>8. d[n + 1] = IF n + 1 = 1 THEN f[n + 1] ELSE d[(n + 1) - 1] \o f[n + 1]
    BY <2>4, <2>5
  <2>9. \A i \in 1 .. n + 1 : d[i] = IF i = 1 THEN f[i] ELSE d[i - 1] \o f[i]
    BY <2>2, <2>3, <2>6, <2>8
  <2>10. FlatUpTo(f, d, n + 1)
    BY <2>7, <2>9 DEF FlatUpTo
  <2> QED BY <2>10
<1> HIDE DEF S
<1>3. \A n \in Nat : n \in S
  BY <1>1, <1>2, Reaches
<1> QED BY <1>3 DEF S

LEMMA FlatUnique ==
  ASSUME NEW f, NEW e, NEW m \in Nat, NEW n \in Nat, NEW g, NEW d, m <= n,
         FlatUpTo(f, g, m), FlatUpTo(e, d, n), \A i \in 1 .. m : e[i] = f[i]
  PROVE  \A i \in 1 .. m : g[i] = d[i]
<1> DEFINE S == {i \in Nat : i \in 1 .. m => g[i] = d[i]}
<1>1. \A i \in 1 .. m : g[i] = IF i = 1 THEN f[i] ELSE g[i - 1] \o f[i]
  BY DEF FlatUpTo
<1>2. \A i \in 1 .. m : d[i] = IF i = 1 THEN f[i] ELSE d[i - 1] \o f[i]
  <2>1. \A i \in 1 .. n : d[i] = IF i = 1 THEN e[i] ELSE d[i - 1] \o e[i]
    BY DEF FlatUpTo
  <2>2. \A i \in 1 .. m : i \in 1 .. n
    OBVIOUS
  <2> QED BY <2>1, <2>2
<1>3. 0 \in S
  OBVIOUS
<1>4. ASSUME NEW i \in Nat, i \in S PROVE i + 1 \in S
  <2> SUFFICES ASSUME i + 1 \in 1 .. m PROVE g[i + 1] = d[i + 1]
    OBVIOUS
  <2>1. (i + 1) - 1 = i /\ (i + 1 # 1 => i \in 1 .. m)
    OBVIOUS
  <2>2. i + 1 # 1 => g[i] = d[i]
    BY <1>4, <2>1
  <2> QED BY <1>1, <1>2, <2>1, <2>2
<1> HIDE DEF S
<1>5. \A i \in Nat : i \in S
  BY <1>3, <1>4, Reaches
<1> QED BY <1>5 DEF S

LEMMA FlatIs ==
  ASSUME NEW S, NEW n \in Nat, NEW f, \A i \in 1 .. n : f[i] \in Seq(S)
  PROVE  /\ n = 0 => Flat(f, n) = << >>
         /\ n # 0 => \E g : FlatUpTo(f, g, n) /\ Flat(f, n) = g[n]
<1> DEFINE ss == [i \in 1 .. n |-> f[i]]
<1>1. ss \in Seq(Seq(S)) /\ Len(ss) = n
  BY IsASeq
<1>0. Flat(f, n) = FlattenSeq(ss)
  BY DEF Flat
<1>2. CASE n = 0
  <2>1. ss = << >>
    BY <1>1, <1>2, EmptySeq
  <2>2. FlattenSeq(ss) = << >>
    <3> HIDE DEF ss
    <3> QED BY <1>1, <1>2, <2>1 DEF FlattenSeq
  <2> QED BY <1>0, <1>2, <2>2
<1>3. CASE n # 0
  <2> DEFINE g == CHOOSE g : g = [i \in 1 .. n |-> IF i = 1 THEN ss[i] ELSE g[i - 1] \o ss[i]]
  <2>1. FlattenSeq(ss) = g[n]
    <3> HIDE DEF ss
    <3> QED BY <1>1, <1>3 DEF FlattenSeq
  <2>2. \A d : FlatUpTo(ss, d, n) <=> FlatUpTo(f, d, n)
    <3>1. \A i \in 1 .. n : ss[i] = f[i]
      OBVIOUS
    <3> HIDE DEF ss
    <3> QED BY <3>1 DEF FlatUpTo
  <2>3. \E d : FlatUpTo(ss, d, n)
    BY FlatExists
  <2>4. FlatUpTo(ss, g, n)
    <3> HIDE DEF ss
    <3> QED BY <2>3 DEF FlatUpTo
  <2> HIDE DEF g, ss
  <2> QED BY <1>0, <1>3, <2>1, <2>2, <2>4
<1> QED BY <1>0, <1>2, <1>3

LEMMA FlatNone == ASSUME NEW f PROVE Flat(f, 0) = << >>
<1>1. \A i \in 1 .. 0 : f[i] \in Seq(Nat)
  OBVIOUS
<1> QED BY <1>1, FlatIs

LEMMA FlatNext ==
  ASSUME NEW S, NEW n \in Nat, NEW f, \A i \in 1 .. n + 1 : f[i] \in Seq(S)
  PROVE  Flat(f, n + 1) = Flat(f, n) \o f[n + 1]
<1>1. \A i \in 1 .. n : f[i] \in Seq(S)
  OBVIOUS
<1>2. n + 1 \in Nat /\ n + 1 # 0 /\ n + 1 \in 1 .. n + 1 /\ (n + 1) - 1 = n /\ n <= n + 1
  OBVIOUS
<1>3. PICK g : FlatUpTo(f, g, n + 1) /\ Flat(f, n + 1) = g[n + 1]
  BY <1>2, FlatIs
<1>4. g[n + 1] = IF n + 1 = 1 THEN f[n + 1] ELSE g[n] \o f[n + 1]
  <2>1. \A i \in 1 .. n + 1 : g[i] = IF i = 1 THEN f[i] ELSE g[i - 1] \o f[i]
    BY <1>3 DEF FlatUpTo
  <2> QED BY <1>2, <2>1
<1>5. CASE n = 0
  <2>1. Flat(f, n) = << >>
    BY <1>5, FlatNone
  <2>2. f[n + 1] \in Seq(S)
    BY <1>2
  <2>3. g[n + 1] = f[n + 1]
    BY <1>4, <1>5
  <2> QED BY <1>3, <2>1, <2>2, <2>3, ConcatEmptySeq
<1>6. CASE n # 0
  <2>1. PICK d : FlatUpTo(f, d, n) /\ Flat(f, n) = d[n]
    BY <1>1, <1>6, FlatIs
  <2>2. \A i \in 1 .. n : d[i] = g[i]
    BY <1>2, <1>3, <2>1, FlatUnique
  <2>3. d[n] = g[n] /\ n + 1 # 1
    BY <1>6, <2>2
  <2> QED BY <1>3, <1>4, <2>1, <2>3
<1> QED BY <1>5, <1>6

LEMMA FlatType ==
  ASSUME NEW S, NEW f, NEW m \in Nat, \A i \in 1 .. m : f[i] \in Seq(S)
  PROVE  Flat(f, m) \in Seq(S)
<1> DEFINE N == {n \in Nat : n <= m => Flat(f, n) \in Seq(S)}
<1>1. 0 \in N
  BY FlatNone, EmptySeq
<1>2. ASSUME NEW n \in Nat, n \in N PROVE n + 1 \in N
  <2> SUFFICES ASSUME n + 1 <= m PROVE Flat(f, n + 1) \in Seq(S)
    OBVIOUS
  <2>1. n <= m /\ n + 1 \in 1 .. m /\ \A i \in 1 .. n + 1 : i \in 1 .. m
    OBVIOUS
  <2>2. Flat(f, n) \in Seq(S) /\ f[n + 1] \in Seq(S)
    BY <1>2, <2>1
  <2>3. Flat(f, n + 1) = Flat(f, n) \o f[n + 1]
    BY <2>1, FlatNext
  <2> QED BY <2>2, <2>3, ConcatProperties
<1> HIDE DEF N
<1>3. m \in N
  BY <1>1, <1>2, Reaches
<1> QED BY <1>3 DEF N

(***************************************************************************)
(* What cells spell, and joining it. The operators of the library are      *)
(* behind names of our own: the solvers then use the few laws below, and   *)
(* none of their own.                                                      *)
(***************************************************************************)
Texts == Seq(Nat)
a ++ b == a \o b

LEMMA TextsMade ==
  /\ << >> \in Texts /\ \A n \in Nat : <<n>> \in Texts
  /\ \A a, b \in Texts : a ++ b \in Texts
BY ConcatProperties DEF Texts, ++

LEMMA TextsNone == \A a \in Texts : a ++ << >> = a /\ << >> ++ a = a
BY ConcatEmptySeq DEF Texts, ++

LEMMA TextsJoin == \A a, b, c \in Texts : (a ++ b) ++ c = a ++ (b ++ c)
BY ConcatAssociative DEF Texts, ++

LEMMA FlatMore ==
  ASSUME NEW n \in Nat, NEW f, \A i \in 1 .. n + 1 : f[i] \in Texts
  PROVE  Flat(f, n + 1) = Flat(f, n) ++ f[n + 1] /\ Flat(f, n) \in Texts
<1>1. \A i \in 1 .. n + 1 : f[i] \in Seq(Nat)
  BY DEF Texts
<1>2. \A i \in 1 .. n : f[i] \in Seq(Nat)
  BY <1>1
<1>3. Flat(f, n + 1) = Flat(f, n) \o f[n + 1]
  BY <1>1, FlatNext
<1>4. Flat(f, n) \in Seq(Nat)
  BY <1>2, FlatType
<1> QED BY <1>3, <1>4 DEF Texts, ++

-----------------------------------------------------------------------------
(* The tokens left of a position, without some of them.                    *)

\* What token i adds to Sift(K, i).
Adds(K, i) == IF i \in K THEN <<Mark(i)>> ELSE << >>

LEMMA AddsType ==
  ASSUME NEW K, NEW i \in Nat
  PROVE  Adds(K, i) \in Texts
<1>1. Mark(i) \in Nat
  BY DEF Mark
<1> QED BY <1>1, TextsMade DEF Adds

LEMMA SiftIs ==
  ASSUME NEW K, NEW m \in Nat, NEW n \in 0 .. m
  PROVE  Sift(K, n) = Flat([i \in 1 .. m |-> Adds(K, i)], n)
<1> DEFINE f == [i \in 1 .. m |-> Adds(K, i)]
<1>1. \A i \in 1 .. n : f[i] = Adds(K, i)
  OBVIOUS
<1>2. Sift(K, n) = FlattenSeq([i \in 1 .. n |-> Adds(K, i)])
  BY DEF Sift, Adds
<1> HIDE DEF f
<1>3. [i \in 1 .. n |-> Adds(K, i)] = [i \in 1 .. n |-> f[i]]
  BY <1>1
<1>4. Sift(K, n) = Flat(f, n)
  BY <1>2, <1>3 DEF Flat
<1> QED BY <1>4 DEF f

LEMMA SiftNext ==
  ASSUME NEW K, NEW n \in Nat
  PROVE  /\ Sift(K, n) \in Texts
         /\ Sift(K, n + 1) = Sift(K, n) ++ Adds(K, n + 1)
         /\ Sift(K, 0) = << >>
<1> DEFINE f == [i \in 1 .. n + 1 |-> Adds(K, i)]
<1>1. \A i \in 1 .. n + 1 : f[i] = Adds(K, i) /\ f[i] \in Texts
  BY AddsType
<1>2. /\ n + 1 \in Nat /\ n \in 0 .. n + 1 /\ n + 1 \in 0 .. n + 1 /\ 0 \in 0 .. n + 1
      /\ n + 1 \in 1 .. n + 1 /\ \A i \in 1 .. n : i \in 1 .. n + 1
  OBVIOUS
<1>3. Sift(K, n) = Flat(f, n) /\ Sift(K, n + 1) = Flat(f, n + 1) /\ Sift(K, 0) = Flat(f, 0)
  BY <1>2, SiftIs
<1> HIDE DEF f
<1>4. Flat(f, n + 1) = Flat(f, n) ++ f[n + 1] /\ Flat(f, n) \in Texts
  BY <1>1, <1>2, FlatMore
<1> QED BY <1>1, <1>2, <1>3, <1>4, FlatNone

LEMMA SiftSame ==
  ASSUME NEW K, NEW L, NEW n \in Nat, \A i \in 1 .. n : i \in K <=> i \in L
  PROVE  Sift(K, n) = Sift(L, n)
<1>1. [i \in 1 .. n |-> IF i \in K THEN <<Mark(i)>> ELSE << >>]
      = [i \in 1 .. n |-> IF i \in L THEN <<Mark(i)>> ELSE << >>]
  OBVIOUS
<1> QED BY <1>1 DEF Sift

LEMMA SiftStops ==
  ASSUME NEW K, NEW m \in Nat, NEW n \in Nat, m <= n, \A i \in m + 1 .. n : i \notin K
  PROVE  Sift(K, n) = Sift(K, m)
<1> DEFINE N == {k \in Nat : m + k <= n => Sift(K, m + k) = Sift(K, m)}
<1>1. 0 \in N
  OBVIOUS
<1>2. ASSUME NEW k \in Nat, k \in N PROVE k + 1 \in N
  <2> SUFFICES ASSUME m + (k + 1) <= n PROVE Sift(K, m + (k + 1)) = Sift(K, m)
    OBVIOUS
  <2>1. m + k \in Nat /\ m + k <= n /\ (m + k) + 1 = m + (k + 1) /\ (m + k) + 1 \in m + 1 .. n
    OBVIOUS
  <2>2. Sift(K, (m + k) + 1) = Sift(K, m + k) ++ << >> /\ Sift(K, m + k) \in Texts
    <3>1. Adds(K, (m + k) + 1) = << >>
      BY <2>1 DEF Adds
    <3> QED BY <2>1, <3>1, SiftNext
  <2> QED BY <1>2, <2>1, <2>2, TextsNone
<1> HIDE DEF N
<1>3. \A k \in Nat : k \in N
  BY <1>1, <1>2, Reaches
<1>4. n - m \in Nat /\ m + (n - m) = n
  OBVIOUS
<1>5. n - m \in N
  BY <1>3, <1>4
<1> QED BY <1>4, <1>5 DEF N

-----------------------------------------------------------------------------
(* What a list spells when one more cell is put at its end.                *)

Gap(kids, separator) == IF kids = << >> THEN << >> ELSE separator

LEMMA JoinedIs ==
  ASSUME NEW y, NEW kids, NEW separator
  PROVE  \A f : (\A i \in 1 .. Len(kids) :
                   f[i] = IF i = 1 THEN y[kids[i]] ELSE separator ++ y[kids[i]])
                => Joined(y, kids, separator) = Flat(f, Len(kids))
<1> SUFFICES ASSUME NEW f,
                    \A i \in 1 .. Len(kids) :
                      f[i] = IF i = 1 THEN y[kids[i]] ELSE separator ++ y[kids[i]]
             PROVE  Joined(y, kids, separator) = Flat(f, Len(kids))
  OBVIOUS
<1>1. [i \in 1 .. Len(kids) |-> IF i = 1 THEN y[kids[i]] ELSE separator ++ y[kids[i]]]
      = [i \in 1 .. Len(kids) |-> f[i]]
  OBVIOUS
<1> QED BY <1>1 DEF Joined, Flat, ++

LEMMA JoinedMore ==
  ASSUME NEW y, NEW kids \in Seq(Nat), NEW r \in Nat, NEW separator \in Texts,
         \A i \in DOMAIN kids : y[kids[i]] \in Texts, y[r] \in Texts
  PROVE  /\ Joined(y, kids, separator) \in Texts
         /\ Joined(y, Append(kids, r), separator)
            = (Joined(y, kids, separator) ++ Gap(kids, separator)) ++ y[r]
<1> DEFINE n == Len(kids)
           more == Append(kids, r)
           f == [i \in 1 .. n + 1 |-> IF i = 1 THEN y[more[i]] ELSE separator ++ y[more[i]]]
<1>1. /\ n \in Nat /\ DOMAIN kids = 1 .. n /\ more \in Seq(Nat) /\ Len(more) = n + 1
      /\ more[n + 1] = r /\ \A i \in 1 .. n : more[i] = kids[i]
  BY LenProperties, AppendProperties
<1> HIDE DEF more
<1>2. \A i \in 1 .. n + 1 : f[i] = IF i = 1 THEN y[more[i]] ELSE separator ++ y[more[i]]
  OBVIOUS
<1> HIDE DEF f
<1>3. \A i \in 1 .. n + 1 : y[more[i]] \in Texts
  <2> HIDE DEF n
  <2>1. \A i \in 1 .. n + 1 : i \in 1 .. n \/ i = n + 1
    BY <1>1
  <2> QED BY <1>1, <2>1
<1>4. \A i \in 1 .. n + 1 : f[i] \in Texts
  <2> TAKE i \in 1 .. n + 1
  <2>1. y[more[i]] \in Texts /\ f[i] = IF i = 1 THEN y[more[i]] ELSE separator ++ y[more[i]]
    BY <1>2, <1>3
  <2>2. separator ++ y[more[i]] \in Texts
    BY <2>1, TextsMade
  <2> QED BY <2>1, <2>2
<1>5. Joined(y, more, separator) = Flat(f, n + 1)
  <2> HIDE DEF n
  <2> QED BY <1>1, <1>2, JoinedIs
<1>6. Joined(y, kids, separator) = Flat(f, n)
  <2>1. \A i \in 1 .. n : f[i] = IF i = 1 THEN y[kids[i]] ELSE separator ++ y[kids[i]]
    <3> HIDE DEF n
    <3>1. \A i \in 1 .. n : i \in 1 .. n + 1
      BY <1>1
    <3> QED BY <1>1, <1>2, <3>1
  <2> QED BY <2>1, JoinedIs
<1>7. Flat(f, n + 1) = Flat(f, n) ++ f[n + 1] /\ Flat(f, n) \in Texts
  <2> HIDE DEF n
  <2>1. \A i \in 1 .. n : i \in 1 .. n + 1
    BY <1>1
  <2> QED BY <1>1, <1>4, <2>1, FlatMore
<1>8. f[n + 1] = Gap(kids, separator) ++ y[r]
  <2>1. n + 1 \in 1 .. n + 1
    BY <1>1
  <2>2. f[n + 1] = IF n = 0 THEN y[r] ELSE separator ++ y[r]
    <3> HIDE DEF n
    <3> QED BY <1>1, <1>2, <2>1
  <2>3. n = 0 <=> kids = << >>
    BY EmptySeq
  <2>4. << >> ++ y[r] = y[r]
    BY TextsNone
  <2> QED BY <2>2, <2>3, <2>4 DEF Gap
<1>9. Gap(kids, separator) \in Texts
  BY TextsMade DEF Gap
<1>10. (Flat(f, n) ++ Gap(kids, separator)) ++ y[r] = Flat(f, n) ++ (Gap(kids, separator) ++ y[r])
  <2> HIDE DEF n
  <2> QED BY <1>7, <1>9, TextsJoin
<1> QED BY <1>5, <1>6, <1>7, <1>8, <1>10 DEF more

LEMMA JoinedNone == ASSUME NEW y, NEW separator PROVE Joined(y, << >>, separator) = << >>
<1>1. Len(<< >>) = 0
  BY EmptySeq
<1>2. \A i \in 1 .. Len(<< >>) : y[i] = IF i = 1 THEN y[<< >>[i]] ELSE separator ++ y[<< >>[i]]
  BY <1>1
<1>3. Joined(y, << >>, separator) = Flat(y, Len(<< >>))
  BY <1>2, JoinedIs
<1> QED BY <1>1, <1>3, FlatNone

LEMMA JoinedSame ==
  ASSUME NEW y, NEW z, NEW kids, NEW separator, \A i \in 1 .. Len(kids) : y[kids[i]] = z[kids[i]]
  PROVE  Joined(y, kids, separator) = Joined(z, kids, separator)
<1>1. [i \in 1 .. Len(kids) |-> IF i = 1 THEN y[kids[i]] ELSE separator ++ y[kids[i]]]
      = [i \in 1 .. Len(kids) |-> IF i = 1 THEN z[kids[i]] ELSE separator ++ z[kids[i]]]
  OBVIOUS
<1> QED BY <1>1 DEF Joined, ++

\* f and y spell the same for each of kids.
Agrees(f, y, kids) == \A i \in DOMAIN kids : f[kids[i]] = y[kids[i]] /\ y[kids[i]] \in Texts

LEMMA JoinedOnto ==
  ASSUME NEW f, NEW y, NEW kids \in Seq(Nat), NEW r \in Nat, NEW separator \in Texts,
         Agrees(f, y, kids), f[r] = y[r], y[r] \in Texts
  PROVE  /\ Joined(f, Append(kids, r), separator)
            = (Joined(y, kids, separator) ++ Gap(kids, separator)) ++ y[r]
         /\ Append(kids, r) # << >>
<1>1. \A i \in DOMAIN kids : f[kids[i]] \in Texts
  BY DEF Agrees
<1>2. f[r] \in Texts
  OBVIOUS
<1>3. Joined(f, Append(kids, r), separator)
      = (Joined(f, kids, separator) ++ Gap(kids, separator)) ++ f[r]
  BY <1>1, <1>2, JoinedMore
<1>4. DOMAIN kids = 1 .. Len(kids)
  BY LenProperties
<1>5. Joined(f, kids, separator) = Joined(y, kids, separator)
  BY <1>4, JoinedSame DEF Agrees
<1>6. Append(kids, r) # << >>
  BY AppendProperties
<1> QED BY <1>3, <1>5, <1>6

-----------------------------------------------------------------------------
(* Yield is well defined on every heap the parse builds: a step changes    *)
(* one cell at a time, a new one or a list that no cell holds yet.         *)

\* y spells every cell of h, and nothing else does.
Reads(h, y) == y = [r \in DOMAIN h |-> YieldOf(h, y, r)]
Spells(h, y) ==
  /\ y \in [DOMAIN h -> Texts] /\ Reads(h, y)
  /\ \A e : Reads(h, e) => e = y

LEMMA YieldIs ==
  /\ \A y : Spells(heap, y) => Yield = y
  /\ \A y : Spells(heap', y) => Yield' = y
<1> DEFINE In(h) == CHOOSE e : e = [r \in DOMAIN h |-> YieldOf(h, e, r)]
<1>1. ASSUME NEW h, NEW y, Spells(h, y) PROVE In(h) = y
  <2>1. y = [r \in DOMAIN h |-> YieldOf(h, y, r)]
    BY <1>1 DEF Spells, Reads
  <2>2. In(h) = [r \in DOMAIN h |-> YieldOf(h, In(h), r)]
    BY <2>1
  <2> HIDE DEF In
  <2> QED BY <1>1, <2>2 DEF Spells, Reads
<1>2. Yield = In(heap) /\ Yield' = In(heap')
  BY DEF Yield
<1> HIDE DEF In
<1> QED BY <1>1, <1>2

\* A wrapper, a group and a production have what they were built around.
Built(cell) == cell.kind \in {"rep", "group", "prod"} => 1 \in DOMAIN cell.kids
Whole(h) == \A r \in DOMAIN h : Built(h[r])

\* No cell of h holds c.
Apart(h, c) == \A r \in DOMAIN h : \A i \in DOMAIN h[r].kids : h[r].kids[i] # c

LEMMA YieldLocal ==
  ASSUME NEW h \in Seq(Cells), Whole(h), NEW r \in DOMAIN h, NEW y, NEW z,
         \A i \in DOMAIN h[r].kids : y[h[r].kids[i]] = z[h[r].kids[i]]
  PROVE  YieldOf(h, y, r) = YieldOf(h, z, r)
<1> DEFINE kids == h[r].kids
<1>1. DOMAIN kids = 1 .. Len(kids)
  BY HeapCells
<1>2. \A separator : Joined(y, kids, separator) = Joined(z, kids, separator)
  BY <1>1, JoinedSame
<1>3. h[r].kind \in {"rep", "group", "prod"} => y[kids[1]] = z[kids[1]]
  BY DEF Whole, Built
<1> QED BY <1>2, <1>3 DEF YieldOf

\* In k, c is spelled v over whatever spells the rest of D as y does.
Makes(k, y, D, c, v) ==
  \A f : (\A m \in D : m # c => f[m] = y[m]) => YieldOf(k, f, c) = v

\* f and g agree on D, but maybe for c.
SameOff(f, g, D, c) == \A r \in D : r # c => g[r] = f[r]

LEMMA SpellsChange ==
  ASSUME NEW h \in Seq(Cells), Tidy(h), Whole(h), NEW k, NEW c, NEW y, NEW v \in Texts,
         Spells(h, y), Apart(h, c), DOMAIN k = DOMAIN h \cup {c}, SameOff(h, k, DOMAIN h, c),
         Makes(k, y, DOMAIN h, c, v)
  PROVE  \E z : Spells(k, z) /\ z[c] = v /\ SameOff(y, z, DOMAIN h, c)
<1>0. \A r \in DOMAIN h : r # c => k[r] = h[r]
  BY DEF SameOff
<1> DEFINE z == [r \in DOMAIN k |-> IF r = c THEN v ELSE y[r]]
<1>1. /\ y \in [DOMAIN h -> Texts] /\ y = [r \in DOMAIN h |-> YieldOf(h, y, r)]
      /\ \A f : f = [r \in DOMAIN h |-> YieldOf(h, f, r)] => f = y
  BY DEF Spells, Reads
<1>2. /\ z \in [DOMAIN k -> Texts] /\ z[c] = v /\ z = [r \in DOMAIN k |-> z[r]]
      /\ \A m \in DOMAIN h : m # c => z[m] = y[m]
  BY <1>1
<1> HIDE DEF z
<1>3. \A r \in DOMAIN h : \A f, g :
        (\A m \in DOMAIN h : m # c => f[m] = g[m]) => YieldOf(h, f, r) = YieldOf(h, g, r)
  <2> SUFFICES ASSUME NEW r \in DOMAIN h, NEW f, NEW g, \A m \in DOMAIN h : m # c => f[m] = g[m]
               PROVE  YieldOf(h, f, r) = YieldOf(h, g, r)
    OBVIOUS
  <2>1. \A i \in DOMAIN h[r].kids : f[h[r].kids[i]] = g[h[r].kids[i]]
    BY DEF Tidy, Apart
  <2> QED BY <2>1, YieldLocal
<1>4. \A r \in DOMAIN h : r # c => \A f : YieldOf(k, f, r) = YieldOf(h, f, r)
  BY <1>0 DEF YieldOf
<1>5. Reads(k, z)
  <2>1. YieldOf(k, z, c) = v
    BY <1>2 DEF Makes
  <2>2. \A r \in DOMAIN h : r # c => YieldOf(k, z, r) = y[r]
    <3>1. \A r \in DOMAIN h : YieldOf(h, z, r) = YieldOf(h, y, r)
      BY <1>2, <1>3
    <3>2. \A r \in DOMAIN h : YieldOf(h, y, r) = y[r]
      BY <1>1
    <3> QED BY <1>4, <3>1, <3>2
  <2>3. \A r \in DOMAIN k : z[r] = YieldOf(k, z, r)
    BY <1>2, <2>1, <2>2
  <2> QED BY <1>2, <2>3 DEF Reads
<1>6. ASSUME NEW f, Reads(k, f) PROVE f = z
  <2> DEFINE g == [r \in DOMAIN h |-> IF r = c THEN YieldOf(h, f, c) ELSE f[r]]
  <2>1. f = [r \in DOMAIN k |-> YieldOf(k, f, r)]
    BY <1>6 DEF Reads
  <2>2. /\ \A m \in DOMAIN h : m # c => f[m] = g[m]
        /\ \A m \in DOMAIN h : m = c => g[m] = YieldOf(h, f, c)
        /\ g = [r \in DOMAIN h |-> g[r]]
    OBVIOUS
  <2> HIDE DEF g
  <2>3. \A r \in DOMAIN h : YieldOf(h, g, r) = YieldOf(h, f, r)
    BY <1>3, <2>2
  <2>4. \A r \in DOMAIN h : r # c => f[r] = YieldOf(h, f, r)
    <3>1. \A r \in DOMAIN h : f[r] = YieldOf(k, f, r)
      BY <2>1
    <3> QED BY <1>4, <3>1
  <2>5. \A r \in DOMAIN h : g[r] = YieldOf(h, g, r)
    BY <2>2, <2>3, <2>4
  <2>6. g = y
    BY <1>1, <2>2, <2>5
  <2>7. \A m \in DOMAIN h : m # c => f[m] = y[m]
    BY <2>2, <2>6
  <2>8. f[c] = v
    <3>1. f[c] = YieldOf(k, f, c)
      BY <2>1
    <3> QED BY <2>7, <3>1 DEF Makes
  <2>9. \A r \in DOMAIN k : f[r] = z[r]
    BY <1>2, <2>7, <2>8
  <2>10. f = [r \in DOMAIN k |-> f[r]]
    BY <2>1
  <2> QED BY <1>2, <2>9, <2>10
<1>7. Spells(k, z)
  BY <1>2, <1>5, <1>6 DEF Spells
<1>8. SameOff(y, z, DOMAIN h, c)
  BY <1>2 DEF SameOff
<1> QED BY <1>2, <1>7, <1>8

\* What the parse's cells spell, and how they are made.
Spelt == Spells(heap, Yield) /\ Whole(heap)

Separator(kind) == IF kind = "alts" THEN <<0>> ELSE << >>
\* What a list spells, up to where its next cell goes.
Filled(h, y, list) == y[list] ++ Gap(h[list].kids, Separator(h[list].kind))

LEMMA SpellsNew ==
  ASSUME NEW h \in Seq(Cells), Tidy(h), Whole(h), NEW y, Spells(h, y),
         NEW cell \in Cells, Built(cell), NEW k, k = Append(h, cell), NEW c, c = Len(h) + 1,
         NEW v \in Texts, Makes(k, y, DOMAIN h, c, v)
  PROVE  /\ Whole(k) /\ c \notin DOMAIN h /\ SameOff(h, k, DOMAIN h, c)
         /\ \E z : Spells(k, z) /\ z[c] = v /\ SameOff(y, z, DOMAIN h, c)
<1>1. /\ Len(h) \in Nat /\ DOMAIN h = 1 .. Len(h) /\ DOMAIN k = 1 .. Len(h) + 1
      /\ k[c] = cell /\ \A r \in DOMAIN h : k[r] = h[r]
  BY HeapCells, AppendProperties
<1>2. c \notin DOMAIN h /\ DOMAIN k = DOMAIN h \cup {c}
  BY <1>1
<1>3. Whole(k)
  BY <1>1, <1>2 DEF Whole, Built
<1>4. Apart(h, c)
  <2> SUFFICES ASSUME NEW r \in DOMAIN h, NEW i \in DOMAIN h[r].kids PROVE h[r].kids[i] # c
    BY DEF Apart
  <2>1. h[r].kids[i] \in DOMAIN h
    BY DEF Tidy
  <2> QED BY <1>2, <2>1
<1>5. SameOff(h, k, DOMAIN h, c)
  BY <1>1 DEF SameOff
<1>6. \E z : Spells(k, z) /\ z[c] = v /\ SameOff(y, z, DOMAIN h, c)
  BY <1>2, <1>4, <1>5, SpellsChange
<1> QED BY <1>2, <1>3, <1>5, <1>6

LEMMA SpellsPush ==
  ASSUME NEW h \in Seq(Cells), Tidy(h), Whole(h), NEW y, Spells(h, y),
         NEW list \in DOMAIN h, Free(h, list), h[list].kind \in {"prods", "alts", "seq"},
         NEW r \in DOMAIN h, r # list,
         NEW k, k = PushNode(h, list, r)
  PROVE  /\ Whole(k) /\ SameOff(h, k, DOMAIN h, list)
         /\ \E z : /\ Spells(k, z) /\ SameOff(y, z, DOMAIN h, list)
                   /\ z[list] = Filled(h, y, list) ++ y[r]
                   /\ Filled(k, z, list) = z[list] ++ Separator(h[list].kind)
<1> DEFINE kids == h[list].kids
           separator == Separator(h[list].kind)
           v == (y[list] ++ Gap(kids, separator)) ++ y[r]
<1>0. /\ h[list] \in Cells /\ kids \in Seq(Nat) /\ r \in Nat /\ separator \in Texts
      /\ DOMAIN kids = 1 .. Len(kids) /\ DOMAIN h = 1 .. Len(h) /\ Len(h) \in Nat
  BY HeapCells, TextsMade DEF Separator
<1>1. y \in [DOMAIN h -> Texts] /\ y = [m \in DOMAIN h |-> YieldOf(h, y, m)]
  BY DEF Spells, Reads
<1>2. /\ DOMAIN k = DOMAIN h /\ \A m \in DOMAIN h : m # list => k[m] = h[m]
      /\ k[list].kind = h[list].kind /\ k[list].kids = Append(kids, r)
  BY <1>0 DEF PushNode, Cells
<1>3. Whole(k)
  BY <1>2 DEF Whole, Built
<1>4. Apart(h, list)
  BY DEF Apart, Free
<1>5. \A i \in DOMAIN kids : kids[i] \in DOMAIN h /\ kids[i] # list
  BY <1>4 DEF Tidy, Apart
<1>6. \A f : YieldOf(k, f, list) = Joined(f, Append(kids, r), separator)
  BY <1>2 DEF YieldOf, Separator
<1>7. y[list] = Joined(y, kids, separator)
  <2>1. y[list] = YieldOf(h, y, list)
    BY <1>1
  <2> QED BY <2>1 DEF YieldOf, Separator
<1> HIDE DEF kids, separator
<1>8. Makes(k, y, DOMAIN h, list, v)
  <2> SUFFICES ASSUME NEW f, \A m \in DOMAIN h : m # list => f[m] = y[m]
               PROVE  YieldOf(k, f, list) = v
    BY DEF Makes
  <2>1. Agrees(f, y, kids) /\ f[r] = y[r] /\ y[r] \in Texts
    BY <1>1, <1>5 DEF Agrees
  <2>2. Joined(f, Append(kids, r), separator)
        = (Joined(y, kids, separator) ++ Gap(kids, separator)) ++ y[r]
    BY <1>0, <2>1, JoinedOnto
  <2> QED BY <1>6, <1>7, <2>2
<1>9. v \in Texts
  <2>1. y[list] \in Texts /\ y[r] \in Texts /\ Gap(kids, separator) \in Texts
    BY <1>0, <1>1, TextsMade DEF Gap
  <2> QED BY <2>1, TextsMade
<1>10. DOMAIN k = DOMAIN h \cup {list}
  BY <1>2
<1>a. SameOff(h, k, DOMAIN h, list)
  BY <1>2 DEF SameOff
<1>11. PICK z : Spells(k, z) /\ z[list] = v /\ SameOff(y, z, DOMAIN h, list)
  <2> HIDE DEF v
  <2> QED BY <1>4, <1>8, <1>9, <1>10, <1>a, SpellsChange
<1>12. Append(kids, r) # << >>
  BY <1>0, AppendProperties
<1>13. Filled(k, z, list) = z[list] ++ separator
  BY <1>2, <1>12 DEF Filled, Gap, separator
<1>14. v = Filled(h, y, list) ++ y[r]
  BY DEF Filled, kids, separator
<1> QED BY <1>3, <1>a, <1>11, <1>13, <1>14 DEF separator

-----------------------------------------------------------------------------
(* What the frames of the stack have read so far, from the bottom up.      *)

Lists == {"gbnf", "alts", "seq"}

\* What frame f stands for, but for the child last handed to it.
Own(h, y, f) ==
  CASE f.phase = "close" /\ f.rule \in Lists -> Filled(h, y, f.node)
    [] f.phase = "close" /\ f.rule = "prod" -> <<f.tok>>
    [] f.phase = "close" /\ f.rule = "atom" /\ f.grouped -> <<f.tok>>
    [] f.phase = "close" /\ f.rule = "atom" /\ ~f.grouped /\ f.node # Undef -> y[f.node]
    [] OTHER -> << >>

\* The child a frame has been handed and has not put anywhere yet.
Given(y, f) ==
  IF /\ f.phase = "close" /\ f.child # Undef
     /\ f.rule \in {"prod", "alts", "elem"} \/ f.grouped
    THEN y[f.child] ELSE << >>

Below(h, y, s, n) == FlattenSeq([i \in 1 .. n |-> Own(h, y, s[i])])
Told(h, y, s) == Below(h, y, s, Len(s)) \o Given(y, s[Len(s)])

LEMMA OwnIs ==
  ASSUME NEW h, NEW y, NEW f \in Frames, f.grouped => f.rule = "atom"
  PROVE  /\ f.phase = "open" => Own(h, y, f) = << >> /\ Given(y, f) = << >>
         /\ f.phase = "close" =>
              /\ f.rule \in Lists => Own(h, y, f) = Filled(h, y, f.node)
              /\ f.rule = "prod" => Own(h, y, f) = <<f.tok>>
              /\ f.rule = "elem" => Own(h, y, f) = << >>
              /\ f.rule = "atom" => Own(h, y, f) = IF f.grouped THEN <<f.tok>>
                                                   ELSE IF f.node = Undef THEN << >> ELSE y[f.node]
              /\ Given(y, f) = IF f.child # Undef /\ (f.rule \in {"prod", "alts", "elem"} \/ f.grouped)
                                 THEN y[f.child] ELSE << >>
<1>1. f.phase = "open" => Own(h, y, f) = << >> /\ Given(y, f) = << >>
  BY DEF Own, Given
<1>2. f.phase = "close" /\ f.rule \in Lists => Own(h, y, f) = Filled(h, y, f.node)
  BY DEF Own, Lists
<1>3. f.phase = "close" /\ f.rule = "prod" => Own(h, y, f) = <<f.tok>>
  BY DEF Own, Lists
<1>4. f.phase = "close" /\ f.rule = "elem" => Own(h, y, f) = << >>
  BY DEF Own, Lists
<1>5. f.phase = "close" /\ f.rule = "atom" =>
        Own(h, y, f) = IF f.grouped THEN <<f.tok>> ELSE IF f.node = Undef THEN << >> ELSE y[f.node]
  BY DEF Own, Lists
<1>6. f.phase = "close" =>
        Given(y, f) = IF f.child # Undef /\ (f.rule \in {"prod", "alts", "elem"} \/ f.grouped)
                        THEN y[f.child] ELSE << >>
  BY DEF Given
<1> QED BY <1>1, <1>2, <1>3, <1>4, <1>5, <1>6

\* The list a frame fills, if any, is the same in k as in h.
SameList(h, y, k, z, f) ==
  f.phase = "close" /\ f.rule \in Lists => k[f.node] = h[f.node] /\ z[f.node] = y[f.node]

LEMMA OwnSame ==
  ASSUME NEW h, NEW y, NEW k, NEW z, NEW f \in Frames, NEW g \in Frames,
         SameFrame(f, g), f.tok = g.tok, f.rule = "atom" <=> f.grouped, SameList(h, y, k, z, f)
  PROVE  Own(h, y, f) = Own(k, z, g)
<1>1. /\ g.rule = f.rule /\ g.phase = f.phase /\ g.node = f.node /\ g.grouped = f.grouped
      /\ f.phase \in {"open", "close"} /\ f.rule \in Lists \cup {"prod", "elem", "atom"}
  BY DEF SameFrame, Frames, Rules, Lists
<1>2. CASE f.phase = "open"
  BY <1>1, <1>2, OwnIs
<1>3. CASE f.phase = "close" /\ f.rule \in Lists
  <2>1. Filled(h, y, f.node) = Filled(k, z, g.node)
    BY <1>1, <1>3 DEF Filled, SameList
  <2>2. Own(h, y, f) = Filled(h, y, f.node) /\ Own(k, z, g) = Filled(k, z, g.node)
    BY <1>1, <1>3, OwnIs
  <2> QED BY <2>1, <2>2
<1>4. CASE f.phase = "close" /\ f.rule = "prod"
  <2>1. Own(h, y, f) = <<f.tok>> /\ Own(k, z, g) = <<g.tok>>
    BY <1>1, <1>4, OwnIs
  <2> QED BY <2>1
<1>5. CASE f.phase = "close" /\ f.rule = "elem"
  BY <1>1, <1>5, OwnIs
<1>6. CASE f.phase = "close" /\ f.rule = "atom"
  <2>1. f.grouped /\ g.grouped
    BY <1>1, <1>6
  <2>2. Own(h, y, f) = <<f.tok>> /\ Own(k, z, g) = <<g.tok>>
    BY <1>1, <1>6, <2>1, OwnIs
  <2> QED BY <2>2
<1> QED BY <1>1, <1>2, <1>3, <1>4, <1>5, <1>6

\* The stack s stands on the heap h, which y spells.
Stands(h, y, s) ==
  /\ h \in Seq(Cells) /\ Spells(h, y)
  /\ s \in Seq(Frames) /\ Shaped(s) /\ Anchored(h, s)

LEMMA FilledType ==
  ASSUME NEW h, NEW y \in [DOMAIN h -> Texts], NEW r \in DOMAIN h
  PROVE  Filled(h, y, r) \in Texts
<1>1. y[r] \in Texts
  OBVIOUS
<1>2. Gap(h[r].kids, Separator(h[r].kind)) \in Texts
  BY TextsMade DEF Gap, Separator
<1> QED BY <1>1, <1>2, TextsMade DEF Filled

LEMMA StackFrames ==
  ASSUME NEW s \in Seq(Frames), Shaped(s)
  PROVE  /\ Len(s) \in Nat \ {0} /\ Len(s) \in 1 .. Len(s)
         /\ \A i \in 1 .. Len(s) :
              /\ s[i] \in Frames /\ s[i].tok \in Nat /\ (s[i].grouped => s[i].rule = "atom")
              /\ s[i].rule = RuleAt(i)
              /\ i < Len(s) => s[i].phase = "close" /\ (s[i].rule = "atom" => s[i].grouped)
<1>1. Len(s) \in Nat /\ Len(s) > 0 /\ DOMAIN s = 1 .. Len(s)
  BY LenProperties DEF Shaped
<1>2. \A i \in 1 .. Len(s) : s[i] \in Frames
  BY <1>1
<1>3. \A i \in 1 .. Len(s) : s[i].tok \in Nat
  BY <1>2 DEF Frames
<1> QED BY <1>1, <1>2, <1>3 DEF Shaped, ShapedAt

LEMMA OwnTexts ==
  ASSUME NEW h, NEW y, NEW s, Stands(h, y, s)
  PROVE  /\ \A i \in 1 .. Len(s) : Own(h, y, s[i]) \in Texts
         /\ Given(y, s[Len(s)]) \in Texts
<1>1. /\ y \in [DOMAIN h -> Texts] /\ s \in Seq(Frames) /\ Shaped(s)
      /\ Held(h, s, Len(s)) /\ Delivered(h, s)
  BY DEF Stands, Spells, Anchored
<1>2. \A r \in DOMAIN h : y[r] \in Texts /\ Filled(h, y, r) \in Texts
  BY <1>1, FilledType
<1>3. ASSUME NEW i \in 1 .. Len(s) PROVE Own(h, y, s[i]) \in Texts
  <2> DEFINE f == s[i]
  <2>1. /\ f \in Frames /\ f.tok \in Nat /\ (f.grouped => f.rule = "atom")
        /\ f.phase \in {"open", "close"} /\ f.rule \in Lists \cup {"prod", "elem", "atom"}
        /\ i < Len(s) => f.phase = "close" /\ (f.rule = "atom" => f.grouped)
    BY <1>1, StackFrames DEF Frames, Rules, Lists
  <2>2. f.phase = "close" /\ f.rule \in Lists => f.node \in DOMAIN h
    BY <1>1 DEF Held, Holds, Is, Free, Owners, Lists
  <2>3. f.phase = "close" /\ f.rule = "atom" /\ ~f.grouped =>
          f.node = Undef \/ f.node \in DOMAIN h
    <3> SUFFICES ASSUME f.phase = "close", f.rule = "atom", ~f.grouped
                 PROVE  f.node = Undef \/ f.node \in DOMAIN h
      OBVIOUS
    <3>1. i = Len(s)
      BY <1>1, <2>1, StackFrames
    <3> QED BY <1>1, <3>1 DEF Delivered, Handed, Free
  <2> HIDE DEF f
  <2>4. << >> \in Texts /\ <<f.tok>> \in Texts
    BY <2>1, TextsMade
  <2>5. Own(h, y, f) \in Texts
    <3>1. CASE f.phase = "open"
      BY <2>1, <2>4, <3>1, OwnIs
    <3>2. CASE f.phase = "close" /\ f.rule \in Lists
      <4>1. Own(h, y, f) = Filled(h, y, f.node)
        BY <2>1, <3>2, OwnIs
      <4> QED BY <1>2, <2>2, <3>2, <4>1
    <3>3. CASE f.phase = "close" /\ f.rule \in {"prod", "elem"}
      BY <2>1, <2>4, <3>3, OwnIs
    <3>4. CASE f.phase = "close" /\ f.rule = "atom"
      <4>1. Own(h, y, f) = IF f.grouped THEN <<f.tok>> ELSE IF f.node = Undef THEN << >> ELSE y[f.node]
        BY <2>1, <3>4, OwnIs
      <4> QED BY <1>2, <2>3, <2>4, <3>4, <4>1
    <3> QED BY <2>1, <3>1, <3>2, <3>3, <3>4
  <2> QED BY <2>5 DEF f
<1>4. Given(y, s[Len(s)]) \in Texts
  <2> DEFINE f == s[Len(s)]
  <2>1. f.phase = "close" /\ f.child # Undef
        /\ (f.rule \in {"prod", "alts", "elem"} \/ f.grouped) => f.child \in DOMAIN h
    <3>1. f.grouped => f.rule = "atom"
      BY <1>1, StackFrames
    <3> QED BY <1>1, <3>1 DEF Delivered, Handed, Free
  <2> QED BY <1>2, <2>1, TextsMade DEF Given
<1> QED BY <1>3, <1>4

LEMMA BelowMore ==
  ASSUME NEW h, NEW y, NEW s, NEW n \in Nat, \A i \in 1 .. n + 1 : Own(h, y, s[i]) \in Texts
  PROVE  /\ Below(h, y, s, n) \in Texts
         /\ Below(h, y, s, n + 1) = Below(h, y, s, n) ++ Own(h, y, s[n + 1])
<1> DEFINE f == [i \in 1 .. n + 1 |-> Own(h, y, s[i])]
<1>1. \A i \in 1 .. n + 1 : f[i] = Own(h, y, s[i]) /\ f[i] \in Texts
  OBVIOUS
<1>2. n + 1 \in 1 .. n + 1 /\ \A i \in 1 .. n : i \in 1 .. n + 1
  OBVIOUS
<1> HIDE DEF f
<1>3. [i \in 1 .. n |-> Own(h, y, s[i])] = [i \in 1 .. n |-> f[i]]
  BY <1>1, <1>2
<1>4. [i \in 1 .. n + 1 |-> Own(h, y, s[i])] = [i \in 1 .. n + 1 |-> f[i]]
  BY <1>1
<1>5. Below(h, y, s, n) = Flat(f, n) /\ Below(h, y, s, n + 1) = Flat(f, n + 1)
  BY <1>3, <1>4 DEF Below, Flat
<1>6. Flat(f, n + 1) = Flat(f, n) ++ f[n + 1] /\ Flat(f, n) \in Texts
  BY <1>1, FlatMore
<1> QED BY <1>1, <1>2, <1>5, <1>6

LEMMA BelowNone == ASSUME NEW h, NEW y, NEW s PROVE Below(h, y, s, 0) = << >>
<1>1. [i \in 1 .. 0 |-> Own(h, y, s[i])] = [i \in 1 .. 0 |-> << >>]
  OBVIOUS
<1>2. Below(h, y, s, 0) = Flat([i \in 1 .. 0 |-> << >>], 0)
  BY <1>1 DEF Below, Flat
<1> QED BY <1>2, FlatNone

LEMMA BelowSame ==
  ASSUME NEW h, NEW y, NEW s, NEW k, NEW z, NEW t, NEW n,
         \A i \in 1 .. n : Own(h, y, s[i]) = Own(k, z, t[i])
  PROVE  Below(h, y, s, n) = Below(k, z, t, n)
<1>1. [i \in 1 .. n |-> Own(h, y, s[i])] = [i \in 1 .. n |-> Own(k, z, t[i])]
  OBVIOUS
<1> QED BY <1>1 DEF Below

\* What the stack has read, seen from its top.
LEMMA ToldIs ==
  ASSUME NEW h, NEW y, NEW s, Stands(h, y, s), NEW n, n = Len(s)
  PROVE  /\ n \in Nat \ {0} /\ Own(h, y, s[n]) \in Texts /\ Given(y, s[n]) \in Texts
         /\ Told(h, y, s) = (Below(h, y, s, n - 1) ++ Own(h, y, s[n])) ++ Given(y, s[n])
         /\ \A m \in 0 .. n - 1 :
              /\ Below(h, y, s, m) \in Texts
              /\ Below(h, y, s, m + 1) = Below(h, y, s, m) ++ Own(h, y, s[m + 1])
         /\ Below(h, y, s, 0) = << >>
<1>1. n \in Nat \ {0}
  BY StackFrames DEF Stands
<1>2. \A i \in 1 .. n : Own(h, y, s[i]) \in Texts
  BY OwnTexts
<1>3. Given(y, s[n]) \in Texts
  BY OwnTexts
<1>4. ASSUME NEW m \in 0 .. n - 1
      PROVE  /\ Below(h, y, s, m) \in Texts
             /\ Below(h, y, s, m + 1) = Below(h, y, s, m) ++ Own(h, y, s[m + 1])
  <2>1. m \in Nat /\ \A i \in 1 .. m + 1 : i \in 1 .. n
    BY <1>1
  <2>2. \A i \in 1 .. m + 1 : Own(h, y, s[i]) \in Texts
    BY <1>2, <2>1
  <2> QED BY <2>1, <2>2, BelowMore
<1>5. n \in 1 .. n /\ n - 1 \in 0 .. n - 1 /\ (n - 1) + 1 = n
  BY <1>1
<1>6. Below(h, y, s, n) = Below(h, y, s, n - 1) ++ Own(h, y, s[n])
  BY <1>4, <1>5
<1>7. Told(h, y, s) = Below(h, y, s, n) ++ Given(y, s[n])
  BY DEF Told, ++
<1> QED BY <1>1, <1>2, <1>3, <1>4, <1>5, <1>6, <1>7, BelowNone

-----------------------------------------------------------------------------
(* What a step leaves alone, from the bottom of the stack up.              *)

\* Below m + 1, t holds the frames of s, but for the children handed to them.
Kin(s, t, m) == \A i \in 1 .. m : t[i] \in Frames /\ SameFrame(s[i], t[i]) /\ s[i].tok = t[i].tok

\* No list of the first m frames is cell c.
Clear(s, m, c) == \A i \in 1 .. m : s[i].phase = "close" /\ s[i].rule \in Lists => s[i].node # c

LEMMA ListsHeld ==
  ASSUME FInv, NEW i \in 1 .. Len(stack), stack[i].phase = "close", stack[i].rule \in Lists
  PROVE  stack[i].node \in DOMAIN heap
BY DEF FInv, Anchored, Held, Holds, Is, Free, Owners, Lists

LEMMA LowerSame ==
  ASSUME FInv, NEW m \in 0 .. Len(stack) - 1, NEW k, NEW z, NEW c, NEW t,
         SameOff(heap, k, DOMAIN heap, c), SameOff(Yield, z, DOMAIN heap, c),
         Clear(stack, m, c), Kin(stack, t, m)
  PROVE  \A j \in 0 .. m : Below(heap, Yield, stack, j) = Below(k, z, t, j)
<1>1. stack \in Seq(Frames) /\ Shaped(stack)
  BY DEF FInv, IInv, TypeOK, StackShape
<1>2. Len(stack) \in Nat /\ m <= Len(stack) /\ \A i \in 1 .. m : i \in 1 .. Len(stack) /\ i < Len(stack)
  BY <1>1, StackFrames
<1>3. ASSUME NEW i \in 1 .. m PROVE Own(heap, Yield, stack[i]) = Own(k, z, t[i])
  <2>1. stack[i] \in Frames /\ (stack[i].rule = "atom" <=> stack[i].grouped)
    BY <1>1, <1>2, StackFrames
  <2>2. t[i] \in Frames /\ SameFrame(stack[i], t[i]) /\ stack[i].tok = t[i].tok
    BY DEF Kin
  <2>3. SameList(heap, Yield, k, z, stack[i])
    BY <1>2, ListsHeld DEF Clear, SameOff, SameList
  <2> QED BY <2>1, <2>2, <2>3, OwnSame
<1>4. \A j \in 0 .. m : \A i \in 1 .. j : i \in 1 .. m
  OBVIOUS
<1> QED BY <1>3, <1>4, BelowSame

LEMMA ClearFresh ==
  ASSUME FInv
  PROVE  Clear(stack, Len(stack) - 1, Fresh)
<1>1. Len(stack) \in Nat /\ \A i \in 1 .. Len(stack) - 1 : i \in 1 .. Len(stack)
  BY TopFacts
<1>2. Fresh \notin DOMAIN heap
  BY TopFacts
<1> QED BY <1>1, <1>2, ListsHeld DEF Clear

LEMMA ClearOwner ==
  ASSUME FInv, NEW n \in 1 .. Len(stack), stack[n].phase = "close", stack[n].rule \in Owners
  PROVE  Clear(stack, n - 1, stack[n].node)
<1>1. Len(stack) \in Nat /\ \A i \in 1 .. n - 1 : i \in 1 .. Len(stack)
  BY TopFacts
<1>2. /\ heap[stack[n].node].kind \in Owners
      /\ \A j \in 1 .. n - 1 : stack[j].rule \in Owners => stack[j].node < stack[n].node
      /\ stack[n].node \in Nat
  BY <1>1, StackFrames DEF FInv, Anchored, Held, Holds, IInv, TypeOK, StackShape, Frames
<1>3. ASSUME NEW i \in 1 .. n - 1, stack[i].phase = "close", stack[i].rule \in Lists,
             stack[i].node = stack[n].node
      PROVE  FALSE
  <2>1. CASE stack[i].rule \in Owners
    BY <1>2, <1>3, <2>1
  <2>2. CASE stack[i].rule = "gbnf"
    <3>1. heap[stack[i].node].kind = "prods"
      BY <1>1, <1>3, <2>2 DEF FInv, Anchored, Held, Holds, Is
    <3> QED BY <1>2, <1>3, <3>1 DEF Owners
  <2> QED BY <1>3, <2>1, <2>2 DEF Lists, Owners
<1> QED BY <1>3 DEF Clear

LEMMA SameKin ==
  ASSUME NEW s \in Seq(Frames), NEW t, NEW m \in Nat, m <= Len(s), \A i \in 1 .. m : t[i] = s[i]
  PROVE  Kin(s, t, m)
<1>1. \A i \in 1 .. m : s[i] \in Frames
  BY LenProperties
<1> QED BY <1>1 DEF Kin, SameFrame

LEMMA PopKin ==
  ASSUME stack \in Seq(Frames), Len(stack) \notin {0, 1}, NEW node \in Nat, stack' = PopRule(node)
  PROVE  LET n == Len(stack) - 1 IN
         /\ n \in Nat \ {0} /\ Len(stack') = n
         /\ stack'[n] = [stack[n] EXCEPT !.child = node]
         /\ \A i \in 1 .. n - 1 : stack'[i] = stack[i]
         /\ Kin(stack, stack', n)
<1> DEFINE n == Len(stack) - 1
<1>1. Len(stack) \in Nat /\ n \in Nat \ {0} /\ \A i \in 1 .. n : stack[i] \in Frames
  BY LenProperties
<1>2. stack' = [i \in 1 .. n |-> IF i = n THEN [stack[i] EXCEPT !.child = node] ELSE stack[i]]
  BY DEF PopRule
<1>6. n \in 1 .. n /\ \A i \in 1 .. n - 1 : i \in 1 .. n /\ i # n
  <2>1. n \in Nat \ {0}
    BY <1>1
  <2> HIDE DEF n
  <2> QED BY <2>1
<1>3. /\ stack'[n] = [stack[n] EXCEPT !.child = node]
      /\ \A i \in 1 .. n - 1 : stack'[i] = stack[i]
  <2> HIDE DEF n
  <2> QED BY <1>2, <1>6
<1>4. Len(stack') = n
  BY <1>1, <1>2, IsASeq
<1>5. ASSUME NEW i \in 1 .. n
      PROVE  stack'[i] \in Frames /\ SameFrame(stack[i], stack'[i]) /\ stack[i].tok = stack'[i].tok
  <2>1. CASE i = n
    BY <1>1, <1>3, <2>1 DEF SameFrame, Frames
  <2>2. CASE i # n
    <3>1. stack'[i] = stack[i]
      BY <1>1, <1>3, <2>2
    <3> QED BY <1>1, <3>1 DEF SameFrame
  <2> QED BY <2>1, <2>2
<1> QED BY <1>1, <1>3, <1>4, <1>5 DEF Kin

-----------------------------------------------------------------------------
(* What the new heap spells, for each way a step changes it.               *)

\* The step changes no cell there was, but maybe c.
Spared(c) == SameOff(heap, heap', DOMAIN heap, c) /\ SameOff(Yield, Yield', DOMAIN heap, c)

LEMMA HeapKept ==
  ASSUME FInv, Spelt, heap' = heap
  PROVE  Spelt' /\ Yield' = Yield /\ Spared(Fresh)
<1>1. Spells(heap', Yield)
  BY DEF Spelt
<1>2. Yield' = Yield
  BY <1>1, YieldIs
<1> QED BY <1>1, <1>2 DEF Spelt, SameOff, Spared

LEMMA HeapNew ==
  ASSUME FInv, Spelt, NEW cell \in Cells, Built(cell),
         heap' = Append(heap, cell), NEW v \in Texts, Makes(heap', Yield, DOMAIN heap, Fresh, v)
  PROVE  Spelt' /\ Yield'[Fresh] = v /\ Spared(Fresh)
<1>1. heap \in Seq(Cells) /\ Tidy(heap) /\ Fresh = Len(heap) + 1
  BY TopFacts
<1>2. Whole(heap) /\ Spells(heap, Yield)
  BY DEF Spelt
<1>3. /\ Whole(heap') /\ SameOff(heap, heap', DOMAIN heap, Fresh)
      /\ \E z : Spells(heap', z) /\ z[Fresh] = v /\ SameOff(Yield, z, DOMAIN heap, Fresh)
  BY <1>1, <1>2, SpellsNew
<1>4. PICK z : Spells(heap', z) /\ z[Fresh] = v /\ SameOff(Yield, z, DOMAIN heap, Fresh)
  BY <1>3
<1>5. Yield' = z
  BY <1>4, YieldIs
<1> QED BY <1>3, <1>4, <1>5 DEF Spelt, Spared

LEMMA HeapPush ==
  ASSUME FInv, Spelt, NEW list \in DOMAIN heap, Free(heap, list),
         heap[list].kind \in {"prods", "alts", "seq"}, NEW r \in DOMAIN heap, r # list,
         heap' = PushNode(heap, list, r)
  PROVE  /\ Spelt' /\ Spared(list)
         /\ Yield'[list] = Filled(heap, Yield, list) ++ Yield[r]
         /\ Filled(heap', Yield', list) = Yield'[list] ++ Separator(heap[list].kind)
<1>1. heap \in Seq(Cells) /\ Tidy(heap)
  BY TopFacts
<1>2. Whole(heap) /\ Spells(heap, Yield)
  BY DEF Spelt
<1>3. /\ Whole(heap') /\ SameOff(heap, heap', DOMAIN heap, list)
      /\ \E z : /\ Spells(heap', z) /\ SameOff(Yield, z, DOMAIN heap, list)
                /\ z[list] = Filled(heap, Yield, list) ++ Yield[r]
                /\ Filled(heap', z, list) = z[list] ++ Separator(heap[list].kind)
  BY <1>1, <1>2, SpellsPush
<1>4. PICK z : /\ Spells(heap', z) /\ SameOff(Yield, z, DOMAIN heap, list)
               /\ z[list] = Filled(heap, Yield, list) ++ Yield[r]
               /\ Filled(heap', z, list) = z[list] ++ Separator(heap[list].kind)
  BY <1>3
<1>5. Yield' = z
  BY <1>4, YieldIs
<1> QED BY <1>3, <1>4, <1>5 DEF Spelt, Spared

With(cell) == Append(heap, cell)

LEMMA HeapWrap ==
  ASSUME FInv, Spelt, NEW list \in DOMAIN heap, Free(heap, list),
         heap[list].kind \in {"prods", "alts", "seq"}, NEW r \in DOMAIN heap, r # list,
         Free(heap, r), NEW cell \in Cells, cell.kids = <<r>>, <<cell.kind, heap[r].kind>> \in Layers,
         NEW k, k = With(cell), heap' = PushNode(k, list, Fresh),
         NEW v \in Texts, Makes(k, Yield, DOMAIN heap, Fresh, v)
  PROVE  /\ Spelt' /\ Spared(list)
         /\ Filled(heap', Yield', list)
            = (Filled(heap, Yield, list) ++ v) ++ Separator(heap[list].kind)
<1>1. heap \in Seq(Cells) /\ Tidy(heap) /\ Fresh = Len(heap) + 1
  BY TopFacts
<1>2. Whole(heap) /\ Spells(heap, Yield)
  BY DEF Spelt
<1>3. r \in Nat /\ DOMAIN cell.kids = 1 .. 1
  BY <1>1, HeapCells
<1>0. k = Append(heap, cell)
  BY DEF With
<1>4. /\ k \in Seq(Cells) /\ Tidy(k) /\ Grown(heap, k, r)
      /\ Free(k, Fresh) /\ DOMAIN k = 1 .. Len(heap) + 1
  BY <1>0, <1>1, <1>3, NewParent
<1>5. /\ Built(cell) /\ Whole(k) /\ Fresh \notin DOMAIN heap /\ SameOff(heap, k, DOMAIN heap, Fresh)
      /\ \E z : Spells(k, z) /\ z[Fresh] = v /\ SameOff(Yield, z, DOMAIN heap, Fresh)
  <2>1. Built(cell)
    BY <1>3 DEF Built
  <2> QED BY <1>0, <1>1, <1>2, <2>1, SpellsNew
<1>6. PICK e : Spells(k, e) /\ e[Fresh] = v /\ SameOff(Yield, e, DOMAIN heap, Fresh)
  BY <1>5
<1>7. /\ list \in DOMAIN k /\ Free(k, list) /\ k[list] = heap[list] /\ e[list] = Yield[list]
      /\ Fresh \in DOMAIN k /\ Fresh # list
  BY <1>1, <1>4, <1>5, <1>6 DEF Grown, Free, SameOff
<1>8. /\ Whole(heap') /\ SameOff(k, heap', DOMAIN k, list)
      /\ \E z : /\ Spells(heap', z) /\ SameOff(e, z, DOMAIN k, list)
                /\ z[list] = Filled(k, e, list) ++ e[Fresh]
                /\ Filled(heap', z, list) = z[list] ++ Separator(k[list].kind)
  <2>1. k[list].kind \in {"prods", "alts", "seq"}
    BY <1>7
  <2>2. k \in Seq(Cells) /\ Tidy(k) /\ Whole(k) /\ Spells(k, e)
    BY <1>4, <1>5, <1>6
  <2> QED BY <1>7, <2>1, <2>2, SpellsPush
<1>9. PICK z : /\ Spells(heap', z) /\ SameOff(e, z, DOMAIN k, list)
               /\ z[list] = Filled(k, e, list) ++ e[Fresh]
               /\ Filled(heap', z, list) = z[list] ++ Separator(k[list].kind)
  BY <1>8
<1>10. Yield' = z
  BY <1>9, YieldIs
<1>11. Filled(k, e, list) = Filled(heap, Yield, list)
  BY <1>7 DEF Filled
<1>12. Filled(heap', Yield', list) = (Filled(heap, Yield, list) ++ v) ++ Separator(heap[list].kind)
  BY <1>6, <1>7, <1>9, <1>10, <1>11
<1>13. \A m \in DOMAIN heap : m \in DOMAIN k /\ m # Fresh
  BY <1>4, <1>5 DEF Grown
<1>14. \A m \in DOMAIN heap : m # list => Yield'[m] = Yield[m] /\ heap'[m] = heap[m]
  BY <1>5, <1>6, <1>8, <1>9, <1>10, <1>13 DEF SameOff
<1> QED BY <1>8, <1>9, <1>10, <1>12, <1>14 DEF Spelt, SameOff, Spared

-----------------------------------------------------------------------------
(* What has been read, after each way a step changes the stack.            *)

\* What all frames but the current one stand for.
Beneath == Below(heap, Yield, stack, Len(stack) - 1)
Closed(f) == [f EXCEPT !.phase = "close"]
\* What the first m frames stand for, each of them, stays as it is.
SameUpTo(m) ==
  \A j \in 0 .. m : Below(heap, Yield, stack, j) = Below(heap', Yield', stack', j)

LEMMA StandsNow ==
  /\ FInv /\ Spelt => Stands(heap, Yield, stack)
  /\ FInv' /\ Spelt' => Stands(heap', Yield', stack')
BY DEF FInv, IInv, TypeOK, StackShape, Spelt, Stands

LEMMA TellsNow ==
  ASSUME FInv, Spelt
  PROVE  /\ Told(heap, Yield, stack) = (Beneath ++ Own(heap, Yield, Top)) ++ Given(Yield, Top)
         /\ Beneath \in Texts /\ Own(heap, Yield, Top) \in Texts /\ Given(Yield, Top) \in Texts
<1>1. Stands(heap, Yield, stack)
  BY StandsNow
<1>2. Len(stack) \in Nat \ {0}
  BY TopFacts
<1>3. Len(stack) - 1 \in 0 .. Len(stack) - 1
  BY <1>2
<1> QED BY <1>1, <1>3, ToldIs DEF Beneath, Top

LEMMA StayTold ==
  ASSUME FInv, Spelt, FInv', Spelt', NEW c, Spared(c), Clear(stack, Len(stack) - 1, c),
         NEW f \in Frames, stack' = Stay(f)
  PROVE  /\ Told(heap', Yield', stack')
            = (Beneath ++ Own(heap', Yield', Closed(f))) ++ Given(Yield', Closed(f))
         /\ SameUpTo(Len(stack) - 1)
         /\ Own(heap', Yield', Closed(f)) \in Texts /\ Given(Yield', Closed(f)) \in Texts
<1>1. stack \in Seq(Frames) /\ stack # << >>
  BY EmptySeq DEF FInv, IInv, TypeOK, StackShape, Shaped
<1>2. /\ Len(stack) \in Nat \ {0} /\ Len(stack') = Len(stack) /\ stack'[Len(stack)] = Closed(f)
      /\ \A i \in 1 .. Len(stack) - 1 : stack'[i] = stack[i]
  BY <1>1, StayFrames DEF Closed
<1>3. Len(stack) - 1 \in Nat /\ Len(stack) - 1 <= Len(stack) /\ Len(stack) - 1 \in 0 .. Len(stack) - 1
  BY <1>2
<1>4. Kin(stack, stack', Len(stack) - 1)
  BY <1>1, <1>2, <1>3, SameKin
<1>5. SameUpTo(Len(stack) - 1)
  BY <1>3, <1>4, LowerSame DEF Spared, SameUpTo
<1>6. Beneath = Below(heap', Yield', stack', Len(stack) - 1)
  BY <1>3, <1>5 DEF SameUpTo, Beneath
<1>7. Stands(heap', Yield', stack')
  BY StandsNow
<1> QED BY <1>2, <1>5, <1>6, <1>7, ToldIs

LEMMA PushTold ==
  ASSUME FInv, Spelt, FInv', Spelt', NEW c, Spared(c), Clear(stack, Len(stack) - 1, c),
         NEW f \in Frames, NEW rule \in Rules, stack' = PushRule(f, rule)
  PROVE  /\ Told(heap', Yield', stack') = Beneath ++ Own(heap', Yield', Closed(f))
         /\ SameUpTo(Len(stack) - 1) /\ Own(heap', Yield', Closed(f)) \in Texts
<1> DEFINE n == Len(stack)
           g == stack'[n + 1]
<1>1. stack \in Seq(Frames) /\ stack # << >>
  BY EmptySeq DEF FInv, IInv, TypeOK, StackShape, Shaped
<1>2. /\ n \in Nat \ {0} /\ Len(stack') = n + 1 /\ stack'[n] = Closed(f)
      /\ g = NewFrame(rule, f.node) /\ \A i \in 1 .. n - 1 : stack'[i] = stack[i]
  BY <1>1, PushFrames DEF Closed
<1>3. n - 1 \in Nat /\ n - 1 <= n /\ n - 1 \in 0 .. n /\ n - 1 \in 0 .. n - 1
      /\ n \in 0 .. n /\ (n - 1) + 1 = n /\ (n + 1) - 1 = n
  BY <1>2
<1>4. Kin(stack, stack', n - 1)
  BY <1>1, <1>2, <1>3, SameKin
<1>5. SameUpTo(n - 1)
  BY <1>3, <1>4, LowerSame DEF Spared, SameUpTo
<1>6. Beneath = Below(heap', Yield', stack', n - 1)
  BY <1>3, <1>5 DEF SameUpTo, Beneath
<1>7. Stands(heap', Yield', stack')
  BY StandsNow
<1>8. /\ Told(heap', Yield', stack')
         = (Below(heap', Yield', stack', n) ++ Own(heap', Yield', g)) ++ Given(Yield', g)
      /\ \A m \in 0 .. n :
           /\ Below(heap', Yield', stack', m) \in Texts
           /\ Below(heap', Yield', stack', m + 1)
              = Below(heap', Yield', stack', m) ++ Own(heap', Yield', stack'[m + 1])
  <2> DEFINE q == n + 1
  <2>1. q = Len(stack') /\ q - 1 = n /\ g = stack'[q]
    BY <1>2
  <2> HIDE DEF n, q, g
  <2>2. /\ Told(heap', Yield', stack')
           = (Below(heap', Yield', stack', q - 1) ++ Own(heap', Yield', stack'[q])) ++ Given(Yield', stack'[q])
        /\ \A m \in 0 .. q - 1 :
             /\ Below(heap', Yield', stack', m) \in Texts
             /\ Below(heap', Yield', stack', m + 1)
                = Below(heap', Yield', stack', m) ++ Own(heap', Yield', stack'[m + 1])
    BY <1>7, <2>1, ToldIs
  <2> QED BY <2>1, <2>2
<1>9. Own(heap', Yield', g) = << >> /\ Given(Yield', g) = << >>
  <2>1. f.node \in Nat
    BY DEF Frames
  <2>2. g \in Frames /\ g.phase = "open" /\ ~g.grouped
    <3> HIDE DEF g
    <3> QED BY <1>2, <2>1 DEF NewFrame, Frames, Undef
  <2> HIDE DEF g
  <2> QED BY <2>2, OwnIs
<1>10. Own(heap', Yield', Closed(f)) \in Texts
  <2>1. n \in 1 .. Len(stack')
    BY <1>2
  <2> QED BY <1>2, <1>7, <2>1, OwnTexts
<1>11. Below(heap', Yield', stack', n) = Beneath ++ Own(heap', Yield', Closed(f))
  <2> HIDE DEF n
  <2> QED BY <1>2, <1>3, <1>6, <1>8
<1>12. Below(heap', Yield', stack', n) \in Texts
  <2> HIDE DEF n
  <2> QED BY <1>3, <1>8
<1> HIDE DEF n, g
<1>13. Told(heap', Yield', stack') = Below(heap', Yield', stack', n)
  BY <1>8, <1>9, <1>12, TextsNone
<1> QED BY <1>5, <1>10, <1>11, <1>13 DEF n

Handing(node) == [stack[Len(stack) - 1] EXCEPT !.child = node]

LEMMA PopTold ==
  ASSUME FInv, Spelt, FInv', Spelt', NEW c, Spared(c), Clear(stack, Len(stack) - 2, c),
         Top.rule # "gbnf", NEW node \in Nat, stack' = PopRule(node)
  PROVE  LET g == Handing(node)
             n == Len(stack)
         IN  /\ n \in Nat /\ n >= 2 /\ SameUpTo(n - 2)
             /\ Told(heap', Yield', stack')
                = (Below(heap, Yield, stack, n - 2) ++ Own(heap', Yield', g)) ++ Given(Yield', g)
             /\ Beneath = Below(heap, Yield, stack, n - 2) ++ Own(heap, Yield, stack[n - 1])
             /\ Below(heap, Yield, stack, n - 2) \in Texts
             /\ Own(heap, Yield, stack[n - 1]) \in Texts
             /\ Own(heap', Yield', g) \in Texts /\ Given(Yield', g) \in Texts
             /\ Clear(stack, n - 1, c) =>
                  /\ Told(heap', Yield', stack') = Beneath ++ Given(Yield', g)
                  /\ SameUpTo(n - 1)
<1> DEFINE n == Len(stack)
           g == Handing(node)
<1>1. stack \in Seq(Frames) /\ n \in Nat /\ n >= 2 /\ n \notin {0, 1}
  <2>1. n \in Nat \ {0} /\ Top.rule = RuleAt(n)
    BY TopFrame DEF FInv, IInv, TypeOK, StackShape
  <2>2. stack \in Seq(Frames)
    BY DEF FInv, IInv, TypeOK
  <2> HIDE DEF n
  <2>3. n > 0
    BY <2>1
  <2>4. n # 1
    BY <2>1, <2>3, NextRule
  <2> QED BY <2>1, <2>2, <2>4
<1>2. /\ Len(stack') = n - 1 /\ stack'[n - 1] = g /\ Kin(stack, stack', n - 1)
  BY <1>1, PopKin DEF Handing
<1> HIDE DEF n, g
<1>3. /\ n - 1 \in Nat \ {0} /\ n - 2 \in 0 .. n - 1 /\ n - 1 \in 0 .. n - 1 /\ n - 2 \in 0 .. n - 2
      /\ (n - 1) - 1 = n - 2 /\ (n - 2) + 1 = n - 1 /\ n - 1 \in 1 .. n
      /\ \A i \in 1 .. n - 2 : i \in 1 .. n - 1
  BY <1>1
<1>4. Kin(stack, stack', n - 2)
  BY <1>2, <1>3 DEF Kin
<1>5. SameUpTo(n - 2)
  BY <1>3, <1>4, LowerSame DEF Spared, SameUpTo, n
<1>6. Stands(heap', Yield', stack') /\ Stands(heap, Yield, stack)
  BY StandsNow
<1>7. /\ \A m \in 0 .. n - 1 :
           /\ Below(heap, Yield, stack, m) \in Texts
           /\ Below(heap, Yield, stack, m + 1)
              = Below(heap, Yield, stack, m) ++ Own(heap, Yield, stack[m + 1])
  BY <1>6, ToldIs DEF n
<1>8. /\ Beneath = Below(heap, Yield, stack, n - 2) ++ Own(heap, Yield, stack[n - 1])
      /\ Below(heap, Yield, stack, n - 2) \in Texts
  BY <1>3, <1>7 DEF Beneath, n
<1>9. Own(heap, Yield, stack[n - 1]) \in Texts
  BY <1>3, <1>6, OwnTexts DEF n
<1>10. /\ Told(heap', Yield', stack')
          = (Below(heap', Yield', stack', n - 2) ++ Own(heap', Yield', g)) ++ Given(Yield', g)
       /\ Own(heap', Yield', g) \in Texts /\ Given(Yield', g) \in Texts
       /\ Below(heap', Yield', stack', n - 1)
          = Below(heap', Yield', stack', n - 2) ++ Own(heap', Yield', g)
  <2>1. n - 1 = Len(stack')
    BY <1>2
  <2> QED BY <1>2, <1>3, <1>6, <2>1, ToldIs
<1>11. Below(heap', Yield', stack', n - 2) = Below(heap, Yield, stack, n - 2)
  BY <1>3, <1>5 DEF SameUpTo
<1>12. ASSUME Clear(stack, n - 1, c)
       PROVE  /\ Told(heap', Yield', stack') = Beneath ++ Given(Yield', g)
              /\ SameUpTo(n - 1)
  <2>1. SameUpTo(n - 1)
    BY <1>2, <1>3, <1>12, LowerSame DEF Spared, SameUpTo, n
  <2>2. Below(heap', Yield', stack', n - 1) = Beneath
    BY <1>3, <2>1 DEF SameUpTo, Beneath, n
  <2> QED BY <1>10, <2>1, <2>2
<1> QED BY <1>1, <1>5, <1>8, <1>9, <1>10, <1>11, <1>12 DEF n, g

-----------------------------------------------------------------------------
(* What each action adds to what has been read.                            *)

Tells(x) == Told(heap', Yield', stack') = Told(heap, Yield, stack) ++ x
\* What the frames outside the outermost group stand for stays.
OuterSame == Len(stack) >= 7 => SameUpTo(5)
Writes(x) == Spelt' /\ Tells(x) /\ OuterSame

\* Nodes are inherited: elem works on the list of the seq below it.
Linked(s) == \A i \in 2 .. Len(s) : s[i].rule = "elem" => s[i].node = s[i - 1].node

LEMMA OuterKept ==
  ASSUME FInv, NEW m, m = Len(stack) - 1 \/ m = Len(stack) - 2, SameUpTo(m)
  PROVE  OuterSame
<1>1. Len(stack) \in Nat
  BY TopFacts
<1>2. Len(stack) >= 7 => \A j \in 0 .. 5 : j \in 0 .. m
  BY <1>1
<1> QED BY <1>2 DEF OuterSame, SameUpTo

LEMMA ClosedIs ==
  ASSUME NEW f \in Frames
  PROVE  LET g == Closed(f) IN
         /\ g \in Frames /\ g.phase = "close" /\ g.rule = f.rule /\ g.node = f.node
         /\ g.child = f.child /\ g.tok = f.tok /\ g.grouped = f.grouped
BY DEF Closed, Frames

\* The current frame, which a node, a token or a group is written to.
LEMMA TopAs ==
  ASSUME FInv, NEW node \in Nat, NEW tok \in Nat
  PROVE  /\ LET f == [Top EXCEPT !.node = node] IN
              /\ f \in Frames /\ f.rule = Top.rule /\ f.node = node
              /\ f.child = Top.child /\ f.grouped = Top.grouped
         /\ LET f == [Top EXCEPT !.tok = tok] IN
              /\ f \in Frames /\ f.rule = Top.rule /\ f.node = Top.node
              /\ f.child = Top.child /\ f.grouped = Top.grouped /\ f.tok = tok
         /\ LET f == [Top EXCEPT !.node = Undef, !.tok = tok, !.grouped = TRUE] IN
              f \in Frames /\ f.rule = Top.rule /\ f.grouped /\ f.tok = tok
<1>1. Top \in Frames
  BY TopFacts
<1> QED BY <1>1 DEF Frames, Undef

LEMMA OpenTold ==
  ASSUME FInv, Spelt, Top.phase = "open"
  PROVE  Told(heap, Yield, stack) = Beneath /\ Beneath \in Texts
<1>1. Top \in Frames /\ (Top.grouped => Top.rule = "atom")
  BY TopFacts
<1>2. Own(heap, Yield, Top) = << >> /\ Given(Yield, Top) = << >>
  BY <1>1, OwnIs
<1> QED BY <1>2, TellsNow, TextsNone

LEMMA NewListSpells ==
  ASSUME FInv, Spelt, NEW kind \in {"prods", "alts", "seq"}, heap' = Append(heap, List(kind))
  PROVE  Spelt' /\ Spared(Fresh) /\ Filled(heap', Yield', Fresh) = << >>
<1>1. /\ List(kind) \in Cells /\ List(kind).kind = kind /\ List(kind).kids = << >>
  BY FreshCells DEF CellKinds
<1>2. heap'[Fresh] = List(kind)
  BY TopFacts, AppendProperties
<1>3. Makes(heap', Yield, DOMAIN heap, Fresh, << >>)
  BY <1>1, <1>2, JoinedNone DEF Makes, YieldOf
<1>4. Built(List(kind))
  BY <1>1 DEF Built
<1>5. Spelt' /\ Yield'[Fresh] = << >> /\ Spared(Fresh)
  BY <1>1, <1>3, <1>4, TextsMade, HeapNew
<1>6. Filled(heap', Yield', Fresh) = << >>
  BY <1>1, <1>2, <1>5, TextsMade, TextsNone DEF Filled, Gap
<1> QED BY <1>5, <1>6

LEMMA OpenListWrites ==
  ASSUME FInv, Spelt, FInv', OpenGbnf \/ OpenAlts \/ OpenSeq
  PROVE  Writes(<< >>)
<1> DEFINE f == [Top EXCEPT !.node = Fresh]
<1>1. /\ Top.phase = "open" /\ Top.rule \in Lists
      /\ \E kind \in {"prods", "alts", "seq"} : heap' = Append(heap, List(kind))
      /\ \/ stack' = Stay(f) /\ Top.rule \in {"gbnf", "seq"}
         \/ \E rule \in Rules : stack' = PushRule(f, rule)
  <2>1. CASE OpenGbnf
    BY <2>1 DEF OpenGbnf, At, Lists, Rules
  <2>2. CASE OpenAlts
    BY <2>2 DEF OpenAlts, At, Lists, Rules
  <2>3. CASE OpenSeq
    BY <2>3 DEF OpenSeq, At, Lists, Rules
  <2> QED BY <2>1, <2>2, <2>3
<1>2. Spelt' /\ Spared(Fresh) /\ Filled(heap', Yield', Fresh) = << >>
  BY <1>1, NewListSpells
<1>3. /\ f \in Frames /\ f.rule = Top.rule /\ f.node = Fresh /\ f.grouped = Top.grouped
      /\ (Top.grouped => Top.rule = "atom")
  BY TopFacts, TopAs
<1> HIDE DEF f
<1>4. Clear(stack, Len(stack) - 1, Fresh)
  BY ClearFresh
<1>5. /\ Closed(f) \in Frames /\ Closed(f).phase = "close" /\ Closed(f).rule \in Lists
      /\ Closed(f).node = Fresh /\ Closed(f).rule = Top.rule /\ ~Closed(f).grouped
  BY <1>1, <1>3, ClosedIs DEF Lists
<1>6. Own(heap', Yield', Closed(f)) = << >>
  BY <1>2, <1>5, OwnIs
<1>7. Top.rule \in {"gbnf", "seq"} => Given(Yield', Closed(f)) = << >>
  BY <1>5, OwnIs
<1>8. Told(heap, Yield, stack) = Beneath /\ Beneath \in Texts
  BY <1>1, OpenTold
<1>9. CASE stack' = Stay(f) /\ Top.rule \in {"gbnf", "seq"}
  <2>1. /\ Told(heap', Yield', stack')
           = (Beneath ++ Own(heap', Yield', Closed(f))) ++ Given(Yield', Closed(f))
        /\ SameUpTo(Len(stack) - 1)
    BY <1>2, <1>3, <1>4, <1>9, StayTold
  <2>2. Told(heap', Yield', stack') = Beneath
    BY <1>6, <1>7, <1>8, <1>9, <2>1, TextsNone
  <2> QED BY <1>2, <1>8, <2>1, <2>2, OuterKept, TextsNone DEF Writes, Tells
<1>10. CASE \E rule \in Rules : stack' = PushRule(f, rule)
  <2>1. /\ Told(heap', Yield', stack') = Beneath ++ Own(heap', Yield', Closed(f))
        /\ SameUpTo(Len(stack) - 1)
    BY <1>2, <1>3, <1>4, <1>10, PushTold
  <2>2. Told(heap', Yield', stack') = Beneath
    BY <1>6, <1>8, <2>1, TextsNone
  <2> QED BY <1>2, <1>8, <2>1, <2>2, OuterKept, TextsNone DEF Writes, Tells
<1> QED BY <1>1, <1>9, <1>10

LEMMA OpenOnWrites ==
  ASSUME FInv, Spelt, FInv'
  PROVE  /\ OpenProd \/ AtomGroup => Writes(<<pos>>)
         /\ OpenElem => Writes(<< >>)
<1>1. pos \in Nat
  BY FreshCells
<1>2. /\ <<pos>> \in Texts /\ << >> \in Texts
      /\ "alts" \in Rules /\ "atom" \in Rules
  BY <1>1, TextsMade DEF Rules
<1>3. ASSUME NEW f \in Frames, NEW rule \in Rules, heap' = heap, Top.phase = "open",
             stack' = PushRule(f, rule), NEW x \in Texts, Own(heap', Yield', Closed(f)) = x
      PROVE  Writes(x)
  <2>1. Spelt' /\ Spared(Fresh)
    BY <1>3, HeapKept
  <2>2. Clear(stack, Len(stack) - 1, Fresh)
    BY ClearFresh
  <2>3. /\ Told(heap', Yield', stack') = Beneath ++ Own(heap', Yield', Closed(f))
        /\ SameUpTo(Len(stack) - 1)
    BY <1>3, <2>1, <2>2, PushTold
  <2>4. Told(heap, Yield, stack) = Beneath
    BY <1>3, OpenTold
  <2> QED BY <1>3, <2>1, <2>3, <2>4, OuterKept DEF Writes, Tells
<1>4. ASSUME OpenProd PROVE Writes(<<pos>>)
  <2> DEFINE f == [Top EXCEPT !.tok = pos]
  <2>1. heap' = heap /\ Top.phase = "open" /\ Top.rule = "prod" /\ stack' = PushRule(f, "alts")
    BY <1>4 DEF OpenProd, At
  <2>2. /\ f \in Frames /\ f.rule = "prod" /\ f.tok = pos /\ f.grouped = Top.grouped
        /\ (Top.grouped => Top.rule = "atom")
    BY <1>1, <2>1, TopFacts, TopAs
  <2> HIDE DEF f
  <2>3. /\ Closed(f) \in Frames /\ Closed(f).phase = "close" /\ Closed(f).rule = "prod"
        /\ Closed(f).tok = pos /\ ~Closed(f).grouped
    BY <2>1, <2>2, ClosedIs
  <2>4. Own(heap', Yield', Closed(f)) = <<pos>>
    BY <2>3, OwnIs
  <2> QED BY <1>2, <1>3, <2>1, <2>2, <2>4
<1>5. ASSUME AtomGroup PROVE Writes(<<pos>>)
  <2> DEFINE f == [Top EXCEPT !.node = Undef, !.tok = pos, !.grouped = TRUE]
  <2>1. heap' = heap /\ Top.phase = "open" /\ Top.rule = "atom" /\ stack' = PushRule(f, "alts")
    BY <1>5 DEF AtomGroup, At
  <2>2. f \in Frames /\ f.rule = "atom" /\ f.tok = pos /\ f.grouped
    BY <1>1, <2>1, TopAs DEF Undef
  <2> HIDE DEF f
  <2>3. /\ Closed(f) \in Frames /\ Closed(f).phase = "close" /\ Closed(f).rule = "atom"
        /\ Closed(f).tok = pos /\ Closed(f).grouped
    BY <2>2, ClosedIs
  <2>4. Own(heap', Yield', Closed(f)) = <<pos>>
    BY <2>3, OwnIs
  <2> QED BY <1>2, <1>3, <2>1, <2>2, <2>4
<1>6. ASSUME OpenElem PROVE Writes(<< >>)
  <2>1. heap' = heap /\ Top.phase = "open" /\ Top.rule = "elem" /\ stack' = PushRule(Top, "atom")
    BY <1>6 DEF OpenElem, At
  <2>2. Top \in Frames /\ ~Top.grouped
    BY <2>1, TopFacts
  <2>3. /\ Closed(Top) \in Frames /\ Closed(Top).phase = "close" /\ Closed(Top).rule = "elem"
        /\ ~Closed(Top).grouped
    BY <2>1, <2>2, ClosedIs
  <2>4. Own(heap', Yield', Closed(Top)) = << >>
    BY <2>3, OwnIs
  <2> QED BY <1>2, <1>3, <2>1, <2>2, <2>4
<1> QED BY <1>4, <1>5, <1>6

LEMMA LeafWrites ==
  ASSUME FInv, Spelt, FInv', Top.rule = "atom", Top.phase = "open",
         NEW node \in Nat, stack' = Stay([Top EXCEPT !.node = node]),
         Spelt', Spared(Fresh), NEW x \in Texts, x = IF node = Undef THEN << >> ELSE Yield'[node]
  PROVE  Writes(x)
<1> DEFINE f == [Top EXCEPT !.node = node]
<1>1. /\ f \in Frames /\ f.rule = "atom" /\ f.node = node /\ f.grouped = Top.grouped
  BY TopAs
<1>2. ~Top.grouped
  BY TopFacts
<1> HIDE DEF f
<1>3. /\ Closed(f) \in Frames /\ Closed(f).phase = "close" /\ Closed(f).rule = "atom"
      /\ Closed(f).node = node /\ ~Closed(f).grouped
  BY <1>1, <1>2, ClosedIs
<1>4. Own(heap', Yield', Closed(f)) = x /\ Given(Yield', Closed(f)) = << >>
  BY <1>3, OwnIs
<1>5. Clear(stack, Len(stack) - 1, Fresh)
  BY ClearFresh
<1>6. /\ Told(heap', Yield', stack')
         = (Beneath ++ Own(heap', Yield', Closed(f))) ++ Given(Yield', Closed(f))
      /\ SameUpTo(Len(stack) - 1)
  BY <1>1, <1>5, StayTold DEF f
<1>7. Told(heap, Yield, stack) = Beneath /\ Beneath \in Texts
  BY OpenTold
<1>8. Beneath ++ x \in Texts
  BY <1>7, TextsMade
<1>9. Told(heap', Yield', stack') = Beneath ++ x
  BY <1>4, <1>6, <1>8, TextsNone
<1> QED BY <1>6, <1>7, <1>9, OuterKept DEF Writes, Tells

LEMMA AtomWrites ==
  ASSUME FInv, Spelt, FInv'
  PROVE  /\ AtomTerm => Writes(<<pos>>)
         /\ AtomEmpty \/ (AtomBad /\ stack' # stack) => Writes(<< >>)
<1>1. pos \in Nat /\ Fresh \in Nat /\ Fresh # Undef /\ Undef \in Nat
  BY FreshCells, TopFacts DEF Undef
<1>2. <<pos>> \in Texts /\ << >> \in Texts
  BY <1>1, TextsMade
<1>3. ASSUME AtomTerm PROVE Writes(<<pos>>)
  <2> DEFINE cell == Node("term", pos, pos, 0, << >>)
  <2>1. /\ heap' = Append(heap, cell) /\ stack' = Stay([Top EXCEPT !.node = Fresh])
        /\ Top.rule = "atom" /\ Top.phase = "open"
    BY <1>3 DEF AtomTerm, At
  <2>2. cell \in Cells /\ cell.kind = "term" /\ cell.tok = pos
    <3>1. << >> \in Seq(Nat) /\ "term" \in CellKinds /\ 0 \in Nat
      BY FreshCells DEF CellKinds
    <3>2. cell \in Cells
      BY <1>1, <3>1, MadeNode
    <3> QED BY <3>2 DEF Node
  <2> HIDE DEF cell
  <2>3. heap'[Fresh] = cell
    BY <2>1, <2>2, TopFacts, AppendProperties
  <2>4. Makes(heap', Yield, DOMAIN heap, Fresh, <<pos>>)
    BY <2>2, <2>3 DEF Makes, YieldOf
  <2>5. Built(cell)
    BY <2>2 DEF Built
  <2>6. Spelt' /\ Yield'[Fresh] = <<pos>> /\ Spared(Fresh)
    BY <1>2, <2>1, <2>2, <2>4, <2>5, HeapNew
  <2> QED BY <1>1, <1>2, <2>1, <2>6, LeafWrites
<1>4. ASSUME AtomEmpty \/ (AtomBad /\ stack' # stack) PROVE Writes(<< >>)
  <2>1. /\ heap' = heap /\ stack' = Stay([Top EXCEPT !.node = Undef])
        /\ Top.rule = "atom" /\ Top.phase = "open"
    BY <1>4 DEF AtomEmpty, AtomBad, At
  <2>2. Spelt' /\ Spared(Fresh)
    BY <2>1, HeapKept
  <2> QED BY <1>1, <1>2, <2>1, <2>2, LeafWrites
<1> QED BY <1>3, <1>4

\* The frame a rule leaves to.
LEMMA HandingIs ==
  ASSUME FInv, Top.rule # "gbnf", NEW node \in Nat
  PROVE  LET g == Handing(node)
             f == stack[Len(stack) - 1]
         IN  /\ Len(stack) >= 2 /\ f \in Frames /\ g \in Frames /\ f.phase = "close"
             /\ g.phase = "close" /\ g.rule = f.rule /\ g.node = f.node /\ g.tok = f.tok
             /\ g.grouped = f.grouped /\ g.child = node
             /\ f.grouped <=> f.rule = "atom"
             /\ Top.rule = "prod" => f.rule = "gbnf"
             /\ Top.rule = "alts" => f.rule \in {"prod", "atom"}
             /\ Top.rule = "seq" => f.rule = "alts"
             /\ Top.rule = "elem" => f.rule = "seq"
             /\ Top.rule = "atom" => f.rule = "elem"
<1> DEFINE n == Len(stack) - 1
           f == stack[n]
<1>1. Len(stack) \in Nat \ {0} /\ Top.rule = RuleAt(Len(stack)) /\ stack \in Seq(Frames) /\ Shaped(stack)
  BY TopFrame DEF FInv, IInv, TypeOK, StackShape
<1>2. Len(stack) # 1
  <2>1. ASSUME NEW m \in Nat \ {0}, RuleAt(m) # "gbnf" PROVE m # 1
    BY <2>1 DEF RuleAt
  <2> QED BY <1>1, <2>1
<1>3. n \in Nat /\ n > 0 /\ Len(stack) = n + 1 /\ n \in 1 .. Len(stack) /\ n < Len(stack) /\ Len(stack) >= 2
  <2>1. Len(stack) \in Nat /\ Len(stack) # 0 /\ Len(stack) # 1
    BY <1>1, <1>2
  <2>2. \A m \in Nat : m # 0 /\ m # 1 =>
          /\ m - 1 \in Nat /\ m - 1 > 0 /\ m = (m - 1) + 1
          /\ m - 1 \in 1 .. m /\ m - 1 < m /\ m >= 2
    OBVIOUS
  <2> QED BY <2>1, <2>2
<1>4. /\ f \in Frames /\ f.phase = "close" /\ f.rule = RuleAt(n)
      /\ f.grouped <=> f.rule = "atom"
  BY <1>1, <1>3, StackFrames
<1>5. Handing(node) = [f EXCEPT !.child = node]
  BY DEF Handing
<1> HIDE DEF n, f
<1>6. /\ RuleAt(n + 1) = "prod" => RuleAt(n) = "gbnf"
      /\ RuleAt(n + 1) = "alts" => RuleAt(n) \in {"prod", "atom"}
      /\ RuleAt(n + 1) = "seq" => RuleAt(n) = "alts"
      /\ RuleAt(n + 1) = "elem" => RuleAt(n) = "seq"
      /\ RuleAt(n + 1) = "atom" => RuleAt(n) = "elem"
  BY <1>3, PrevRule
<1>7. LET g == Handing(node) IN
      /\ g \in Frames /\ g.phase = "close" /\ g.rule = f.rule /\ g.node = f.node /\ g.tok = f.tok
      /\ g.grouped = f.grouped /\ g.child = node
  BY <1>4, <1>5 DEF Frames
<1> QED BY <1>1, <1>3, <1>4, <1>6, <1>7 DEF n, f

\* A rule leaves to one that keeps what it is handed.
LEMMA LeaveTold ==
  ASSUME FInv, Spelt, FInv', Spelt', NEW c, Spared(c), Clear(stack, Len(stack) - 1, c),
         Top.rule \in {"alts", "seq", "atom"}, NEW node \in Nat, stack' = PopRule(node)
  PROVE  /\ OuterSame
         /\ Told(heap', Yield', stack') = Beneath ++ (IF node = Undef THEN << >> ELSE Yield'[node])
<1>1. LET g == Handing(node) IN
      /\ g \in Frames /\ g.phase = "close" /\ g.child = node
      /\ g.rule \in {"prod", "alts", "elem"} \/ g.grouped
      /\ g.grouped => g.rule = "atom"
  BY HandingIs
<1>2. Given(Yield', Handing(node)) = IF node = Undef THEN << >> ELSE Yield'[node]
  BY <1>1, OwnIs
<1>3. Clear(stack, Len(stack) - 2, c)
  <2>1. Len(stack) \in Nat /\ \A i \in 1 .. Len(stack) - 2 : i \in 1 .. Len(stack) - 1
    BY TopFacts
  <2> QED BY <2>1 DEF Clear
<1>4. Told(heap', Yield', stack') = Beneath ++ Given(Yield', Handing(node)) /\ SameUpTo(Len(stack) - 1)
  BY <1>3, PopTold
<1> QED BY <1>2, <1>4, OuterKept

LEMMA CloseSeqWrites ==
  ASSUME FInv, Spelt, FInv', CloseSeq
  PROVE  Writes(<< >>)
<1>1. /\ heap' = heap /\ Top.phase = "close" /\ Top.rule = "seq"
      /\ stack' = PopRule(Top.node) \/ stack' = PushRule(Top, "elem")
  BY DEF CloseSeq, At
<1>2. Spelt' /\ Yield' = Yield /\ Spared(Fresh)
  BY <1>1, HeapKept
<1>3. /\ Top \in Frames /\ Top.node \in Nat /\ ~Top.grouped /\ Top.node \in DOMAIN heap
      /\ heap[Top.node].kind = "seq" /\ Top.node # Undef
  BY <1>1, TopFacts DEF TopHolds, Free, Owners, Undef
<1>4. Own(heap, Yield, Top) = Filled(heap, Yield, Top.node) /\ Given(Yield, Top) = << >>
  BY <1>1, <1>3, OwnIs DEF Lists
<1>5. Yield[Top.node] \in Texts
  BY <1>3 DEF Spelt, Spells
<1>6. Filled(heap, Yield, Top.node) = Yield[Top.node]
  BY <1>3, <1>5, TextsNone DEF Filled, Gap, Separator
<1>7. /\ Told(heap, Yield, stack) = (Beneath ++ Yield[Top.node]) ++ << >> /\ Beneath \in Texts
  BY <1>4, <1>6, TellsNow
<1>8. Beneath ++ Yield[Top.node] \in Texts
  BY <1>5, <1>7, TextsMade
<1>9. Clear(stack, Len(stack) - 1, Fresh)
  BY ClearFresh
<1>10. ASSUME Told(heap', Yield', stack') = Beneath ++ Yield[Top.node], OuterSame PROVE Writes(<< >>)
  BY <1>2, <1>7, <1>8, <1>10, TextsNone DEF Writes, Tells
<1>11. CASE stack' = PopRule(Top.node)
  BY <1>1, <1>2, <1>3, <1>9, <1>10, <1>11, LeaveTold
<1>12. CASE stack' = PushRule(Top, "elem")
  <2>1. /\ Told(heap', Yield', stack') = Beneath ++ Own(heap', Yield', Closed(Top))
        /\ SameUpTo(Len(stack) - 1)
    BY <1>2, <1>3, <1>9, <1>12, PushTold DEF Rules
  <2>2. /\ Closed(Top) \in Frames /\ Closed(Top).phase = "close" /\ Closed(Top).rule = "seq"
        /\ Closed(Top).node = Top.node /\ ~Closed(Top).grouped
    BY <1>1, <1>3, ClosedIs
  <2>3. Own(heap', Yield', Closed(Top)) = Filled(heap', Yield', Top.node)
    BY <2>2, OwnIs DEF Lists
  <2>4. Own(heap', Yield', Closed(Top)) = Yield[Top.node]
    BY <1>1, <1>2, <1>6, <2>3
  <2> QED BY <1>10, <2>1, <2>4, OuterKept
<1> QED BY <1>1, <1>11, <1>12

\* An atom hands its element to elem; a group left open hands it none, and
\* what it holds is lost.
LEMMA CloseAtomWrites ==
  ASSUME FInv, Spelt, FInv', CloseAtom
  PROVE  /\ ~Top.grouped => Writes(<< >>)
         /\ Top.grouped => Spelt' /\ OuterSame /\ Told(heap', Yield', stack') = Beneath
<1>1. heap' = heap /\ Top.phase = "close" /\ Top.rule = "atom" /\ stack' = PopRule(Top.node)
  BY DEF CloseAtom, At
<1>2. Spelt' /\ Yield' = Yield /\ Spared(Fresh)
  BY <1>1, HeapKept
<1>3. Top \in Frames /\ Top.node \in Nat /\ (Top.grouped => Top.node = Undef)
  BY <1>1, TopFacts
<1>4. Clear(stack, Len(stack) - 1, Fresh)
  BY ClearFresh
<1>5. /\ OuterSame
      /\ Told(heap', Yield', stack') = Beneath ++ (IF Top.node = Undef THEN << >> ELSE Yield'[Top.node])
  BY <1>1, <1>2, <1>3, <1>4, LeaveTold
<1>6. /\ Told(heap, Yield, stack) = (Beneath ++ Own(heap, Yield, Top)) ++ Given(Yield, Top)
      /\ Beneath \in Texts /\ Own(heap, Yield, Top) \in Texts
  BY TellsNow
<1>7. ASSUME ~Top.grouped PROVE Writes(<< >>)
  <2>1. /\ Own(heap, Yield, Top) = IF Top.node = Undef THEN << >> ELSE Yield[Top.node]
        /\ Given(Yield, Top) = << >>
    BY <1>1, <1>3, <1>7, OwnIs
  <2>2. Told(heap', Yield', stack') = Beneath ++ Own(heap, Yield, Top)
    BY <1>2, <1>5, <2>1
  <2>3. Beneath ++ Own(heap, Yield, Top) \in Texts
    BY <1>6, TextsMade
  <2> QED BY <1>2, <1>5, <1>6, <2>1, <2>2, <2>3, TextsNone DEF Writes, Tells
<1>8. ASSUME Top.grouped PROVE Told(heap', Yield', stack') = Beneath
  BY <1>3, <1>5, <1>6, <1>8, TextsNone
<1> QED BY <1>2, <1>5, <1>7, <1>8

LEMMA CloseGroupWrites ==
  ASSUME FInv, Spelt, FInv', CloseGroup
  PROVE  Writes(<<pos>>)
<1> DEFINE r == Top.child
           cell == Node("group", Top.tok, pos, 0, <<r>>)
           v == (<<Top.tok>> ++ Yield[r]) ++ <<pos>>
<1>1. /\ heap' = Append(heap, cell) /\ Top.phase = "close" /\ Top.rule = "atom" /\ Top.grouped
      /\ stack' = PopRule(Fresh)
  BY DEF CloseGroup, GroupAhead, At
<1>2. /\ pos \in Nat /\ Fresh \in Nat /\ Fresh # Undef /\ Top \in Frames /\ Top.tok \in Nat /\ r \in Nat
  BY FreshCells, TopFacts DEF Undef
<1>3. Handed(heap, stack, Len(stack), r, {"alts"})
  BY <1>1, ChildFacts
<1>4. r \in DOMAIN heap /\ r # Undef
  BY <1>2, <1>3, HandedSpares
<1>5. /\ Yield[r] \in Texts /\ <<Top.tok>> \in Texts /\ <<pos>> \in Texts
  BY <1>2, <1>4, TextsMade DEF Spelt, Spells
<1>6. <<Top.tok>> ++ Yield[r] \in Texts /\ v \in Texts
  BY <1>5, TextsMade
<1>7. /\ cell \in Cells /\ cell.kind = "group" /\ cell.kids = <<r>> /\ cell.tok = Top.tok /\ cell.end = pos
  <2>1. <<r>> \in Seq(Nat) /\ "group" \in CellKinds /\ 0 \in Nat
    BY <1>2 DEF CellKinds
  <2>2. cell \in Cells
    BY <1>2, <2>1, MadeNode
  <2> QED BY <2>2 DEF Node
<1> HIDE DEF cell
<1>8. heap'[Fresh] = cell
  BY <1>1, <1>7, TopFacts, AppendProperties
<1>9. Built(cell)
  BY <1>7 DEF Built
<1>10. Makes(heap', Yield, DOMAIN heap, Fresh, v)
  <2> SUFFICES ASSUME NEW f, \A m \in DOMAIN heap : m # Fresh => f[m] = Yield[m]
               PROVE  YieldOf(heap', f, Fresh) = v
    BY DEF Makes
  <2>1. f[r] = Yield[r]
    BY <1>4, TopFacts
  <2>2. cell.kids[1] = r
    BY <1>7
  <2> QED BY <1>7, <1>8, <2>1, <2>2 DEF YieldOf, ++
<1> HIDE DEF r, v
<1>11. Spelt' /\ Yield'[Fresh] = v /\ Spared(Fresh)
  BY <1>1, <1>6, <1>7, <1>9, <1>10, HeapNew
<1>12. Clear(stack, Len(stack) - 1, Fresh)
  BY ClearFresh
<1>13. OuterSame /\ Told(heap', Yield', stack') = Beneath ++ v
  BY <1>1, <1>2, <1>11, <1>12, LeaveTold
<1>14. Own(heap, Yield, Top) = <<Top.tok>> /\ Given(Yield, Top) = Yield[r]
  BY <1>1, <1>2, <1>4, OwnIs DEF r
<1>15. Told(heap, Yield, stack) = (Beneath ++ <<Top.tok>>) ++ Yield[r] /\ Beneath \in Texts
  BY <1>14, TellsNow
<1>16. Beneath ++ v = ((Beneath ++ <<Top.tok>>) ++ Yield[r]) ++ <<pos>>
  <2>1. Beneath ++ (<<Top.tok>> ++ Yield[r]) = (Beneath ++ <<Top.tok>>) ++ Yield[r]
    BY <1>5, <1>15, TextsJoin
  <2>2. Beneath ++ ((<<Top.tok>> ++ Yield[r]) ++ <<pos>>) = (Beneath ++ (<<Top.tok>> ++ Yield[r])) ++ <<pos>>
    BY <1>5, <1>6, <1>15, TextsJoin
  <2> QED BY <2>1, <2>2 DEF v
<1> QED BY <1>11, <1>13, <1>15, <1>16 DEF Writes, Tells

\* An element is pushed to the sequence below, as it is or wrapped.
LEMMA ElemPushWrites ==
  ASSUME FInv, Spelt, FInv', Linked(stack), Top.rule = "elem", Top.phase = "close",
         stack' = PopRule(Top.node), Top.child # Undef, Spelt', Spared(Top.node), NEW x \in Texts,
         Filled(heap', Yield', Top.node) = Filled(heap, Yield, Top.node) ++ (Yield[Top.child] ++ x)
  PROVE  Writes(x)
<1> DEFINE n == Len(stack)
           list == Top.node
           r == Top.child
           f == stack[n - 1]
           g == Handing(list)
           b == Below(heap, Yield, stack, n - 2)
<1>1. /\ n >= 2 /\ f.phase = "close" /\ f.rule = "seq" /\ ~f.grouped /\ f \in Frames
      /\ g \in Frames /\ g.phase = "close" /\ g.rule = "seq" /\ g.node = f.node /\ ~g.grouped
      /\ n \in Nat /\ Top \in Frames /\ list \in Nat /\ ~Top.grouped
  BY HandingIs, TopFacts
<1>2. f.node = list
  <2>1. n \in 2 .. Len(stack) /\ stack[n] = Top
    BY <1>1 DEF Top
  <2> QED BY <2>1 DEF Linked
<1>3. Clear(stack, n - 2, list)
  <2>1. n - 1 \in 1 .. Len(stack) /\ (n - 1) - 1 = n - 2
    BY <1>1
  <2> QED BY <1>1, <1>2, <2>1, ClearOwner DEF Owners
<1>4. /\ Told(heap', Yield', stack') = (b ++ Own(heap', Yield', g)) ++ Given(Yield', g)
      /\ Beneath = b ++ Own(heap, Yield, f) /\ SameUpTo(n - 2)
      /\ b \in Texts /\ Own(heap, Yield, f) \in Texts /\ Own(heap', Yield', g) \in Texts
  BY <1>1, <1>3, PopTold
<1>5. /\ Own(heap', Yield', g) = Filled(heap', Yield', list) /\ Given(Yield', g) = << >>
      /\ Own(heap, Yield, f) = Filled(heap, Yield, list)
  <2>1. "seq" \in Lists
    BY DEF Lists
  <2> HIDE DEF n, list, r, f, g, b
  <2>2. Own(heap, Yield, f) = Filled(heap, Yield, list)
    BY <1>1, <1>2, <2>1, OwnIs
  <2>3. Own(heap', Yield', g) = Filled(heap', Yield', list) /\ Given(Yield', g) = << >>
    BY <1>1, <1>2, <2>1, OwnIs
  <2> QED BY <2>2, <2>3
<1>6. Own(heap, Yield, Top) = << >> /\ Given(Yield, Top) = Yield[r]
  BY <1>1, OwnIs
<1>7. /\ Told(heap, Yield, stack) = (Beneath ++ << >>) ++ Yield[r]
      /\ Beneath \in Texts /\ Yield[r] \in Texts
  BY <1>6, TellsNow
<1> HIDE DEF n, list, r, f, g, b
<1>8. Told(heap, Yield, stack) = (b ++ Filled(heap, Yield, list)) ++ Yield[r]
  BY <1>4, <1>5, <1>7, TextsNone
<1>9. Filled(heap, Yield, list) \in Texts /\ Yield[r] ++ x \in Texts
  BY <1>4, <1>5, <1>7, TextsMade
<1>10. Told(heap', Yield', stack') = b ++ (Filled(heap, Yield, list) ++ (Yield[r] ++ x))
  <2>1. b ++ Own(heap', Yield', g) \in Texts
    BY <1>4, TextsMade
  <2>2. Own(heap', Yield', g) = Filled(heap, Yield, list) ++ (Yield[r] ++ x)
    BY <1>5 DEF list, r
  <2> QED BY <1>4, <1>5, <2>1, <2>2, TextsNone
<1>11. b ++ (Filled(heap, Yield, list) ++ (Yield[r] ++ x))
       = ((b ++ Filled(heap, Yield, list)) ++ Yield[r]) ++ x
  <2>1. b ++ Filled(heap, Yield, list) \in Texts
    BY <1>4, <1>9, TextsMade
  <2>2. b ++ (Filled(heap, Yield, list) ++ (Yield[r] ++ x))
        = (b ++ Filled(heap, Yield, list)) ++ (Yield[r] ++ x)
    BY <1>4, <1>9, TextsJoin
  <2>3. (b ++ Filled(heap, Yield, list)) ++ (Yield[r] ++ x)
        = ((b ++ Filled(heap, Yield, list)) ++ Yield[r]) ++ x
    BY <1>7, <2>1, TextsJoin
  <2> QED BY <2>2, <2>3
<1>12. OuterSame
  BY <1>4, OuterKept DEF n
<1> QED BY <1>8, <1>10, <1>11, <1>12 DEF Writes, Tells

\* The list of the elem on top is the one the seq below it fills.
LEMMA ElemList ==
  ASSUME FInv, Linked(stack), Top.rule = "elem", Top.phase = "close"
  PROVE  /\ Top.node \in DOMAIN heap /\ Free(heap, Top.node) /\ heap[Top.node].kind = "seq"
         /\ Top.child # Undef =>
              /\ Top.child \in DOMAIN heap /\ Free(heap, Top.child) /\ Top.child # Top.node
              /\ heap[Top.child].kind \in {"term", "group"}
<1>1. /\ Len(stack) \in Nat /\ Len(stack) >= 2
      /\ stack[Len(stack) - 1].rule = "seq" /\ stack[Len(stack) - 1].phase = "close"
  BY HandingIs, TopFacts
<1>2. Len(stack) \in 2 .. Len(stack) /\ Len(stack) - 1 \in 1 .. Len(stack)
  BY <1>1
<1>3. stack[Len(stack) - 1].node = Top.node
  BY <1>1, <1>2 DEF Linked, Top
<1>4. Holds(heap, stack, Len(stack) - 1)
  BY <1>2 DEF FInv, Anchored, Held
<1>5. Free(heap, Top.node) /\ heap[Top.node].kind = "seq"
  BY <1>1, <1>3, <1>4 DEF Holds, Owners
<1>6. Top.child \in Nat
  BY TopFacts
<1>7. Top.child # Undef => Handed(heap, stack, Len(stack), Top.child, {"term", "group"})
  BY ChildFacts
<1>8. Top.child # Undef => /\ Top.child \in DOMAIN heap /\ Free(heap, Top.child)
                           /\ heap[Top.child].kind \in {"term", "group"}
  BY <1>6, <1>7, HandedSpares
<1> QED BY <1>5, <1>8 DEF Free

LEMMA ElemNoneWrites ==
  ASSUME FInv, Spelt, FInv', Top.rule = "elem", Top.phase = "close",
         stack' = PopRule(Top.node), Top.child = Undef, heap' = heap
  PROVE  Writes(<< >>)
<1> DEFINE g == Handing(Top.node)
<1>1. /\ g \in Frames /\ g.phase = "close" /\ g.rule = "seq" /\ ~g.grouped
      /\ Top \in Frames /\ ~Top.grouped /\ Top.node \in Nat
  BY HandingIs, TopFacts
<1>2. Spelt' /\ Spared(Fresh)
  BY HeapKept
<1>3. Clear(stack, Len(stack) - 1, Fresh)
  BY ClearFresh
<1>4. Clear(stack, Len(stack) - 2, Fresh)
  <2>1. Len(stack) \in Nat /\ \A i \in 1 .. Len(stack) - 2 : i \in 1 .. Len(stack) - 1
    BY TopFacts
  <2> QED BY <1>3, <2>1 DEF Clear
<1>5. Told(heap', Yield', stack') = Beneath ++ Given(Yield', g) /\ SameUpTo(Len(stack) - 1)
  BY <1>1, <1>2, <1>3, <1>4, PopTold
<1>6. Given(Yield', g) = << >>
  BY <1>1, OwnIs
<1>7. Own(heap, Yield, Top) = << >> /\ Given(Yield, Top) = << >>
  BY <1>1, OwnIs
<1>8. Told(heap, Yield, stack) = (Beneath ++ << >>) ++ << >> /\ Beneath \in Texts
  BY <1>7, TellsNow
<1> QED BY <1>2, <1>5, <1>6, <1>8, OuterKept, TextsNone DEF Writes, Tells

\* What elem's run of operators leaves of its token.
LEMMA ElemWrites ==
  ASSUME FInv, Spelt, FInv', Linked(stack)
  PROVE  /\ ElemPlain => Writes(<< >>)
         /\ ElemPost => Writes(IF Top.child # Undef /\ Wraps(input[pos].ops) > 0 THEN <<pos>> ELSE << >>)
         /\ ElemPostBad /\ stack' # stack => Spelt'
<1> DEFINE list == Top.node
           r == Top.child
<1>1. ASSUME Top.rule = "elem", Top.phase = "close", stack' = PopRule(list), r # Undef,
             heap' = PushNode(heap, list, r)
      PROVE  Writes(<< >>)
  <2>1. /\ list \in DOMAIN heap /\ Free(heap, list) /\ heap[list].kind = "seq"
        /\ r \in DOMAIN heap /\ r # list
    BY <1>1, ElemList
  <2>2. /\ Spelt' /\ Spared(list)
        /\ Yield'[list] = Filled(heap, Yield, list) ++ Yield[r]
        /\ Filled(heap', Yield', list) = Yield'[list] ++ Separator("seq")
    BY <1>1, <2>1, HeapPush
  <2>3. Separator("seq") = << >> /\ << >> \in Texts
    BY TextsMade DEF Separator
  <2>4. Yield[r] \in Texts /\ Filled(heap, Yield, list) \in Texts
    BY <2>1, FilledType DEF Spelt, Spells
  <2>5. Filled(heap, Yield, list) ++ Yield[r] \in Texts
    BY <2>4, TextsMade
  <2>6. Filled(heap', Yield', list) = Filled(heap, Yield, list) ++ (Yield[r] ++ << >>)
    BY <2>2, <2>3, <2>4, <2>5, TextsNone
  <2> QED BY <1>1, <2>2, <2>3, <2>6, ElemPushWrites
<1>2. ASSUME Top.rule = "elem", Top.phase = "close", stack' = PopRule(list), r # Undef,
             KindAt(pos) = "POST",
             heap' = PushNode(Append(heap, Node("rep", pos, pos, Wraps(input[pos].ops), <<r>>)), list, Fresh)
      PROVE  Writes(<<pos>>)
  <2> DEFINE cell == Node("rep", pos, pos, Wraps(input[pos].ops), <<r>>)
             v == Yield[r] ++ <<pos>>
             k == With(cell)
  <2>1. /\ list \in DOMAIN heap /\ Free(heap, list) /\ heap[list].kind = "seq"
        /\ r \in DOMAIN heap /\ r # list /\ Free(heap, r) /\ heap[r].kind \in {"term", "group"}
    BY <1>2, ElemList
  <2>2. pos \in Nat /\ r \in Nat
    BY FreshCells, TopFacts
  <2>3. cell \in Cells /\ cell.kind = "rep" /\ cell.kids = <<r>> /\ cell.tok = pos
    <3>1. pos \in 1 .. Len(input)
      BY <1>2, Lookahead DEF FInv, IInv
    <3>2. Wraps(input[pos].ops) \in Nat
      BY <3>1, Lookahead, WrapsType DEF FInv, IInv
    <3>3. <<r>> \in Seq(Nat) /\ "rep" \in CellKinds
      BY <2>2 DEF CellKinds
    <3>4. cell \in Cells
      BY <2>2, <3>2, <3>3, MadeNode
    <3> QED BY <3>4 DEF Node
  <2>4. heap' = PushNode(k, list, Fresh)
    BY <1>2 DEF With
  <2> HIDE DEF cell
  <2>5. k[Fresh] = cell
    BY <2>3, TopFacts, AppendProperties DEF With
  <2>6. v \in Texts /\ Yield[r] \in Texts /\ Filled(heap, Yield, list) \in Texts /\ <<pos>> \in Texts
    <3>1. Yield[r] \in Texts /\ Filled(heap, Yield, list) \in Texts
      BY <2>1, FilledType DEF Spelt, Spells
    <3> QED BY <2>2, <3>1, TextsMade
  <2>7. Makes(k, Yield, DOMAIN heap, Fresh, v)
    <3> SUFFICES ASSUME NEW f, \A m \in DOMAIN heap : m # Fresh => f[m] = Yield[m]
                 PROVE  YieldOf(k, f, Fresh) = v
      BY DEF Makes
    <3>1. f[r] = Yield[r]
      BY <2>1, TopFacts
    <3>2. cell.kids[1] = r
      BY <2>3
    <3> HIDE DEF k
    <3> QED BY <2>3, <2>5, <3>1, <3>2 DEF YieldOf, ++
  <2>8. <<cell.kind, heap[r].kind>> \in Layers
    BY <2>1, <2>3 DEF Layers
  <2> HIDE DEF v
  <2>9. /\ Spelt' /\ Spared(list)
        /\ Filled(heap', Yield', list) = (Filled(heap, Yield, list) ++ v) ++ Separator("seq")
    BY <2>1, <2>3, <2>4, <2>6, <2>7, <2>8, HeapWrap
  <2>10. Separator("seq") = << >>
    BY DEF Separator
  <2>11. Filled(heap, Yield, list) ++ v \in Texts
    BY <2>6, TextsMade
  <2>12. Filled(heap', Yield', list) = Filled(heap, Yield, list) ++ (Yield[r] ++ <<pos>>)
    BY <2>9, <2>10, <2>11, TextsNone DEF v
  <2> QED BY <1>2, <2>6, <2>9, <2>12, ElemPushWrites
<1>3. ASSUME ElemPlain PROVE Writes(<< >>)
  <2>1. /\ Top.rule = "elem" /\ Top.phase = "close" /\ stack' = PopRule(list)
        /\ r # Undef => heap' = PushNode(heap, list, r)
        /\ r = Undef => heap' = heap
    BY <1>3 DEF ElemPlain, At, PushChild
  <2> QED BY <1>1, <2>1, ElemNoneWrites
<1>4. ASSUME ElemPost
      PROVE  Writes(IF r # Undef /\ Wraps(input[pos].ops) > 0 THEN <<pos>> ELSE << >>)
  <2>1. /\ Top.rule = "elem" /\ Top.phase = "close" /\ stack' = PopRule(list) /\ KindAt(pos) = "POST"
        /\ r # Undef /\ Wraps(input[pos].ops) = 0 => heap' = PushNode(heap, list, r)
        /\ r # Undef /\ Wraps(input[pos].ops) # 0 =>
             heap' = PushNode(Append(heap, Node("rep", pos, pos, Wraps(input[pos].ops), <<r>>)), list, Fresh)
        /\ r = Undef => heap' = heap
    BY <1>4 DEF ElemPost, At
  <2>2. Wraps(input[pos].ops) > 0 <=> Wraps(input[pos].ops) # 0
    <3>1. pos \in 1 .. Len(input)
      BY <2>1, Lookahead DEF FInv, IInv
    <3>2. Wraps(input[pos].ops) \in Nat
      BY <3>1, Lookahead, WrapsType DEF FInv, IInv
    <3> QED BY <3>2
  <2> QED BY <1>1, <1>2, <2>1, <2>2, ElemNoneWrites
<1>5. ASSUME ElemPostBad, stack' # stack PROVE Spelt'
  BY <1>5, HeapKept DEF ElemPostBad
<1> QED BY <1>3, <1>4, <1>5

LEMMA CloseAltsWrites ==
  ASSUME FInv, Spelt, FInv', CloseAlts
  PROVE  Writes(IF KindAt(pos) = "ALT" THEN <<0>> ELSE << >>)
<1> DEFINE list == Top.node
           r == Top.child
           a == Filled(heap, Yield, list)
<1>1. /\ heap' = PushChild /\ Top.phase = "close" /\ Top.rule = "alts"
      /\ KindAt(pos) = "ALT" => stack' = PushRule(Top, "seq")
      /\ KindAt(pos) # "ALT" => stack' = PopRule(list)
  BY DEF CloseAlts, At
<1>2. /\ Top \in Frames /\ ~Top.grouped /\ list \in Nat /\ r \in Nat /\ "seq" \in Rules
      /\ Free(heap, list) /\ heap[list].kind = "alts" /\ list \in DOMAIN heap /\ list # Undef
  BY <1>1, TopFacts DEF TopHolds, Owners, Free, Rules, Undef
<1>3. Handed(heap, stack, Len(stack), r, {"seq"})
  BY <1>1, ChildFacts
<1>4. r \in DOMAIN heap /\ heap[r].kind = "seq" /\ r # Undef
  BY <1>2, <1>3, HandedSpares
<1>5. r # list /\ heap' = PushNode(heap, list, r)
  BY <1>1, <1>2, <1>4 DEF PushChild
<1>6. /\ Spelt' /\ Spared(list)
      /\ Yield'[list] = Filled(heap, Yield, list) ++ Yield[r]
      /\ Filled(heap', Yield', list) = Yield'[list] ++ Separator("alts")
  BY <1>2, <1>4, <1>5, HeapPush
<1>7. Clear(stack, Len(stack) - 1, list)
  <2>1. Len(stack) \in 1 .. Len(stack) /\ stack[Len(stack)] = Top
    BY TopFacts DEF Top
  <2> QED BY <1>1, <2>1, ClearOwner DEF Owners
<1>8. Own(heap, Yield, Top) = Filled(heap, Yield, list) /\ Given(Yield, Top) = Yield[r]
  <2>1. "alts" \in Lists
    BY DEF Lists
  <2> QED BY <1>1, <1>2, <1>4, <2>1, OwnIs
<1> HIDE DEF a, list, r
<1>9. /\ Told(heap, Yield, stack) = (Beneath ++ a) ++ Yield[r]
      /\ Beneath \in Texts /\ a \in Texts /\ Yield[r] \in Texts
  BY <1>8, TellsNow DEF a
<1>10. (Beneath ++ a) ++ Yield[r] = Beneath ++ (a ++ Yield[r]) /\ a ++ Yield[r] \in Texts
       /\ (Beneath ++ a) ++ Yield[r] \in Texts
  <2>1. a ++ Yield[r] \in Texts /\ Beneath ++ a \in Texts
    BY <1>9, TextsMade
  <2> QED BY <1>9, <2>1, TextsJoin, TextsMade
<1>11. CASE KindAt(pos) = "ALT"
  <2>1. /\ Told(heap', Yield', stack') = Beneath ++ Own(heap', Yield', Closed(Top))
        /\ SameUpTo(Len(stack) - 1)
    BY <1>1, <1>2, <1>6, <1>7, <1>11, PushTold
  <2>2. /\ Closed(Top) \in Frames /\ Closed(Top).phase = "close" /\ Closed(Top).rule = "alts"
        /\ Closed(Top).node = list /\ ~Closed(Top).grouped /\ "alts" \in Lists
    BY <1>1, <1>2, ClosedIs DEF Lists, list
  <2>3. Own(heap', Yield', Closed(Top)) = (a ++ Yield[r]) ++ <<0>>
    <3>1. Own(heap', Yield', Closed(Top)) = Filled(heap', Yield', list)
      BY <2>2, OwnIs
    <3> QED BY <1>6, <3>1 DEF Separator, a
  <2>4. Beneath ++ ((a ++ Yield[r]) ++ <<0>>) = (Beneath ++ (a ++ Yield[r])) ++ <<0>>
    <3>1. <<0>> \in Texts
      BY TextsMade
    <3> QED BY <1>9, <1>10, <3>1, TextsJoin
  <2> QED BY <1>6, <1>9, <1>10, <1>11, <2>1, <2>3, <2>4, OuterKept DEF Writes, Tells
<1>12. CASE KindAt(pos) # "ALT"
  <2>1. OuterSame /\ Told(heap', Yield', stack') = Beneath ++ Yield'[list]
    BY <1>1, <1>2, <1>6, <1>7, <1>12, LeaveTold DEF list
  <2> QED BY <1>6, <1>9, <1>10, <1>12, <2>1, TextsNone DEF Writes, Tells, a
<1> QED BY <1>11, <1>12

\* Nothing holds the list of productions.
LEMMA ProdsFree ==
  ASSUME FInv, NEW r, Is(heap, r, "prods")
  PROVE  Free(heap, r)
<1>1. Tidy(heap)
  BY DEF FInv
<1>2. \A p \in DOMAIN heap : \A i \in DOMAIN heap[p].kids :
        heap[heap[p].kids[i]].kind # "prods"
  BY <1>1 DEF Tidy, Layers
<1> QED BY <1>2 DEF Is, Free

\* With two frames, what has been read is what the lower one says, and the upper.
LEMMA TwoTold ==
  ASSUME NEW h, NEW y, NEW s, Stands(h, y, s)
  PROVE  Len(s) = 2 =>
           /\ Told(h, y, s) = (Own(h, y, s[1]) ++ Own(h, y, s[2])) ++ Given(y, s[2])
           /\ Own(h, y, s[1]) \in Texts /\ Own(h, y, s[2]) \in Texts /\ Given(y, s[2]) \in Texts
<1> DEFINE n == Len(s)
<1>1. /\ Told(h, y, s) = (Below(h, y, s, n - 1) ++ Own(h, y, s[n])) ++ Given(y, s[n])
      /\ \A m \in 0 .. n - 1 :
           Below(h, y, s, m + 1) = Below(h, y, s, m) ++ Own(h, y, s[m + 1])
      /\ Below(h, y, s, 0) = << >> /\ Given(y, s[n]) \in Texts
      /\ \A i \in 1 .. n : Own(h, y, s[i]) \in Texts
  BY ToldIs, OwnTexts
<1> HIDE DEF n
<1> SUFFICES ASSUME n = 2
             PROVE  /\ Told(h, y, s) = (Own(h, y, s[1]) ++ Own(h, y, s[2])) ++ Given(y, s[2])
                    /\ Own(h, y, s[1]) \in Texts /\ Own(h, y, s[2]) \in Texts /\ Given(y, s[2]) \in Texts
  BY DEF n
<1>2. Own(h, y, s[1]) \in Texts /\ Own(h, y, s[2]) \in Texts /\ Given(y, s[2]) \in Texts
  BY <1>1
<1>3. Below(h, y, s, 1) = << >> ++ Own(h, y, s[1])
  <2>1. 0 \in 0 .. n - 1 /\ 0 + 1 = 1
    OBVIOUS
  <2> QED BY <1>1, <2>1
<1>4. Below(h, y, s, 1) = Own(h, y, s[1])
  BY <1>2, <1>3, TextsNone
<1>5. n - 1 = 1
  OBVIOUS
<1> QED BY <1>1, <1>2, <1>4, <1>5

LEMMA OneTold ==
  ASSUME NEW h, NEW y, NEW s, Stands(h, y, s)
  PROVE  Len(s) = 1 =>
           Told(h, y, s) = Own(h, y, s[1]) ++ Given(y, s[1]) /\ Own(h, y, s[1]) \in Texts
<1> DEFINE n == Len(s)
<1>1. /\ Told(h, y, s) = (Below(h, y, s, n - 1) ++ Own(h, y, s[n])) ++ Given(y, s[n])
      /\ Below(h, y, s, 0) = << >>
      /\ Own(h, y, s[n]) \in Texts
  BY ToldIs
<1> HIDE DEF n
<1> SUFFICES ASSUME n = 1
             PROVE  Told(h, y, s) = Own(h, y, s[1]) ++ Given(y, s[1]) /\ Own(h, y, s[1]) \in Texts
  BY DEF n
<1>2. n - 1 = 0
  OBVIOUS
<1> QED BY <1>1, <1>2, TextsNone

LEMMA CloseProdWrites ==
  ASSUME FInv, Spelt, FInv', Shared(stack), CloseProd
  PROVE  Writes(<< >>)
<1> DEFINE list == Top.node
           r == Top.child
           cell == Node("prod", Top.tok, Top.tok, 0, <<r>>)
           k == With(cell)
           v == <<Top.tok>> ++ Yield[r]
           a == Filled(heap, Yield, list)
<1>1. Top.rule = "prod" /\ Top.phase = "close"
  BY DEF CloseProd, At
<1>2. /\ Top \in Frames /\ ~Top.grouped /\ list \in Nat /\ r \in Nat /\ Top.tok \in Nat
      /\ Is(heap, list, "prods") /\ list \in DOMAIN heap /\ heap[list].kind = "prods"
  BY <1>1, TopFacts DEF Is
<1>3. Free(heap, list)
  BY <1>2, ProdsFree
<1>4. Handed(heap, stack, Len(stack), r, {"alts"})
  BY <1>1, ChildFacts
<1>5. r \in DOMAIN heap /\ heap[r].kind = "alts" /\ r # Undef /\ Free(heap, r)
  BY <1>2, <1>4, HandedSpares
<1>6. /\ heap' = PushNode(k, list, Fresh) /\ r # list
      /\ \/ stack' = [stack EXCEPT ![Len(stack)] = NewFrame("prod", list)]
         \/ stack' = PopRule(list)
  BY <1>2, <1>5 DEF CloseProd, With
<1>7. cell \in Cells /\ cell.kind = "prod" /\ cell.kids = <<r>> /\ cell.tok = Top.tok
  <2>1. <<r>> \in Seq(Nat) /\ 0 \in Nat /\ "prod" \in CellKinds
    BY <1>2 DEF CellKinds
  <2>2. cell \in Cells
    BY <1>2, <2>1, MadeNode
  <2> QED BY <2>2 DEF Node
<1> HIDE DEF cell
<1>8. k[Fresh] = cell
  BY <1>7, TopFacts, AppendProperties DEF With
<1>9. Yield[r] \in Texts /\ v \in Texts /\ a \in Texts
  <2>1. Yield[r] \in Texts /\ a \in Texts
    BY <1>2, <1>5, FilledType DEF Spelt, Spells
  <2> QED BY <1>2, <2>1, TextsMade
<1>10. Makes(k, Yield, DOMAIN heap, Fresh, v)
  <2> SUFFICES ASSUME NEW f, \A m \in DOMAIN heap : m # Fresh => f[m] = Yield[m]
               PROVE  YieldOf(k, f, Fresh) = v
    BY DEF Makes
  <2>1. f[r] = Yield[r]
    BY <1>5, TopFacts
  <2>2. cell.kids[1] = r
    BY <1>7
  <2> HIDE DEF k
  <2> QED BY <1>7, <1>8, <2>1, <2>2 DEF YieldOf, ++
<1>11. <<cell.kind, heap[r].kind>> \in Layers
  BY <1>5, <1>7 DEF Layers
<1> HIDE DEF v
<1>12. /\ Spelt' /\ Spared(list)
       /\ Filled(heap', Yield', list) = (a ++ v) ++ Separator("prods")
  BY <1>2, <1>3, <1>5, <1>6, <1>7, <1>9, <1>10, <1>11, HeapWrap
<1>13. Filled(heap', Yield', list) = a ++ v /\ a ++ v \in Texts
  <2>1. Separator("prods") = << >> /\ a ++ v \in Texts
    BY <1>9, TextsMade DEF Separator
  <2> HIDE DEF a
  <2> QED BY <1>12, <2>1, TextsNone
<1>14. /\ Len(stack) = 2 /\ stack \in Seq(Frames) /\ Shaped(stack) /\ stack[2] = Top
       /\ 1 \in 1 .. Len(stack) /\ 1 < Len(stack)
  <2>1. Len(stack) \in Nat \ {0} /\ Top.rule = RuleAt(Len(stack)) /\ stack \in Seq(Frames) /\ Shaped(stack)
    BY TopFrame DEF FInv, IInv, TypeOK, StackShape
  <2>2. \A m \in Nat \ {0} : RuleAt(m) = "prod" => m = 2
    BY DEF RuleAt
  <2>3. Len(stack) = 2
    BY <1>1, <2>1, <2>2
  <2> QED BY <2>1, <2>3 DEF Top
<1>15. /\ stack[1] \in Frames /\ stack[1].phase = "close" /\ stack[1].rule = "gbnf"
       /\ ~stack[1].grouped /\ stack[1].node = list
  <2>1. /\ stack[1] \in Frames /\ stack[1].phase = "close" /\ stack[1].rule = RuleAt(1)
        /\ (stack[1].grouped => stack[1].rule = "atom")
    BY <1>14, StackFrames
  <2>2. RuleAt(1) = "gbnf"
    BY DEF RuleAt
  <2>3. stack[1].node = list
    BY <1>14 DEF Shared
  <2> QED BY <2>1, <2>2, <2>3
<1>16. "gbnf" \in Lists
  BY DEF Lists
<1> HIDE DEF list, r, k, a
<1>17. /\ Own(heap, Yield, stack[1]) = a
       /\ Own(heap, Yield, stack[2]) = <<Top.tok>> /\ Given(Yield, stack[2]) = Yield[r]
  <2>1. Own(heap, Yield, stack[1]) = a
    BY <1>15, <1>16, OwnIs DEF a
  <2>2. Own(heap, Yield, Top) = <<Top.tok>> /\ Given(Yield, Top) = Yield[r]
    BY <1>1, <1>2, <1>5, OwnIs DEF r
  <2> QED BY <1>14, <2>1, <2>2
<1>18. Told(heap, Yield, stack) = a ++ v
  <2>1. Told(heap, Yield, stack) = (a ++ <<Top.tok>>) ++ Yield[r]
    BY <1>14, <1>17, StandsNow, TwoTold
  <2>2. <<Top.tok>> \in Texts
    BY <1>2, TextsMade
  <2>3. (a ++ <<Top.tok>>) ++ Yield[r] = a ++ (<<Top.tok>> ++ Yield[r])
    BY <1>9, <2>2, TextsJoin
  <2> QED BY <2>1, <2>3 DEF v
<1>19. Stands(heap', Yield', stack')
  BY <1>12, StandsNow
<1>20. Told(heap', Yield', stack') = a ++ v
  <2>1. CASE stack' = PopRule(list)
    <3>1. Len(stack') = 1 /\ stack'[1] = [stack[1] EXCEPT !.child = list]
      BY <1>2, <1>14, <2>1, PopKin DEF list
    <3>2. /\ stack'[1] \in Frames /\ stack'[1].phase = "close" /\ stack'[1].rule = "gbnf"
          /\ ~stack'[1].grouped /\ stack'[1].node = list
      BY <1>2, <1>15, <3>1 DEF Frames, list
    <3>3. Own(heap', Yield', stack'[1]) = a ++ v /\ Given(Yield', stack'[1]) = << >>
      BY <1>13, <1>16, <3>2, OwnIs
    <3> QED BY <1>13, <1>19, <3>1, <3>3, OneTold, TextsNone
  <2>2. CASE stack' = [stack EXCEPT ![Len(stack)] = NewFrame("prod", list)]
    <3>1. NewFrame("prod", list) \in Frames
      BY <1>2 DEF NewFrame, Frames, Rules, Undef, list
    <3>2. Len(stack') = 2 /\ stack'[1] = stack[1] /\ stack'[2] = NewFrame("prod", list)
      BY <1>14, <2>2, <3>1, ExceptSeq
    <3>3. Own(heap', Yield', stack'[1]) = a ++ v
      BY <1>13, <1>15, <1>16, <3>2, OwnIs
    <3>4. Own(heap', Yield', stack'[2]) = << >> /\ Given(Yield', stack'[2]) = << >>
      <4>1. NewFrame("prod", list).phase = "open" /\ ~NewFrame("prod", list).grouped
        BY DEF NewFrame
      <4> QED BY <3>1, <3>2, <4>1, OwnIs
    <3>5. Told(heap', Yield', stack') = ((a ++ v) ++ << >>) ++ << >>
      BY <1>19, <3>2, <3>3, <3>4, TwoTold
    <3> QED BY <1>13, <3>5, TextsNone
  <2> QED BY <1>6, <2>1, <2>2 DEF list
<1> QED BY <1>12, <1>13, <1>14, <1>18, <1>20, TextsNone DEF Writes, Tells, OuterSame

-----------------------------------------------------------------------------
(* What a step keeps of the production and of the outermost group it is in. *)

InGroup(s) == Len(s) >= 6 /\ s[6].grouped
SamePlace ==
  /\ stack'[2].tok = stack[2].tok /\ (InGroup(stack') <=> InGroup(stack))
  /\ InGroup(stack) => stack'[6].tok = stack[6].tok

\* Nothing of a production has been read, or all of it.
Idle(f) == f.rule = "gbnf" \/ (f.rule = "prod" /\ f.phase = "open")

LEMMA Deep ==
  ASSUME FInv, Top.rule \notin {"gbnf", "prod"}
  PROVE  /\ Len(stack) \in Nat /\ Len(stack) >= 3 /\ stack \in Seq(Frames) /\ stack # << >>
         /\ stack[Len(stack)] = Top
<1>1. Len(stack) \in Nat \ {0} /\ Top.rule = RuleAt(Len(stack)) /\ stack \in Seq(Frames)
  BY TopFrame DEF FInv, IInv, TypeOK, StackShape
<1>2. \A m \in Nat \ {0} : RuleAt(m) \notin {"gbnf", "prod"} => m >= 3
  BY DEF RuleAt
<1>3. stack # << >>
  BY <1>1, EmptySeq
<1> QED BY <1>1, <1>2, <1>3 DEF Top

\* The current frame stays, with what it began at and whether in a group.
LEMMA StayPlace ==
  ASSUME FInv, Top.rule \notin {"gbnf", "prod"}, NEW f \in Frames,
         f.rule = Top.rule, f.tok = Top.tok, f.grouped = Top.grouped,
         stack' = Stay(f) \/ \E rule \in Rules \ {"gbnf", "prod"} : stack' = PushRule(f, rule)
  PROVE  SamePlace /\ Len(stack') >= 2 /\ ~Idle(Top')
<1> DEFINE n == Len(stack)
<1>1. n \in Nat /\ n >= 3 /\ stack \in Seq(Frames) /\ stack # << >> /\ stack[n] = Top
  BY Deep
<1>2. /\ Len(stack') \in {n, n + 1} /\ stack'[n] = Closed(f)
      /\ \A i \in 1 .. n - 1 : stack'[i] = stack[i]
      /\ Len(stack') = n + 1 =>
           stack'[n + 1].rule \in Rules \ {"gbnf", "prod"} /\ ~stack'[n + 1].grouped
  <2>1. CASE stack' = Stay(f)
    BY <1>1, <2>1, StayFrames DEF Closed
  <2>2. ASSUME NEW rule \in Rules \ {"gbnf", "prod"}, stack' = PushRule(f, rule)
        PROVE  /\ Len(stack') = n + 1 /\ stack'[n] = Closed(f)
               /\ stack'[n + 1] = NewFrame(rule, f.node)
               /\ \A i \in 1 .. n - 1 : stack'[i] = stack[i]
    BY <1>1, <2>2, PushFrames DEF Closed
  <2>3. \A rule, node : NewFrame(rule, node).rule = rule /\ ~NewFrame(rule, node).grouped
    BY DEF NewFrame
  <2> QED BY <2>1, <2>2, <2>3
<1> HIDE DEF n
<1>3. Closed(f).tok = Top.tok /\ Closed(f).grouped = Top.grouped /\ Closed(f).rule = Top.rule
  BY ClosedIs
<1>4. /\ \A i \in 1 .. n : stack'[i].tok = stack[i].tok /\ stack'[i].grouped = stack[i].grouped
  <2>1. \A i \in 1 .. n : i \in 1 .. n - 1 \/ i = n
    BY <1>1
  <2> QED BY <1>1, <1>2, <1>3, <2>1
<1>5. n < 6 => ~InGroup(stack) /\ ~InGroup(stack')
  <2>1. n < 6 /\ Len(stack') >= 6 => n + 1 = 6 /\ Len(stack') = n + 1
    BY <1>1, <1>2
  <2> QED BY <1>1, <1>2, <2>1 DEF InGroup, n
<1>6. n >= 6 => (InGroup(stack') <=> InGroup(stack)) /\ stack'[6].tok = stack[6].tok
  <2> SUFFICES ASSUME n >= 6 PROVE (InGroup(stack') <=> InGroup(stack)) /\ stack'[6].tok = stack[6].tok
    OBVIOUS
  <2>1. 6 \in 1 .. n /\ Len(stack') >= 6
    BY <1>1, <1>2
  <2> QED BY <1>4, <2>1 DEF InGroup, n
<1>7. 2 \in 1 .. n /\ Len(stack') >= 2 /\ (n < 6 \/ n >= 6)
  BY <1>1, <1>2
<1>8. ~Idle(Top')
  <2>1. Top' = stack'[Len(stack')]
    BY DEF Top
  <2> QED BY <1>2, <1>3, <2>1 DEF Idle
<1>9. SamePlace
  <2>1. n < 6 => (InGroup(stack') <=> InGroup(stack)) /\ ~InGroup(stack)
    BY <1>5
  <2> QED BY <1>4, <1>6, <1>7, <2>1 DEF SamePlace
<1> QED BY <1>7, <1>8, <1>9

\* A rule leaves, but not the one the outermost group is.
LEMMA PopPlace ==
  ASSUME FInv, Top.rule \notin {"gbnf", "prod"}, NEW node \in Nat, stack' = PopRule(node)
  PROVE  /\ Len(stack') >= 2 /\ ~Idle(Top') /\ stack'[2].tok = stack[2].tok
         /\ Len(stack) = 6 /\ Top.grouped => InGroup(stack) /\ ~InGroup(stack')
         /\ ~(Len(stack) = 6 /\ Top.grouped) => SamePlace
<1> DEFINE n == Len(stack)
<1>1. n \in Nat /\ n >= 3 /\ stack \in Seq(Frames) /\ stack[n] = Top
  BY Deep
<1>2. /\ Len(stack') = n - 1 /\ Kin(stack, stack', n - 1)
  <2>1. Len(stack) \notin {0, 1}
    BY <1>1
  <2> QED BY <1>1, <2>1, PopKin
<1> HIDE DEF n
<1>3. \A i \in 1 .. n - 1 : stack'[i].tok = stack[i].tok /\ stack'[i].grouped = stack[i].grouped
  BY <1>2 DEF Kin, SameFrame
<1>4. 2 \in 1 .. n - 1 /\ Len(stack') >= 2
  BY <1>1, <1>2
<1>5. n > 6 => (InGroup(stack') <=> InGroup(stack)) /\ stack'[6].tok = stack[6].tok
  <2> SUFFICES ASSUME n > 6 PROVE (InGroup(stack') <=> InGroup(stack)) /\ stack'[6].tok = stack[6].tok
    OBVIOUS
  <2>1. 6 \in 1 .. n - 1 /\ Len(stack') >= 6 /\ n >= 6
    BY <1>1, <1>2
  <2> QED BY <1>3, <2>1 DEF InGroup, n
<1>6. n <= 6 => ~InGroup(stack')
  BY <1>1, <1>2 DEF InGroup
<1>7. /\ n < 6 => ~InGroup(stack)
      /\ n = 6 => (InGroup(stack) <=> Top.grouped)
  <2>1. n < 6 => ~InGroup(stack)
    BY <1>1 DEF InGroup, n
  <2>2. ASSUME n = 6 PROVE InGroup(stack) <=> Top.grouped
    <3>1. stack[6] = Top /\ Len(stack) >= 6
      BY <1>1, <2>2 DEF n
    <3> QED BY <3>1 DEF InGroup
  <2> QED BY <2>1, <2>2
<1>8. n < 6 \/ n = 6 \/ n > 6
  BY <1>1
<1>9. ~Idle(Top')
  <2>1. Top' = Handing(node) /\ Len(stack) - 1 \in Nat
    BY <1>1, <1>2, PopKin DEF Top, Handing, n
  <2>2. /\ Handing(node).phase = "close" /\ Handing(node).rule = stack[Len(stack) - 1].rule
        /\ stack[Len(stack) - 1].rule \in {"prod", "atom", "alts", "seq", "elem"}
    <3>1. Top.rule \in {"alts", "seq", "elem", "atom"}
      BY TopFacts DEF Frames, Rules
    <3> QED BY <3>1, HandingIs
  <2> QED BY <2>1, <2>2 DEF Idle
<1>10. stack'[2].tok = stack[2].tok
  BY <1>3, <1>4
<1>11. ASSUME n = 6, Top.grouped PROVE InGroup(stack) /\ ~InGroup(stack')
  BY <1>6, <1>7, <1>11
<1>12. ASSUME ~(n = 6 /\ Top.grouped) PROVE SamePlace
  <2>1. n <= 6 => ~InGroup(stack) /\ ~InGroup(stack')
    BY <1>1, <1>6, <1>7, <1>12
  <2>2. n <= 6 \/ n > 6
    BY <1>1
  <2> QED BY <1>5, <1>10, <2>1, <2>2 DEF SamePlace
<1> QED BY <1>4, <1>9, <1>10, <1>11, <1>12 DEF n

\* The grammar's list is the first cell of the heap.
Rooted(h, s) == IF s[1].phase = "open" THEN h = << >> ELSE s[1].node = 1
Tied(h, s) == Linked(s) /\ Rooted(h, s)

LEMMA Above ==
  ASSUME NEW n \in Nat, n # 0, n # 1
  PROVE  /\ n - 1 \in Nat \ {0} /\ n - 1 <= n /\ 1 \in 1 .. n - 1 /\ 1 \in 1 .. n /\ 1 < n
         /\ n \in 2 .. n /\ n - 1 \in 1 .. n - 1
OBVIOUS

\* Only the frames above the m-th are new, or keep their list.
LEMMA TiedBelow ==
  ASSUME FInv, Tied(heap, stack), NEW m \in Nat \ {0}, m <= Len(stack), Len(stack) # 1,
         Len(stack') \in Nat, NEW k, stack'[1].phase = "close",
         \A i \in 1 .. m : stack'[i].rule = stack[i].rule /\ stack'[i].node = stack[i].node,
         \A i \in m + 1 .. Len(stack') :
           stack'[i].rule = "elem" => stack'[i].node = stack'[i - 1].node
  PROVE  Tied(k, stack')
<1>1. stack \in Seq(Frames) /\ Shaped(stack) /\ Len(stack) \in Nat \ {0}
  BY TopFrame DEF FInv, IInv, TypeOK, StackShape
<1>2. stack[1].phase = "close"
  <2>1. 1 \in 1 .. Len(stack) /\ 1 < Len(stack)
    BY <1>1, Above
  <2> QED BY <1>1, <2>1, StackFrames
<1>3. stack'[1].node = 1
  <2>1. 1 \in 1 .. m
    OBVIOUS
  <2> QED BY <1>2, <2>1 DEF Tied, Rooted
<1>4. Linked(stack')
  <2> SUFFICES ASSUME NEW i \in 2 .. Len(stack'), stack'[i].rule = "elem"
               PROVE  stack'[i].node = stack'[i - 1].node
    BY DEF Linked
  <2>1. CASE i \in m + 1 .. Len(stack')
    BY <2>1
  <2>2. CASE i \notin m + 1 .. Len(stack')
    <3>1. i \in 1 .. m /\ i - 1 \in 1 .. m /\ i \in 2 .. Len(stack)
      BY <1>1, <2>2
    <3> QED BY <3>1 DEF Tied, Linked
  <2> QED BY <2>1, <2>2
<1> QED BY <1>3, <1>4 DEF Tied, Rooted

LEMMA StayTied ==
  ASSUME FInv, Tied(heap, stack), Len(stack) # 1, NEW f \in Frames,
         f.rule = Top.rule, Top.rule = "elem" => f.node = Top.node,
         stack' = Stay(f) \/ \E rule \in Rules : stack' = PushRule(f, rule), NEW k
  PROVE  Tied(k, stack')
<1> DEFINE n == Len(stack)
<1>1. n \in Nat \ {0} /\ stack \in Seq(Frames) /\ Shaped(stack) /\ stack # << >> /\ stack[n] = Top
  BY TopFrame DEF FInv, IInv, TypeOK, StackShape, Top
<1>2. /\ Len(stack') \in {n, n + 1} /\ stack'[n] = Closed(f)
      /\ \A i \in 1 .. n - 1 : stack'[i] = stack[i]
      /\ Len(stack') = n + 1 => stack'[n + 1].node = f.node
  <2>1. CASE stack' = Stay(f)
    BY <1>1, <2>1, StayFrames DEF Closed
  <2>2. ASSUME NEW rule \in Rules, stack' = PushRule(f, rule)
        PROVE  /\ Len(stack') = n + 1 /\ stack'[n] = Closed(f)
               /\ stack'[n + 1] = NewFrame(rule, f.node)
               /\ \A i \in 1 .. n - 1 : stack'[i] = stack[i]
    BY <1>1, <2>2, PushFrames DEF Closed
  <2>3. \A rule, node : NewFrame(rule, node).node = node
    BY DEF NewFrame
  <2> QED BY <2>1, <2>2, <2>3
<1>3. Closed(f).rule = f.rule /\ Closed(f).node = f.node
  BY ClosedIs
<1>4. n - 1 \in Nat \ {0} /\ n - 1 <= n
  BY <1>1
<1>5. \A i \in 1 .. n - 1 : stack'[i].rule = stack[i].rule /\ stack'[i].node = stack[i].node
  BY <1>2
<1>6. stack'[1].phase = "close"
  <2>1. 1 \in 1 .. n - 1 /\ 1 \in 1 .. n /\ 1 < n
    BY <1>1, Above
  <2>2. stack[1].phase = "close"
    BY <1>1, <2>1, StackFrames
  <2> QED BY <1>2, <2>1, <2>2
<1>7. \A i \in n - 1 + 1 .. Len(stack') :
        stack'[i].rule = "elem" => stack'[i].node = stack'[i - 1].node
  <2> SUFFICES ASSUME NEW i \in n .. n + 1, i <= Len(stack'), stack'[i].rule = "elem"
               PROVE  stack'[i].node = stack'[i - 1].node
    BY <1>1, <1>2
  <2>1. CASE i = n
    <3>1. n \in 2 .. n /\ n - 1 \in 1 .. n - 1
      BY <1>1, Above
    <3>2. stack[n].node = stack[n - 1].node
      BY <1>1, <1>2, <1>3, <2>1, <3>1 DEF Tied, Linked
    <3> QED BY <1>1, <1>2, <1>3, <1>5, <2>1, <3>1, <3>2
  <2>2. CASE i = n + 1
    <3>1. Len(stack') = n + 1 /\ i - 1 = n
      BY <1>1, <1>2, <2>2
    <3> QED BY <1>2, <1>3, <2>2, <3>1
  <2> QED BY <1>1, <2>1, <2>2
<1>8. Len(stack') \in Nat
  BY <1>1, <1>2
<1> HIDE DEF n
<1> QED BY <1>4, <1>5, <1>6, <1>7, <1>8, TiedBelow DEF n

LEMMA PopTied ==
  ASSUME FInv, Tied(heap, stack), Top.rule # "gbnf", NEW node \in Nat,
         \/ stack' = PopRule(node)
         \/ Top.rule = "prod" /\ stack' = [stack EXCEPT ![Len(stack)] = NewFrame("prod", node)],
         NEW k
  PROVE  Tied(k, stack')
<1> DEFINE n == Len(stack)
<1>1. n \in Nat \ {0} /\ n # 1 /\ stack \in Seq(Frames) /\ Shaped(stack)
  <2>1. n \in Nat \ {0} /\ Top.rule = RuleAt(n) /\ stack \in Seq(Frames) /\ Shaped(stack)
    BY TopFrame DEF FInv, IInv, TypeOK, StackShape
  <2>2. RuleAt(1) = "gbnf"
    BY DEF RuleAt
  <2> QED BY <2>1, <2>2
<1>2. n - 1 \in Nat \ {0} /\ n - 1 <= n /\ 1 \in 1 .. n - 1 /\ 1 \in 1 .. n /\ 1 < n
  BY <1>1, Above
<1>3. stack[1].phase = "close"
  BY <1>1, <1>2, StackFrames
<1>4. CASE stack' = PopRule(node)
  <2>1. Len(stack) \notin {0, 1}
    BY <1>1
  <2>2. Len(stack') = n - 1 /\ Kin(stack, stack', n - 1)
    BY <1>1, <1>4, <2>1, PopKin
  <2>3. \A i \in 1 .. n - 1 : SameFrame(stack[i], stack'[i])
    BY <2>2 DEF Kin
  <2>4. /\ \A i \in 1 .. n - 1 : stack'[i].rule = stack[i].rule /\ stack'[i].node = stack[i].node
        /\ stack'[1].phase = "close"
    BY <1>2, <1>3, <2>3 DEF SameFrame
  <2>5. \A i \in n - 1 + 1 .. Len(stack') :
          stack'[i].rule = "elem" => stack'[i].node = stack'[i - 1].node
    BY <1>1, <2>2
  <2> HIDE DEF n
  <2> QED BY <1>1, <1>2, <2>2, <2>4, <2>5, TiedBelow DEF n
<1>5. CASE stack' = [stack EXCEPT ![Len(stack)] = NewFrame("prod", node)]
  <2>1. Len(stack') = n /\ stack'[n] = NewFrame("prod", node) /\ \A i \in 1 .. n - 1 : stack'[i] = stack[i]
    BY <1>1, <1>5
  <2>2. stack'[n].rule = "prod"
    BY <2>1 DEF NewFrame
  <2>3. \A i \in n - 1 + 1 .. Len(stack') :
          stack'[i].rule = "elem" => stack'[i].node = stack'[i - 1].node
    BY <1>1, <2>1, <2>2
  <2>4. /\ \A i \in 1 .. n - 1 : stack'[i].rule = stack[i].rule /\ stack'[i].node = stack[i].node
        /\ stack'[1].phase = "close"
    BY <1>2, <1>3, <2>1
  <2> HIDE DEF n
  <2> QED BY <1>1, <1>2, <2>1, <2>3, <2>4, TiedBelow DEF n
<1> QED BY <1>4, <1>5

-----------------------------------------------------------------------------
(* Counting parentheses from where the production begins.                  *)

\* The groups opened from token s on and still open just before token p.
Net(s, p) == Count("LP", s, p - 1) - Count("RP", s, p - 1)

LEMMA CountSplit ==
  ASSUME NEW kind, NEW s \in Nat, NEW t \in Nat, NEW p \in Nat, s <= t, t <= p
  PROVE  /\ Count(kind, s, p - 1) = Count(kind, s, t - 1) + Count(kind, t, p - 1)
         /\ Count(kind, s, t - 1) \in Nat /\ Count(kind, t, p - 1) \in Nat
<1> DEFINE A == {j \in s .. t - 1 : KindAt(j) = kind}
           B == {j \in t .. p - 1 : KindAt(j) = kind}
           C == {j \in s .. p - 1 : KindAt(j) = kind}
<1>1. C = A \cup B /\ A \cap B = {}
  <2>1. \A j : j \in s .. p - 1 <=> j \in s .. t - 1 \/ j \in t .. p - 1
    OBVIOUS
  <2>2. \A j : ~(j \in s .. t - 1 /\ j \in t .. p - 1)
    OBVIOUS
  <2> QED BY <2>1, <2>2
<1>2. IsFiniteSet(A) /\ IsFiniteSet(B)
  <2>1. IsFiniteSet(s .. t - 1) /\ IsFiniteSet(t .. p - 1)
    BY FS_Interval
  <2> QED BY <2>1, FS_Subset
<1>3. Count(kind, s, p - 1) = Cardinality(C) /\ Count(kind, s, t - 1) = Cardinality(A)
      /\ Count(kind, t, p - 1) = Cardinality(B)
  BY DEF Count
<1> HIDE DEF A, B, C
<1>4. Cardinality(A) \in Nat /\ Cardinality(B) \in Nat /\ Cardinality({}) = 0
  BY <1>2, FS_CardinalityType, FS_EmptySet
<1>5. Cardinality(A \cup B) = Cardinality(A) + Cardinality(B) - Cardinality(A \cap B)
  BY <1>2, FS_Union
<1> QED BY <1>1, <1>3, <1>4, <1>5

LEMMA NetSplit ==
  ASSUME NEW s \in Nat, NEW t \in Nat, NEW p \in Nat, s <= t, t <= p
  PROVE  /\ Net(s, p) = Net(s, t) + Net(t, p)
         /\ Net(s, p) \in Int /\ Net(s, t) \in Int /\ Net(t, p) \in Int
<1>1. /\ Count("LP", s, p - 1) = Count("LP", s, t - 1) + Count("LP", t, p - 1)
      /\ Count("LP", s, t - 1) \in Nat /\ Count("LP", t, p - 1) \in Nat
  BY CountSplit
<1>2. /\ Count("RP", s, p - 1) = Count("RP", s, t - 1) + Count("RP", t, p - 1)
      /\ Count("RP", s, t - 1) \in Nat /\ Count("RP", t, p - 1) \in Nat
  BY CountSplit
<1> QED BY <1>1, <1>2 DEF Net

LEMMA NetNone ==
  ASSUME NEW s \in Nat
  PROVE  Net(s, s) = 0
<1>1. \A kind : {j \in s .. s - 1 : KindAt(j) = kind} = {}
  OBVIOUS
<1>2. \A kind : Count(kind, s, s - 1) = 0
  BY <1>1, FS_EmptySet DEF Count
<1> QED BY <1>2 DEF Net

LEMMA NetNext ==
  ASSUME NEW s \in Nat, NEW p \in Nat, s <= p
  PROVE  /\ Net(s, p) \in Int
         /\ KindAt(p) = "LP" => Net(s, p + 1) = Net(s, p) + 1
         /\ KindAt(p) = "RP" => Net(s, p + 1) = Net(s, p) - 1
         /\ KindAt(p) \notin {"LP", "RP"} => Net(s, p + 1) = Net(s, p)
<1>1. (p + 1) - 1 = p
  OBVIOUS
<1>2. /\ Count("LP", s, p - 1) \in Nat
      /\ Count("LP", s, p) = Count("LP", s, p - 1) + (IF KindAt(p) = "LP" THEN 1 ELSE 0)
  BY CountNext
<1>3. /\ Count("RP", s, p - 1) \in Nat
      /\ Count("RP", s, p) = Count("RP", s, p - 1) + (IF KindAt(p) = "RP" THEN 1 ELSE 0)
  BY CountNext
<1>4. /\ Net(s, p + 1) = Count("LP", s, p) - Count("RP", s, p)
      /\ Net(s, p) = Count("LP", s, p - 1) - Count("RP", s, p - 1)
  BY <1>1 DEF Net
<1>5. CASE KindAt(p) = "LP"
  BY <1>2, <1>3, <1>4, <1>5
<1>6. CASE KindAt(p) = "RP"
  BY <1>2, <1>3, <1>4, <1>6
<1>7. CASE KindAt(p) \notin {"LP", "RP"}
  BY <1>2, <1>3, <1>4, <1>7
<1> QED BY <1>5, <1>6, <1>7

\* The production that begins at s has not ended before p.
Same(s, p) == s \in Nat \ {0} /\ ProdAt(s) /\ \A q \in s + 1 .. p : ~ProdAt(q)

LEMMA StartIs ==
  ASSUME NEW p \in Nat, NEW s, Same(s, p), s <= p
  PROVE  \A i \in s .. p : ProdStart(i) = s
<1> SUFFICES ASSUME NEW i \in s .. p PROVE ProdStart(i) = s
  OBVIOUS
<1> DEFINE S == {0} \cup {j \in 1 .. i : ProdAt(j)}
<1>1. s \in Nat \ {0} /\ i \in Nat /\ s <= i /\ i <= p
  BY DEF Same
<1>2. S \in SUBSET (0 .. i) /\ s \in S
  BY <1>1 DEF Same
<1>3. \A j \in S : j <= s
  <2> SUFFICES ASSUME NEW j \in S, j > s PROVE FALSE
    BY <1>1
  <2>1. j \in s + 1 .. p /\ ProdAt(j)
    BY <1>1
  <2> QED BY <2>1 DEF Same
<1>4. Max(S) \in S /\ s <= Max(S)
  <2> HIDE DEF S
  <2> QED BY <1>1, <1>2, GreatestExists
<1>5. Max(S) = s
  <2> HIDE DEF S
  <2>1. Max(S) \in 0 .. i /\ Max(S) <= s
    BY <1>2, <1>3, <1>4
  <2> QED BY <1>1, <1>4, <2>1
<1> QED BY <1>5 DEF ProdStart

LEMMA OpenIsNet ==
  ASSUME NEW p \in Nat, NEW s, Same(s, p), s <= p
  PROVE  OpenBefore(p) = Net(s, p)
<1>1. s \in Nat /\ p \in s .. p
  BY DEF Same
<1>2. ProdStart(p) = s
  BY <1>1, StartIs
<1> QED BY <1>2 DEF OpenBefore, Net

\* A production that ends just before p.
LEMMA EndIs ==
  ASSUME TypeOK, NEW p \in Nat, NEW s, Same(s, p - 1), s < p,
         p <= Len(input) + 1, ProdAt(p) \/ p = Len(input) + 1
  PROVE  \A i \in s .. p - 1 : ProdEnd(i) = p - 1
<1> SUFFICES ASSUME NEW i \in s .. p - 1 PROVE ProdEnd(i) = p - 1
  OBVIOUS
<1> DEFINE n == Len(input)
           T == {j \in i + 1 .. n : ProdAt(j)}
<1>1. n \in Nat /\ s \in Nat /\ i \in Nat /\ i < p /\ s <= i
  BY TokensAhead DEF Same
<1>2. T \in SUBSET (1 .. n)
  BY <1>1
<1>3. p \in {n + 1} \cup T
  BY <1>1
<1>4. \A j \in {n + 1} \cup T : p <= j
  <2> SUFFICES ASSUME NEW j \in T, j < p PROVE FALSE
    BY <1>1
  <2>1. j \in s + 1 .. p - 1 /\ ProdAt(j)
    BY <1>1
  <2> QED BY <2>1 DEF Same
<1>5. Min({n + 1} \cup T) = p
  <2> HIDE DEF T, n
  <2>1. LET m == Min({n + 1} \cup T) IN
          m \in 1 .. n + 1 /\ (m = n + 1 \/ m \in T) /\ \A j \in T : m <= j
    BY <1>1, <1>2, FirstOf
  <2>2. p \in Nat /\ Min({n + 1} \cup T) \in Nat
    BY <2>1
  <2>3. p <= Min({n + 1} \cup T)
    BY <1>4, <2>1
  <2>4. Min({n + 1} \cup T) <= p
    <3>1. CASE p = n + 1
      BY <2>1, <3>1
    <3>2. CASE p \in T
      BY <2>1, <3>2
    <3> QED BY <1>3, <3>1, <3>2
  <2> QED BY <2>2, <2>3, <2>4
<1> QED BY <1>5 DEF ProdEnd

\* The tokens the tree holds, where the production that begins at s may
\* still close the groups it has opened.
Solid(s) == {i \in Positions : Spelled(i) /\ (i < s => ~Abandoned(i))}
\* The outermost group, opened at t, is still open just before p.
Dropped(s, t, p) == KindAt(t) = "LP" /\ \A q \in t + 1 .. p : Net(s, q) > 0
\* Token p continues, or follows, the production that begins at s.
Level(s, p) == s \in Positions /\ s + 2 <= p /\ Same(s, p - 1) /\ \A q \in s .. p : Net(s, q) >= 0
\* No production goes on here.
Rest(p) == ProdAt(p) \/ KindAt(p) = "ZZ"

LEMMA UnclosedIs ==
  ASSUME TypeOK, NEW p \in Nat, NEW s, Same(s, p - 1), s < p,
         p <= Len(input) + 1, ProdAt(p) \/ p = Len(input) + 1, NEW j \in s .. p - 1
  PROVE  Unclosed(j) <=> (KindAt(j) = "LP" /\ \A q \in j + 1 .. p : Net(j, q) > 0)
<1>1. ProdEnd(j) = p - 1
  BY EndIs
<1>2. s \in Nat /\ j \in Nat /\ j < p
  BY DEF Same
<1>3. \A k \in j .. p - 1 : Count("LP", j, k) \in Nat /\ Count("RP", j, k) \in Nat
  <2> SUFFICES ASSUME NEW k \in j .. p - 1
               PROVE  Count("LP", j, k) \in Nat /\ Count("RP", j, k) \in Nat
    OBVIOUS
  <2>1. (k + 1) - 1 = k /\ k + 1 \in Nat /\ j <= k + 1 /\ j <= j
    BY <1>2
  <2>2. \A kind : Count(kind, j, (k + 1) - 1) \in Nat
    BY <1>2, <2>1, CountSplit
  <2> QED BY <2>1, <2>2
<1>4. ASSUME NEW k \in j .. p - 1, NEW q \in j + 1 .. p, q = k + 1
      PROVE  Net(j, q) > 0 <=> Count("LP", j, k) > Count("RP", j, k)
  <2>1. q - 1 = k
    BY <1>2, <1>4
  <2>2. Net(j, q) = Count("LP", j, k) - Count("RP", j, k)
    BY <2>1 DEF Net
  <2> QED BY <1>3, <2>2
<1>5. /\ \A k \in j .. p - 1 : k + 1 \in j + 1 .. p
      /\ \A q \in j + 1 .. p : q - 1 \in j .. p - 1 /\ q = (q - 1) + 1
  BY <1>2
<1>6. (\A q \in j + 1 .. p : Net(j, q) > 0)
        <=> \A k \in j .. p - 1 : Count("LP", j, k) > Count("RP", j, k)
  <2>1. ASSUME \A q \in j + 1 .. p : Net(j, q) > 0, NEW k \in j .. p - 1
        PROVE  Count("LP", j, k) > Count("RP", j, k)
    BY <1>4, <1>5, <2>1
  <2>2. ASSUME \A k \in j .. p - 1 : Count("LP", j, k) > Count("RP", j, k), NEW q \in j + 1 .. p
        PROVE  Net(j, q) > 0
    BY <1>4, <1>5, <2>2
  <2> QED BY <2>1, <2>2
<1> QED BY <1>1, <1>6 DEF Unclosed

\* At the end of a production, what it has abandoned is what its groups
\* still open hold: everything from the outermost of them on.
LEMMA ProductionSifted ==
  ASSUME TypeOK, NEW p \in Nat, NEW s, Level(s, p), p <= Len(input) + 1, Rest(p),
         NEW t \in s + 2 .. p, Net(s, t) = 0, t = p \/ Dropped(s, t, p)
  PROVE  Sift(Solid(s), t - 1) = Sift(Solid(p), p - 1)
<1>1. /\ s \in Nat \ {0} /\ t \in Nat /\ s + 2 <= t /\ t <= p /\ s < p
      /\ Same(s, p - 1) /\ Len(input) \in Nat
  BY TokensAhead DEF Level, Same
<1>2. ProdAt(p) \/ p = Len(input) + 1
  <2>1. CASE KindAt(p) = "ZZ"
    <3>1. p \notin 1 .. Len(input)
      <4>1. \A i \in 1 .. Len(input) : input[i].k \in Kinds
        <5> TAKE i \in 1 .. Len(input)
        <5>1. input[i] \in Tokens
          BY ElementOfSeq DEF TypeOK
        <5> QED BY <5>1 DEF Tokens
      <4> QED BY <2>1, <4>1 DEF KindAt, Kinds
    <3> QED BY <1>1, <3>1
  <2> QED BY <2>1 DEF Rest
<1>3. \A j \in s .. p - 1 :
        Unclosed(j) <=> (KindAt(j) = "LP" /\ \A q \in j + 1 .. p : Net(j, q) > 0)
  BY <1>1, <1>2, UnclosedIs
<1>4. \A i \in s .. p - 1 : ProdStart(i) = s
  <2>1. p - 1 \in Nat /\ s <= p - 1
    BY <1>1
  <2> QED BY <1>1, <2>1, StartIs
<1>5. ASSUME NEW i \in s .. t - 1 PROVE ~Abandoned(i)
  <2> SUFFICES ASSUME NEW j \in ProdStart(i) .. i, Unclosed(j) PROVE FALSE
    BY DEF Abandoned
  <2>1. i \in s .. p - 1
    BY <1>1
  <2>2. j \in s .. p - 1 /\ j \in Nat /\ s <= j /\ j <= t /\ t \in j + 1 .. p /\ j \in s .. p
    <3>1. ProdStart(i) = s
      BY <1>4, <2>1
    <3>2. j \in s .. i
      BY <3>1
    <3> QED BY <1>1, <3>2
  <2>3. Net(j, t) > 0
    BY <1>3, <2>2
  <2>4. Net(s, t) = Net(s, j) + Net(j, t) /\ Net(s, j) \in Int /\ Net(j, t) \in Int
    BY <1>1, <2>2, NetSplit
  <2>5. Net(s, j) >= 0
    BY <2>2 DEF Level
  <2> QED BY <2>3, <2>4, <2>5
<1>6. ASSUME NEW i \in t .. p - 1 PROVE Abandoned(i)
  <2>1. Dropped(s, t, p) /\ t \in s .. p - 1 /\ i \in s .. p - 1 /\ t \in s .. i
    BY <1>1
  <2>2. \A q \in t + 1 .. p : Net(t, q) > 0
    <3> SUFFICES ASSUME NEW q \in t + 1 .. p PROVE Net(t, q) > 0
      OBVIOUS
    <3>1. q \in Nat /\ t <= q /\ s <= t /\ s \in Nat /\ t \in Nat
      BY <1>1
    <3>2. Net(s, q) = Net(s, t) + Net(t, q) /\ Net(t, q) \in Int
      BY ONLY <3>1, NetSplit
    <3>3. Net(s, q) > 0
      BY <2>1 DEF Dropped
    <3> QED BY <3>2, <3>3
  <2>3. Unclosed(t)
    BY <1>3, <2>1, <2>2 DEF Dropped
  <2>4. t \in ProdStart(i) .. i
    BY <1>4, <2>1
  <2> QED BY <2>3, <2>4 DEF Abandoned
<1>7. \A i \in 1 .. t - 1 : i \in Solid(s) <=> i \in Solid(p)
  <2> SUFFICES ASSUME NEW i \in 1 .. t - 1 PROVE i \in Solid(s) <=> i \in Solid(p)
    OBVIOUS
  <2>1. i < p
    BY <1>1
  <2>2. CASE i < s
    BY <2>1, <2>2 DEF Solid
  <2>3. CASE ~(i < s)
    <3>1. i \in s .. t - 1
      BY <1>1, <2>3
    <3> QED BY <1>5, <2>1, <2>3, <3>1 DEF Solid
  <2> QED BY <2>2, <2>3
<1>8. \A i \in t .. p - 1 : i \notin Solid(p)
  BY <1>6 DEF Solid
<1>9. t - 1 \in Nat /\ p - 1 \in Nat /\ t - 1 <= p - 1 /\ (t - 1) + 1 = t
  BY <1>1
<1>10. Sift(Solid(s), t - 1) = Sift(Solid(p), t - 1)
  BY <1>7, <1>9, SiftSame
<1>11. Sift(Solid(p), p - 1) = Sift(Solid(p), t - 1)
  BY <1>8, <1>9, SiftStops
<1> QED BY <1>10, <1>11

-----------------------------------------------------------------------------
(* What the stack stands for is what the tokens read so far put there. A   *)
(* group left open takes everything the production still reads with it.    *)

\* A group is open: the frames outside it hold what stands before its `(`.
Within(h, y, s, p) ==
  LET b == s[2].tok
      t == s[6].tok
  IN  /\ t \in b + 2 .. p - 1 /\ Net(b, t) = 0 /\ Dropped(b, t, p)
      /\ Below(h, y, s, 5) = Sift(Solid(b), t - 1)
      /\ ~Rest(p) => Told(h, y, s) = Sift(Solid(b), p - 1)
\* No group is open, or the production ended and abandoned it.
Around(h, y, s, p) ==
  LET b == s[2].tok IN
  \E t \in b + 2 .. p :
    /\ Net(b, t) = 0 /\ (t = p \/ (Rest(p) /\ Dropped(b, t, p)))
    /\ Told(h, y, s) = Sift(Solid(b), t - 1)
Gathers(h, y, s, p) ==
  IF Idle(s[Len(s)]) THEN KindAt(p) # "RP" => Told(h, y, s) = Sift(Solid(p), p - 1)
  ELSE /\ Level(s[2].tok, p)
       /\ IF InGroup(s) THEN Within(h, y, s, p) ELSE Around(h, y, s, p)
Gathered == Gathers(heap, Yield, stack, pos)
GatheredOn == Gathers(heap', Yield', stack', pos')

\* What the tree holds of token p.
Writ(p) == IF Spelled(p) THEN <<Mark(p)>> ELSE << >>

LEMMA LevelFacts ==
  ASSUME NEW p \in Nat, NEW s, Level(s, p)
  PROVE  /\ s \in Nat \ {0} /\ s < p /\ s + 2 <= p /\ s <= p /\ p - 1 \in Nat
         /\ Net(s, p) \in Int /\ Net(s, p) >= 0
         /\ ~ProdAt(p) => Same(s, p) /\ OpenBefore(p) = Net(s, p)
         /\ ~ProdAt(p) /\ Net(s, p + 1) >= 0 => Level(s, p + 1)
<1>1. s \in Nat \ {0} /\ s + 2 <= p /\ Same(s, p - 1) /\ \A q \in s .. p : Net(s, q) >= 0
  BY DEF Level, Same
<1>2. s < p /\ s <= p /\ p - 1 \in Nat /\ p \in s .. p /\ s \in Nat
  BY <1>1
<1>3. Net(s, p) \in Int
  BY <1>2, NetNext
<1>4. ASSUME ~ProdAt(p) PROVE Same(s, p)
  <2>1. \A q \in s + 1 .. p : q \in s + 1 .. p - 1 \/ q = p
    BY <1>1
  <2> QED BY <1>1, <1>4, <2>1 DEF Same
<1>5. ASSUME ~ProdAt(p) PROVE OpenBefore(p) = Net(s, p)
  BY <1>2, <1>4, <1>5, OpenIsNet
<1>6. ASSUME ~ProdAt(p), Net(s, p + 1) >= 0 PROVE Level(s, p + 1)
  <2>1. \A q \in s .. p + 1 : q \in s .. p \/ q = p + 1
    BY <1>1
  <2>2. (p + 1) - 1 = p /\ s + 2 <= p + 1
    BY <1>1
  <2>3. \A q \in s .. p + 1 : Net(s, q) >= 0
    BY <1>1, <1>6, <2>1
  <2>4. Same(s, (p + 1) - 1)
    BY <1>4, <1>6, <2>2
  <2> QED BY <2>2, <2>3, <2>4 DEF Level
<1> QED BY <1>1, <1>2, <1>3, <1>4, <1>5, <1>6

LEMMA SiftOn ==
  ASSUME TypeOK, NEW p \in Positions, NEW s \in Nat, s <= p
  PROVE  /\ Sift(Solid(s), (p + 1) - 1) = Sift(Solid(s), p - 1) ++ Writ(p)
         /\ Sift(Solid(s), p - 1) \in Texts /\ Writ(p) \in Texts
<1>1. p \in Nat \ {0} /\ p - 1 \in Nat /\ (p - 1) + 1 = p /\ (p + 1) - 1 = p /\ ~(p < s)
  BY TokensAhead
<1>2. p \in Solid(s) <=> Spelled(p)
  BY <1>1 DEF Solid
<1>3. Adds(Solid(s), p) = Writ(p)
  BY <1>2 DEF Adds, Writ
<1>4. /\ Sift(Solid(s), p - 1) \in Texts
      /\ Sift(Solid(s), (p - 1) + 1) = Sift(Solid(s), p - 1) ++ Adds(Solid(s), (p - 1) + 1)
  BY <1>1, SiftNext
<1>5. Writ(p) \in Texts
  BY <1>1, <1>3, AddsType
<1> QED BY <1>1, <1>3, <1>4, <1>5

\* The token at pos is in the middle of a production.
LEMMA InProduction ==
  ASSUME TypeOK, ~Rest(pos)
  PROVE  /\ pos \in Positions /\ pos \in Nat \ {0} /\ ~ProdAt(pos)
         /\ (pos + 1) - 1 = pos /\ pos - 1 \in Nat
<1>1. KindAt(pos) # "ZZ" /\ ~ProdAt(pos)
  BY DEF Rest
<1> QED BY <1>1, TokensAhead

LEMMA GroupAbove ==
  ASSUME FInv
  PROVE  /\ InGroup(stack) /\ ~(Len(stack) = 6 /\ Top.grouped) => Len(stack) >= 7
         /\ Len(stack) >= 7 => InGroup(stack)
<1>1. Len(stack) \in Nat \ {0} /\ stack \in Seq(Frames) /\ Shaped(stack)
  BY TopFrame DEF FInv, IInv, TypeOK, StackShape
<1>2. InGroup(stack) /\ ~(Len(stack) = 6 /\ Top.grouped) => Len(stack) >= 7
  <2>1. \A m \in Nat : m >= 6 => m = 6 \/ m >= 7
    OBVIOUS
  <2> QED BY <1>1, <2>1 DEF InGroup, Top
<1>3. ASSUME Len(stack) >= 7 PROVE InGroup(stack)
  <2>1. 6 \in 1 .. Len(stack) /\ 6 < Len(stack) /\ Len(stack) >= 6
    BY <1>1, <1>3
  <2>2. RuleAt(6) = "atom"
    BY DEF RuleAt
  <2> QED BY <1>1, <2>1, <2>2, StackFrames DEF InGroup
<1> QED BY <1>2, <1>3

\* A step inside the outermost group.
LEMMA WithinNext ==
  ASSUME FInv, Spelt, Within(heap, Yield, stack, pos), InGroup(stack), Len(stack) >= 7,
         Level(stack[2].tok, pos), ~Rest(pos), Net(stack[2].tok, pos + 1) > 0,
         Writes(Writ(pos)), SamePlace
  PROVE  Within(heap', Yield', stack', pos + 1) /\ Level(stack'[2].tok, pos + 1)
<1> DEFINE b == stack[2].tok
           t == stack[6].tok
           p == pos + 1
<1>1. TypeOK /\ pos \in Nat \ {0} /\ pos \in Positions /\ ~ProdAt(pos) /\ p - 1 = pos
  BY InProduction DEF FInv, IInv
<1>2. stack'[2].tok = b /\ stack'[6].tok = t
  BY DEF SamePlace
<1>3. b \in Nat \ {0} /\ b <= pos /\ Net(b, pos) \in Int
  BY <1>1, LevelFacts
<1>4. /\ t \in b + 2 .. pos - 1 /\ Net(b, t) = 0 /\ Dropped(b, t, pos)
      /\ Below(heap, Yield, stack, 5) = Sift(Solid(b), t - 1)
      /\ Told(heap, Yield, stack) = Sift(Solid(b), pos - 1)
  BY DEF Within
<1>5. t \in b + 2 .. p - 1
  BY <1>1, <1>3, <1>4
<1>6. Dropped(b, t, p)
  <2>1. \A q \in t + 1 .. pos + 1 : q \in t + 1 .. pos \/ q = pos + 1
    BY <1>1, <1>3, <1>4
  <2> QED BY <1>4, <2>1 DEF Dropped
<1>7. Below(heap', Yield', stack', 5) = Below(heap, Yield, stack, 5)
  <2>1. 5 \in 0 .. 5
    OBVIOUS
  <2> QED BY <2>1 DEF Writes, OuterSame, SameUpTo
<1>8. Told(heap', Yield', stack') = Sift(Solid(b), p - 1)
  <2>1. Sift(Solid(b), (pos + 1) - 1) = Sift(Solid(b), pos - 1) ++ Writ(pos)
    BY <1>1, <1>3, SiftOn
  <2> QED BY <1>4, <2>1 DEF Writes, Tells
<1>9. Level(b, p)
  <2>1. Net(b, p) >= 0
    <3>1. b \in Nat /\ p \in Nat /\ b <= p
      BY <1>1, <1>3
    <3>2. Net(b, p) \in Int
      BY ONLY <3>1, NetNext
    <3> QED BY <3>2
  <2> QED BY <1>1, <2>1, LevelFacts
<1> HIDE DEF b, t, p
<1>10. Within(heap', Yield', stack', p)
  BY <1>2, <1>4, <1>5, <1>6, <1>7, <1>8 DEF Within
<1> QED BY <1>2, <1>9, <1>10 DEF p

\* A step that reads nothing, writes nothing and stays in the same group.
LEMMA StayGathered ==
  ASSUME FInv, Spelt, Gathered, ~Idle(Top), ~Idle(Top'), SamePlace,
         ~(Len(stack) = 6 /\ Top.grouped), Writes(<< >>), pos' = pos
  PROVE  GatheredOn
<1> DEFINE b == stack[2].tok
           t == stack[6].tok
<1>1. ~Idle(stack[Len(stack)]) /\ ~Idle(stack'[Len(stack')])
  BY DEF Top
<1>2. stack'[2].tok = b /\ (InGroup(stack') <=> InGroup(stack))
  BY DEF SamePlace
<1>3. /\ Level(b, pos)
      /\ InGroup(stack) => Within(heap, Yield, stack, pos)
      /\ ~InGroup(stack) => Around(heap, Yield, stack, pos)
  BY <1>1 DEF Gathered, Gathers
<1>4. Told(heap', Yield', stack') = Told(heap, Yield, stack)
  <2>1. Told(heap, Yield, stack) \in Texts
    BY TellsNow, TextsMade
  <2> QED BY <2>1, TextsNone DEF Writes, Tells
<1>5. ASSUME InGroup(stack) PROVE Within(heap', Yield', stack', pos)
  <2>1. Len(stack) >= 7
    BY <1>5, GroupAbove
  <2>2. Below(heap', Yield', stack', 5) = Below(heap, Yield, stack, 5)
    <3>1. 5 \in 0 .. 5
      OBVIOUS
    <3> QED BY <2>1, <3>1 DEF Writes, OuterSame, SameUpTo
  <2>3. stack'[6].tok = t
    BY <1>5 DEF SamePlace
  <2> QED BY <1>2, <1>3, <1>4, <1>5, <2>2, <2>3 DEF Within
<1>6. ASSUME ~InGroup(stack) PROVE Around(heap', Yield', stack', pos)
  BY <1>2, <1>3, <1>4, <1>6 DEF Around
<1> QED BY <1>1, <1>2, <1>3, <1>5, <1>6 DEF GatheredOn, Gathers

\* A step that reads one token, not a parenthesis, inside a production.
LEMMA NextGathered ==
  ASSUME FInv, Spelt, Gathered, ~Idle(Top), ~Idle(Top'), SamePlace,
         ~(Len(stack) = 6 /\ Top.grouped), ~Rest(pos), KindAt(pos) \notin {"LP", "RP"},
         Writes(Writ(pos)), pos' = pos + 1
  PROVE  GatheredOn
<1> DEFINE b == stack[2].tok
<1>1. ~Idle(stack[Len(stack)]) /\ ~Idle(stack'[Len(stack')])
  BY DEF Top
<1>2. stack'[2].tok = b /\ (InGroup(stack') <=> InGroup(stack))
  BY DEF SamePlace
<1>3. /\ Level(b, pos)
      /\ InGroup(stack) => Within(heap, Yield, stack, pos)
      /\ ~InGroup(stack) => Around(heap, Yield, stack, pos)
  BY <1>1 DEF Gathered, Gathers
<1>4. TypeOK /\ pos \in Nat \ {0} /\ pos \in Positions /\ ~ProdAt(pos) /\ (pos + 1) - 1 = pos
  BY InProduction DEF FInv, IInv
<1>5. b \in Nat /\ b <= pos /\ b + 2 <= pos /\ Net(b, pos) \in Int /\ Net(b, pos) >= 0
  BY <1>3, <1>4, LevelFacts
<1>6. Net(b, pos + 1) = Net(b, pos)
  BY <1>4, <1>5, NetNext
<1>7. Level(b, pos + 1)
  BY <1>3, <1>4, <1>5, <1>6, LevelFacts
<1>8. ASSUME InGroup(stack) PROVE Within(heap', Yield', stack', pos + 1)
  <2>1. Len(stack) >= 7
    BY <1>8, GroupAbove
  <2>2. Net(b, pos + 1) > 0
    <3>1. stack[6].tok \in b + 2 .. pos - 1 /\ Dropped(b, stack[6].tok, pos)
      BY <1>3, <1>8 DEF Within
    <3>2. pos \in stack[6].tok + 1 .. pos
      BY <1>4, <1>5, <3>1
    <3> QED BY <1>6, <3>1, <3>2 DEF Dropped
  <2> QED BY <1>3, <1>8, <2>1, <2>2, WithinNext
<1>9. ASSUME ~InGroup(stack) PROVE Around(heap', Yield', stack', pos + 1)
  <2>1. Net(b, pos) = 0 /\ Told(heap, Yield, stack) = Sift(Solid(b), pos - 1)
    BY <1>3, <1>9 DEF Around
  <2>2. Told(heap', Yield', stack') = Sift(Solid(b), (pos + 1) - 1)
    <3>1. Sift(Solid(b), (pos + 1) - 1) = Sift(Solid(b), pos - 1) ++ Writ(pos)
      BY <1>4, <1>5, SiftOn
    <3> QED BY <2>1, <3>1 DEF Writes, Tells
  <2>3. pos + 1 \in b + 2 .. pos + 1
    BY <1>4, <1>5
  <2> HIDE DEF b
  <2> QED BY <1>2, <1>6, <2>1, <2>2, <2>3 DEF Around
<1> HIDE DEF b
<1> QED BY <1>1, <1>2, <1>7, <1>8, <1>9 DEF GatheredOn, Gathers

\* `(`: the outermost group opens, or a group inside it.
LEMMA AtomGroupGathers ==
  ASSUME FInv, Spelt, FInv', Placed, Gathered, AtomGroup
  PROVE  GatheredOn
<1> DEFINE b == stack[2].tok
           n == Len(stack)
           f == [Top EXCEPT !.node = Undef, !.tok = pos, !.grouped = TRUE]
<1>1. /\ Top.rule = "atom" /\ Top.phase = "open" /\ KindAt(pos) = "LP"
      /\ stack' = PushRule(f, "alts") /\ pos' = pos + 1 /\ heap' = heap
  BY DEF AtomGroup, At
<1>2. /\ n = 4 * OpenBefore(pos) + 6 /\ OpenBefore(pos) \in Int /\ ~ProdAt(pos)
      /\ KindAt(pos) # "ZZ" /\ ~Top.grouped
  BY AtomAhead DEF AtomGroup
<1>3. ~Rest(pos) /\ TypeOK /\ pos \in Nat \ {0} /\ pos \in Positions /\ (pos + 1) - 1 = pos /\ pos \in Nat
  <2>1. ~Rest(pos)
    BY <1>2 DEF Rest
  <2> QED BY <2>1, InProduction DEF FInv, IInv
<1>4. f \in Frames /\ f.rule = "atom" /\ f.grouped /\ f.tok = pos
  BY <1>1, <1>3, TopAs
<1>5. /\ n \in Nat /\ n >= 3 /\ stack \in Seq(Frames) /\ stack # << >> /\ stack[n] = Top
  BY <1>1, Deep
<1>6. ~Idle(Top) /\ ~Idle(stack[n])
  BY <1>1, <1>5 DEF Idle
<1>7. /\ Len(stack') = n + 1 /\ stack'[n] = Closed(f) /\ stack'[n + 1] = NewFrame("alts", f.node)
      /\ \A i \in 1 .. n - 1 : stack'[i] = stack[i]
  <2>1. "alts" \in Rules
    BY DEF Rules
  <2> HIDE DEF f
  <2> QED BY <1>1, <1>4, <1>5, <2>1, PushFrames DEF Closed
<1> HIDE DEF f
<1>8. Closed(f).tok = pos /\ Closed(f).grouped
  BY <1>4, ClosedIs
<1>9. ~Idle(stack'[Len(stack')])
  BY <1>7 DEF Idle, NewFrame
<1>10. /\ Level(b, pos)
       /\ InGroup(stack) => Within(heap, Yield, stack, pos)
       /\ ~InGroup(stack) => Around(heap, Yield, stack, pos)
  BY <1>6 DEF Gathered, Gathers
<1>11. b \in Nat /\ b <= pos /\ b + 2 <= pos /\ Net(b, pos) \in Int /\ Net(b, pos) >= 0
       /\ OpenBefore(pos) = Net(b, pos)
  BY <1>2, <1>3, <1>10, LevelFacts
<1>12. Net(b, pos + 1) = Net(b, pos) + 1
  BY <1>1, <1>3, <1>11, NetNext
<1>13. Level(b, pos + 1) /\ Net(b, pos + 1) > 0
  <2>1. Net(b, pos + 1) >= 0 /\ Net(b, pos + 1) > 0
    BY <1>11, <1>12
  <2> QED BY <1>2, <1>3, <1>10, <2>1, LevelFacts
<1>14. Writ(pos) = <<pos>>
  BY <1>1 DEF Writ, Spelled, Mark
<1>15. Writes(Writ(pos))
  BY <1>14, OpenOnWrites
<1>16. stack'[2].tok = b /\ 2 \in 1 .. n - 1
  BY <1>5, <1>7
<1>17. CASE n >= 7
  <2>1. InGroup(stack) /\ 6 \in 1 .. n - 1 /\ Len(stack') >= 6
    BY <1>5, <1>7, <1>17, GroupAbove
  <2>2. stack'[6] = stack[6]
    BY <1>7, <2>1
  <2>3. SamePlace
    BY <1>16, <2>1, <2>2 DEF SamePlace, InGroup
  <2>4. Within(heap', Yield', stack', pos + 1)
    BY <1>3, <1>10, <1>13, <1>15, <1>17, <2>1, <2>3, WithinNext
  <2>5. InGroup(stack')
    BY <2>1, <2>3 DEF SamePlace
  <2> QED BY <1>1, <1>9, <1>13, <1>16, <2>4, <2>5 DEF GatheredOn, Gathers
<1>18. CASE n < 7
  <2>1. n = 6 /\ Net(b, pos) = 0
    BY <1>2, <1>5, <1>11, <1>18
  <2>2. ~InGroup(stack)
    BY <1>2, <1>5, <2>1 DEF InGroup
  <2>3. Told(heap, Yield, stack) = Sift(Solid(b), pos - 1)
    BY <1>3, <1>10, <2>2 DEF Around
  <2>4. stack'[6].tok = pos /\ InGroup(stack')
    <3>1. stack'[6] = Closed(f) /\ Len(stack') >= 6
      BY <1>7, <2>1
    <3> QED BY <1>8, <3>1 DEF InGroup
  <2>5. Below(heap', Yield', stack', 5) = Sift(Solid(b), pos - 1)
    <3>1. Beneath = Told(heap, Yield, stack)
      BY <1>1, OpenTold
    <3>2. Beneath = Below(heap, Yield, stack, 5)
      BY <2>1 DEF Beneath
    <3>3. SameUpTo(5)
      <4>1. Spared(Fresh) /\ Spelt'
        BY <1>1, HeapKept
      <4>2. Clear(stack, Len(stack) - 1, Fresh) /\ "alts" \in Rules
        BY ClearFresh DEF Rules
      <4>3. SameUpTo(Len(stack) - 1)
        BY <1>1, <1>4, <4>1, <4>2, PushTold
      <4>4. Len(stack) - 1 = 5
        BY <2>1
      <4> QED BY <4>3, <4>4
    <3>4. 5 \in 0 .. 5
      OBVIOUS
    <3> QED BY <2>3, <3>1, <3>2, <3>3, <3>4 DEF SameUpTo
  <2>6. Told(heap', Yield', stack') = Sift(Solid(b), (pos + 1) - 1)
    <3>1. Sift(Solid(b), (pos + 1) - 1) = Sift(Solid(b), pos - 1) ++ Writ(pos)
      BY <1>3, <1>11, SiftOn
    <3> QED BY <1>15, <2>3, <3>1 DEF Writes, Tells
  <2>7. pos \in b + 2 .. (pos + 1) - 1
    BY <1>3, <1>11
  <2>8. Dropped(b, pos, pos + 1)
    <3>1. \A q \in pos + 1 .. pos + 1 : q = pos + 1
      BY <1>3
    <3> QED BY <1>1, <1>13, <3>1 DEF Dropped
  <2> HIDE DEF b
  <2>9. Within(heap', Yield', stack', pos + 1)
    BY <1>16, <2>1, <2>4, <2>5, <2>6, <2>7, <2>8 DEF Within
  <2> QED BY <1>1, <1>9, <1>13, <1>16, <2>4, <2>9 DEF GatheredOn, Gathers
<1> QED BY <1>5, <1>17, <1>18

\* The frame of a group that leaves, at the `)` or without one.
LEMMA GroupLeaves ==
  ASSUME FInv, Placed, Gathered, Top.rule = "atom", Top.phase = "close", Top.grouped,
         NEW node \in Nat, stack' = PopRule(node)
  PROVE  /\ ~Idle(stack'[Len(stack')]) /\ stack'[2].tok = stack[2].tok
         /\ InGroup(stack) /\ Level(stack[2].tok, pos) /\ Within(heap, Yield, stack, pos)
         /\ Len(stack) = 6 => ~InGroup(stack')
         /\ Len(stack) # 6 => Len(stack) >= 7 /\ SamePlace
         /\ ~Rest(pos) => Len(stack) = 4 * OpenBefore(pos) + 2 /\ OpenBefore(pos) \in Int
<1>1. Len(stack) \in Nat /\ Len(stack) >= 3 /\ stack[Len(stack)] = Top
  BY Deep
<1>2. /\ ~Idle(Top') /\ stack'[2].tok = stack[2].tok
      /\ Len(stack) = 6 => InGroup(stack) /\ ~InGroup(stack')
      /\ Len(stack) # 6 => SamePlace
  BY PopPlace
<1>3. Len(stack) >= 6
  <2>1. Top.rule = RuleAt(Len(stack))
    BY TopFrame DEF FInv, IInv, TypeOK, StackShape
  <2>2. RuleAt(3) = "alts" /\ RuleAt(4) = "seq" /\ RuleAt(5) = "elem"
    BY DEF RuleAt
  <2>3. \A m \in Nat : m >= 3 => m = 3 \/ m = 4 \/ m = 5 \/ m >= 6
    OBVIOUS
  <2> QED BY <1>1, <2>1, <2>2, <2>3
<1>4. Len(stack) # 6 => Len(stack) >= 7
  <2>1. \A m \in Nat : m >= 6 => m = 6 \/ m >= 7
    OBVIOUS
  <2> QED BY <1>1, <1>3, <2>1
<1>5. InGroup(stack)
  BY <1>2, <1>4, GroupAbove
<1>6. Level(stack[2].tok, pos) /\ Within(heap, Yield, stack, pos)
  <2>1. ~Idle(stack[Len(stack)])
    BY <1>1 DEF Idle
  <2> QED BY <1>5, <2>1 DEF Gathered, Gathers
<1>7. ~Rest(pos) => Len(stack) = 4 * OpenBefore(pos) + 2 /\ OpenBefore(pos) \in Int
  <2>1. Levelled(Top, pos, Len(stack)) /\ OpenBefore(pos) \in Int
    BY Current DEF Placed, Placement
  <2>2. ~Rest(pos) => ~Settled(Top, pos)
    BY DEF Settled, Rest
  <2>3. Offset(Top) = 2
    BY Offsets
  <2> QED BY <2>1, <2>2, <2>3 DEF Levelled
<1>8. ~Idle(stack'[Len(stack')])
  BY <1>2 DEF Top
<1> QED BY <1>2, <1>4, <1>5, <1>6, <1>7, <1>8

\* `)`: the outermost group is complete, or a group inside it.
LEMMA CloseGroupGathers ==
  ASSUME FInv, Spelt, FInv', Placed, Gathered, CloseGroup
  PROVE  GatheredOn
<1> DEFINE b == stack[2].tok
           t == stack[6].tok
           n == Len(stack)
<1>1. /\ Top.rule = "atom" /\ Top.phase = "close" /\ Top.grouped /\ KindAt(pos) = "RP"
      /\ stack' = PopRule(Fresh) /\ pos' = pos + 1 /\ Fresh \in Nat
  BY TopFacts DEF CloseGroup, At, GroupAhead
<1>2. ~Rest(pos)
  BY <1>1 DEF Rest, ProdAt
<1>3. TypeOK /\ pos \in Nat \ {0} /\ pos \in Nat /\ pos \in Positions /\ ~ProdAt(pos) /\ (pos + 1) - 1 = pos
  BY <1>2, InProduction DEF FInv, IInv
<1>4. /\ ~Idle(stack'[Len(stack')]) /\ stack'[2].tok = b
      /\ InGroup(stack) /\ Level(b, pos) /\ Within(heap, Yield, stack, pos)
      /\ n = 6 => ~InGroup(stack')
      /\ n # 6 => n >= 7 /\ SamePlace
      /\ n = 4 * OpenBefore(pos) + 2 /\ OpenBefore(pos) \in Int
  BY <1>1, <1>2, GroupLeaves
<1>5. b \in Nat /\ b <= pos /\ b + 2 <= pos /\ Net(b, pos) \in Int /\ Net(b, pos) >= 0
      /\ OpenBefore(pos) = Net(b, pos)
  BY <1>3, <1>4, LevelFacts
<1>6. Net(b, pos + 1) = Net(b, pos) - 1
  BY <1>1, <1>3, <1>5, NetNext
<1>7. Writes(Writ(pos))
  <2>1. Writ(pos) = <<pos>>
    BY <1>1 DEF Writ, Spelled, Mark
  <2> QED BY <2>1, CloseGroupWrites
<1>8. Len(stack) \in Nat
  BY <1>1, Deep
<1>9. CASE n # 6
  <2>1. n >= 7 /\ SamePlace
    BY <1>4, <1>9
  <2>2. Net(b, pos + 1) > 0
    BY <1>4, <1>5, <1>6, <1>8, <2>1
  <2>3. Within(heap', Yield', stack', pos + 1) /\ Level(stack'[2].tok, pos + 1)
    BY <1>2, <1>4, <1>7, <2>1, <2>2, WithinNext
  <2>4. InGroup(stack')
    BY <1>4, <2>1 DEF SamePlace
  <2> QED BY <1>1, <1>4, <2>3, <2>4 DEF GatheredOn, Gathers
<1>10. CASE n = 6
  <2>1. Net(b, pos + 1) = 0
    BY <1>4, <1>5, <1>6, <1>10
  <2>2. Level(b, pos + 1)
    BY <1>3, <1>4, <2>1, LevelFacts
  <2>3. Told(heap, Yield, stack) = Sift(Solid(b), pos - 1)
    BY <1>2, <1>4 DEF Within
  <2>4. Told(heap', Yield', stack') = Sift(Solid(b), (pos + 1) - 1)
    <3>1. Sift(Solid(b), (pos + 1) - 1) = Sift(Solid(b), pos - 1) ++ Writ(pos)
      BY <1>3, <1>5, SiftOn
    <3> QED BY <1>7, <2>3, <3>1 DEF Writes, Tells
  <2>5. pos + 1 \in b + 2 .. pos + 1
    BY <1>3, <1>5
  <2>6. ~InGroup(stack')
    BY <1>4, <1>10
  <2> HIDE DEF b
  <2>7. Around(heap', Yield', stack', pos + 1)
    BY <1>4, <2>1, <2>4, <2>5 DEF Around
  <2> QED BY <1>1, <1>4, <2>2, <2>6, <2>7 DEF GatheredOn, Gathers
<1> QED BY <1>9, <1>10

\* A group without a `)` where its production ends.
LEMMA CloseAtomGathers ==
  ASSUME FInv, Spelt, FInv', Placed, Gathered, CloseAtom
  PROVE  GatheredOn
<1> DEFINE b == stack[2].tok
           t == stack[6].tok
           n == Len(stack)
<1>1. /\ Top.rule = "atom" /\ Top.phase = "close" /\ stack' = PopRule(Top.node) /\ pos' = pos
      /\ Top.node \in Nat /\ (Top.grouped => KindAt(pos) # "RP") /\ Top.grouped \in BOOLEAN
  BY TopFacts DEF CloseAtom, At, GroupAhead
<1>2. CASE ~Top.grouped
  <2>1. SamePlace /\ ~Idle(Top') /\ ~Idle(Top)
    BY <1>1, <1>2, PopPlace DEF Idle
  <2>2. Writes(<< >>)
    BY <1>2, CloseAtomWrites
  <2> QED BY <1>1, <1>2, <2>1, <2>2, StayGathered
<1>3. CASE Top.grouped
  <2>1. Rest(pos)
    <3>1. Closing(pos)
      BY <1>1, <1>3 DEF Placed, Placement, Expects
    <3> QED BY <1>1, <1>3, <3>1 DEF Closing, Rest
  <2>2. /\ ~Idle(stack'[Len(stack')]) /\ stack'[2].tok = b
        /\ InGroup(stack) /\ Level(b, pos) /\ Within(heap, Yield, stack, pos)
        /\ n = 6 => ~InGroup(stack')
        /\ n # 6 => n >= 7 /\ SamePlace
    BY <1>1, <1>3, GroupLeaves
  <2>3. OuterSame /\ Told(heap', Yield', stack') = Beneath
    BY <1>3, CloseAtomWrites
  <2>4. /\ t \in b + 2 .. pos - 1 /\ Net(b, t) = 0 /\ Dropped(b, t, pos)
        /\ Below(heap, Yield, stack, 5) = Sift(Solid(b), t - 1)
    BY <2>2 DEF Within
  <2>5. CASE n # 6
    <3>1. Below(heap', Yield', stack', 5) = Below(heap, Yield, stack, 5)
      <4>1. 5 \in 0 .. 5
        OBVIOUS
      <4> QED BY <2>2, <2>3, <2>5, <4>1 DEF OuterSame, SameUpTo
    <3>2. stack'[6].tok = t /\ InGroup(stack')
      BY <2>2, <2>5 DEF SamePlace
    <3> HIDE DEF b, t, n
    <3>3. Within(heap', Yield', stack', pos)
      BY <2>1, <2>2, <2>4, <3>1, <3>2 DEF Within
    <3> QED BY <1>1, <2>2, <3>2, <3>3 DEF GatheredOn, Gathers
  <2>6. CASE n = 6
    <3>1. Beneath = Below(heap, Yield, stack, 5)
      <4>1. Len(stack) - 1 = 5
        BY <2>6
      <4> QED BY <4>1 DEF Beneath
    <3>2. t \in b + 2 .. pos
      <4>1. b \in Nat /\ pos \in Nat
        <5>1. pos \in Nat
          BY Current
        <5> QED BY <2>2, <5>1, LevelFacts
      <4> QED BY <2>4, <4>1
    <3> HIDE DEF b, t, n
    <3>3. Around(heap', Yield', stack', pos)
      BY <2>1, <2>2, <2>3, <2>4, <3>1, <3>2 DEF Around
    <3> QED BY <1>1, <2>2, <2>6, <3>3 DEF GatheredOn, Gathers
  <2> QED BY <2>5, <2>6
<1> QED BY <1>1, <1>2, <1>3

\* What the rules inside a production do to the stack.
LEMMA InnerPlace ==
  ASSUME FInv,
         OpenAlts \/ OpenSeq \/ OpenElem \/ AtomTerm \/ AtomEmpty
           \/ ElemPlain \/ ElemPost \/ CloseSeq \/ CloseAlts
  PROVE  ~Idle(Top) /\ ~Idle(Top') /\ SamePlace /\ ~(Len(stack) = 6 /\ Top.grouped)
<1>1. /\ Top \in Frames /\ Top.node \in Nat /\ Fresh \in Nat /\ Undef \in Nat
      /\ (Top.grouped => Top.rule = "atom" /\ Top.phase = "close")
      /\ {"seq", "elem", "atom"} \subseteq Rules \ {"gbnf", "prod"}
  BY TopFacts DEF Undef, Rules
<1>2. /\ Top.rule \in {"alts", "seq", "elem", "atom"}
      /\ Top.rule = "atom" => Top.phase = "open"
  BY DEF OpenAlts, OpenSeq, OpenElem, AtomTerm, AtomEmpty, ElemPlain, ElemPost, CloseSeq, CloseAlts, At
<1>3. \/ \E node \in Nat : LET f == [Top EXCEPT !.node = node] IN
           stack' = Stay(f) \/ stack' = PushRule(f, "seq") \/ stack' = PushRule(f, "elem")
      \/ stack' = PushRule(Top, "atom") \/ stack' = PushRule(Top, "elem") \/ stack' = PushRule(Top, "seq")
      \/ stack' = PopRule(Top.node)
  BY <1>1 DEF OpenAlts, OpenSeq, OpenElem, AtomTerm, AtomEmpty, ElemPlain, ElemPost, CloseSeq, CloseAlts
<1>4. ASSUME NEW f \in Frames, f.rule = Top.rule, f.tok = Top.tok, f.grouped = Top.grouped,
             \/ stack' = Stay(f) \/ stack' = PushRule(f, "seq") \/ stack' = PushRule(f, "elem")
             \/ stack' = PushRule(f, "atom")
      PROVE  SamePlace /\ ~Idle(Top')
  BY <1>1, <1>2, <1>4, StayPlace
<1>5. ASSUME stack' = PopRule(Top.node) PROVE SamePlace /\ ~Idle(Top')
  BY <1>1, <1>2, <1>5, PopPlace
<1>6. ASSUME NEW node \in Nat
      PROVE  LET f == [Top EXCEPT !.node = node] IN
             f \in Frames /\ f.rule = Top.rule /\ f.tok = Top.tok /\ f.grouped = Top.grouped
  BY <1>1 DEF Frames
<1>7. SamePlace /\ ~Idle(Top')
  BY <1>1, <1>3, <1>4, <1>5, <1>6
<1>8. ~Idle(Top) /\ ~(Len(stack) = 6 /\ Top.grouped)
  BY <1>1, <1>2 DEF Idle
<1> QED BY <1>7, <1>8

\* The steps inside a production that read nothing.
LEMMA PlainGathers ==
  ASSUME FInv, Spelt, FInv', Tied(heap, stack), Gathered,
         OpenAlts \/ OpenSeq \/ OpenElem \/ ElemPlain \/ CloseSeq \/ (CloseAlts /\ KindAt(pos) # "ALT")
  PROVE  GatheredOn
<1>1. ~Idle(Top) /\ ~Idle(Top') /\ SamePlace /\ ~(Len(stack) = 6 /\ Top.grouped)
  BY InnerPlace
<1>2. pos' = pos
  BY DEF OpenAlts, OpenSeq, OpenElem, ElemPlain, CloseSeq, CloseAlts
<1>3. Writes(<< >>)
  <2>1. Linked(stack)
    BY DEF Tied
  <2>2. CASE OpenAlts \/ OpenSeq
    BY <2>2, OpenListWrites
  <2>3. CASE OpenElem
    BY <2>3, OpenOnWrites
  <2>4. CASE ElemPlain
    BY <2>1, <2>4, ElemWrites
  <2>5. CASE CloseSeq
    BY <2>5, CloseSeqWrites
  <2>6. CASE CloseAlts /\ KindAt(pos) # "ALT"
    BY <2>6, CloseAltsWrites
  <2> QED BY <2>2, <2>3, <2>4, <2>5, <2>6
<1> QED BY <1>1, <1>2, <1>3, StayGathered

\* A postfix run: what it wraps is what the token before it left.
LEMMA ElemPostWrit ==
  ASSUME FInv, Placed, decodeErr = 0, ElemPost
  PROVE  Writ(pos) = IF Top.child # Undef /\ Wraps(input[pos].ops) > 0 THEN <<pos>> ELSE << >>
<1>1. Top.rule = "elem" /\ Top.phase = "close" /\ KindAt(pos) = "POST"
  BY DEF ElemPost, At
<1>2. Left(pos, Top.child)
  BY <1>1 DEF Placed, Placement, Expects
<1>3. KindAt(pos - 1) # "BADTERM"
  <2>1. pos \in Nat \ {0} /\ pos # 1
    <3>1. Inside(Top, pos)
      BY DEF Placed, Placement
    <3> QED BY <1>1, <3>1, Current DEF Inside
  <2>2. pos - 1 \in 1 .. pos - 1
    BY <2>1
  <2>3. ~Undecodable(pos - 1)
    BY <2>2 DEF Placed, Recorded
  <2> QED BY <2>3 DEF Undecodable
<1>4. Top.child = Undef <=> KindAt(pos - 1) = "EMPTY"
  BY <1>2, <1>3 DEF Left, Nodeless
<1>5. Mark(pos) = pos
  BY <1>1 DEF Mark
<1>6. Spelled(pos) <=> (Wraps(input[pos].ops) > 0 /\ KindAt(pos - 1) # "EMPTY")
  BY <1>1 DEF Spelled
<1> QED BY <1>4, <1>5, <1>6 DEF Writ

\* The steps inside a production that read a token other than a parenthesis.
LEMMA ReadGathers ==
  ASSUME FInv, Spelt, FInv', Placed, decodeErr = 0, Tied(heap, stack), Gathered,
         AtomTerm \/ AtomEmpty \/ ElemPost \/ (CloseAlts /\ KindAt(pos) = "ALT")
  PROVE  GatheredOn
<1>1. ~Idle(Top) /\ ~Idle(Top') /\ SamePlace /\ ~(Len(stack) = 6 /\ Top.grouped)
  BY InnerPlace
<1>2. pos' = pos + 1
  BY DEF AtomTerm, AtomEmpty, ElemPost, CloseAlts
<1>3. ~Rest(pos) /\ KindAt(pos) \notin {"LP", "RP"}
  <2>1. CASE AtomTerm \/ AtomEmpty
    <3>1. ~ProdAt(pos)
      BY <2>1, AtomAhead DEF AtomTerm, AtomEmpty
    <3> QED BY <2>1, <3>1 DEF AtomTerm, AtomEmpty, Rest
  <2>2. CASE ElemPost \/ (CloseAlts /\ KindAt(pos) = "ALT")
    BY <2>2 DEF ElemPost, Rest, ProdAt
  <2> QED BY <2>1, <2>2
<1>4. Writes(Writ(pos))
  <2>1. CASE AtomTerm
    <3>1. Writ(pos) = <<pos>>
      BY <2>1 DEF AtomTerm, Writ, Spelled, Mark
    <3> QED BY <2>1, <3>1, AtomWrites
  <2>2. CASE AtomEmpty
    <3>1. Writ(pos) = << >>
      BY <2>2 DEF AtomEmpty, Writ, Spelled
    <3> QED BY <2>2, <3>1, AtomWrites
  <2>3. CASE ElemPost
    BY <2>3, ElemPostWrit, ElemWrites DEF Tied
  <2>4. CASE CloseAlts /\ KindAt(pos) = "ALT"
    <3>1. Writ(pos) = <<0>>
      BY <2>4 DEF Writ, Spelled, Mark
    <3> QED BY <2>4, <3>1, CloseAltsWrites
  <2> QED BY <2>1, <2>2, <2>3, <2>4
<1> QED BY <1>1, <1>2, <1>3, <1>4, NextGathered

\* The grammar opens: nothing read, nothing built.
LEMMA OpenGbnfGathers ==
  ASSUME FInv, Spelt, FInv', Gathered, OpenGbnf
  PROVE  GatheredOn
<1> DEFINE f == [Top EXCEPT !.node = Fresh]
<1>1. Top.rule = "gbnf" /\ pos' = pos /\ (stack' = Stay(f) \/ stack' = PushRule(f, "prod"))
  BY DEF OpenGbnf, At
<1>2. stack \in Seq(Frames) /\ stack # << >> /\ Len(stack) \in Nat \ {0} /\ Fresh \in Nat
  BY TopFrame, TopFacts DEF FInv, IInv, TypeOK, StackShape
<1>3. f \in Frames /\ f.rule = "gbnf"
  BY <1>1, <1>2, TopAs DEF Undef
<1>4. Idle(Top) /\ Idle(stack[Len(stack)])
  BY <1>1 DEF Idle, Top
<1>5. Idle(stack'[Len(stack')])
  <2>1. Closed(f).rule = "gbnf" /\ "prod" \in Rules
    BY <1>3, ClosedIs DEF Rules
  <2>2. CASE stack' = Stay(f)
    <3>1. stack'[Len(stack')] = Closed(f)
      <4> HIDE DEF f
      <4> QED BY <1>2, <1>3, <2>2, StayFrames DEF Closed
    <3> QED BY <2>1, <3>1 DEF Idle
  <2>3. CASE stack' = PushRule(f, "prod")
    <3>1. stack'[Len(stack')] = NewFrame("prod", f.node)
      <4> HIDE DEF f
      <4> QED BY <1>2, <1>3, <2>1, <2>3, PushFrames
    <3> QED BY <3>1 DEF Idle, NewFrame
  <2> QED BY <1>1, <2>2, <2>3
<1>6. Told(heap', Yield', stack') = Told(heap, Yield, stack)
  <2>1. Tells(<< >>)
    BY OpenListWrites DEF Writes
  <2>2. Told(heap, Yield, stack) \in Texts
    BY TellsNow, TextsMade
  <2> QED BY <2>1, <2>2, TextsNone DEF Tells
<1> QED BY <1>1, <1>4, <1>5, <1>6 DEF Gathered, GatheredOn, Gathers

\* `NM ::=`: a production begins, with nothing read but its name.
LEMMA OpenProdGathers ==
  ASSUME FInv, Spelt, FInv', Gathered, OpenProd
  PROVE  GatheredOn
<1> DEFINE f == [Top EXCEPT !.tok = pos]
           n == Len(stack)
<1>1. /\ Top.rule = "prod" /\ Top.phase = "open" /\ ProdAt(pos)
      /\ stack' = PushRule(f, "alts") /\ pos' = pos + 2
  BY DEF OpenProd, At
<1>2. /\ TypeOK /\ pos \in Nat \ {0} /\ pos \in Nat /\ pos \in Positions /\ pos + 1 \in Positions
      /\ KindAt(pos) = "NM" /\ KindAt(pos + 1) = "DEF" /\ ~ProdAt(pos + 1)
      /\ Len(input) \in Nat
  <2>1. KindAt(pos) = "NM" /\ KindAt(pos + 1) = "DEF"
    BY <1>1 DEF ProdAt
  <2>2. TypeOK
    BY DEF FInv, IInv
  <2>3. pos \in Positions /\ pos \in Nat \ {0} /\ Len(input) \in Nat
    BY <2>1, <2>2, TokensAhead
  <2>4. pos + 1 \in Positions
    BY <2>1 DEF KindAt, Positions
  <2>5. ~ProdAt(pos + 1)
    BY <2>1 DEF ProdAt
  <2> QED BY <2>1, <2>2, <2>3, <2>4, <2>5
<1>3. f \in Frames /\ f.tok = pos /\ f.rule = "prod"
  BY <1>1, <1>2, TopAs
<1>4. n = 2 /\ stack \in Seq(Frames) /\ stack # << >> /\ stack[n] = Top
  <2>1. n \in Nat \ {0} /\ Top.rule = RuleAt(n) /\ stack \in Seq(Frames) /\ Shaped(stack)
    BY TopFrame DEF FInv, IInv, TypeOK, StackShape
  <2>2. \A m \in Nat \ {0} : RuleAt(m) = "prod" => m = 2
    BY DEF RuleAt
  <2> QED BY <1>1, <2>1, <2>2 DEF Top
<1>5. Len(stack') = 3 /\ stack'[2].tok = pos /\ ~Idle(stack'[Len(stack')]) /\ ~InGroup(stack')
  <2>1. "alts" \in Rules
    BY DEF Rules
  <2>2. Len(stack') = n + 1 /\ stack'[n] = Closed(f) /\ stack'[n + 1] = NewFrame("alts", f.node)
    <3> HIDE DEF f
    <3> QED BY <1>1, <1>3, <1>4, <2>1, PushFrames DEF Closed
  <2>3. Closed(f).tok = pos
    BY <1>3, ClosedIs
  <2>4. Len(stack') = 3
    BY <1>4, <2>2
  <2> QED BY <1>4, <2>2, <2>3, <2>4 DEF Idle, NewFrame, InGroup
<1>6. Told(heap, Yield, stack) = Sift(Solid(pos), pos - 1)
  <2>1. Idle(stack[Len(stack)])
    BY <1>1, <1>4 DEF Idle
  <2> QED BY <1>2, <2>1 DEF Gathered, Gathers
<1>7. Writ(pos) = <<pos>> /\ Writ(pos + 1) = << >>
  BY <1>2 DEF Writ, Spelled, Mark
<1>8. Told(heap', Yield', stack') = Sift(Solid(pos), (pos + 2) - 1)
  <2>1. Told(heap', Yield', stack') = Sift(Solid(pos), pos - 1) ++ Writ(pos)
    BY <1>6, <1>7, OpenOnWrites DEF Writes, Tells
  <2>2. /\ Sift(Solid(pos), (pos + 1) - 1) = Sift(Solid(pos), pos - 1) ++ Writ(pos)
        /\ Sift(Solid(pos), pos - 1) \in Texts /\ Writ(pos) \in Texts
    BY <1>2, SiftOn
  <2>3. Sift(Solid(pos), ((pos + 1) + 1) - 1) = Sift(Solid(pos), (pos + 1) - 1) ++ Writ(pos + 1)
    <3>1. pos <= pos + 1
      BY <1>2
    <3> QED BY <1>2, <3>1, SiftOn
  <2>4. (Sift(Solid(pos), pos - 1) ++ Writ(pos)) ++ << >> = Sift(Solid(pos), pos - 1) ++ Writ(pos)
    BY <2>2, TextsMade, TextsNone
  <2>5. ((pos + 1) + 1) - 1 = (pos + 2) - 1
    BY <1>2
  <2> QED BY <1>7, <2>1, <2>2, <2>3, <2>4, <2>5
<1>9. Net(pos, pos) = 0 /\ Net(pos, pos + 1) = 0 /\ Net(pos, pos + 2) = 0
  <2>1. Net(pos, pos) = 0
    BY <1>2, NetNone
  <2>2. Net(pos, pos + 1) = 0
    <3>1. pos <= pos
      BY <1>2
    <3> QED BY <1>2, <2>1, <3>1, NetNext
  <2>3. Net(pos, (pos + 1) + 1) = 0
    <3>1. pos <= pos + 1 /\ pos + 1 \in Nat
      BY <1>2
    <3> QED BY <1>2, <2>2, <3>1, NetNext
  <2>4. (pos + 1) + 1 = pos + 2
    BY <1>2
  <2> QED BY <2>1, <2>2, <2>3, <2>4
<1>10. Level(pos, pos + 2)
  <2>1. \A q \in pos .. pos + 2 : q = pos \/ q = pos + 1 \/ q = pos + 2
    BY <1>2
  <2>2. \A q \in pos .. pos + 2 : Net(pos, q) >= 0
    BY <1>9, <2>1
  <2>3. \A q \in pos + 1 .. (pos + 2) - 1 : q = pos + 1
    BY <1>2
  <2>4. Same(pos, (pos + 2) - 1)
    BY <1>1, <1>2, <2>3 DEF Same
  <2> QED BY <1>2, <2>2, <2>4 DEF Level
<1>11. Around(heap', Yield', stack', pos + 2)
  <2>1. pos + 2 \in pos + 2 .. pos + 2
    BY <1>2
  <2> QED BY <1>5, <1>8, <1>9, <2>1 DEF Around
<1> QED BY <1>1, <1>5, <1>10, <1>11 DEF GatheredOn, Gathers

\* The production is complete, and so is what it abandoned.
LEMMA CloseProdGathers ==
  ASSUME FInv, Spelt, FInv', Placed, Gathered, CloseProd
  PROVE  GatheredOn
<1> DEFINE b == stack[2].tok
<1>1. /\ Top.rule = "prod" /\ Top.phase = "close" /\ pos' = pos /\ Top.node \in Nat
      /\ \/ stack' = [stack EXCEPT ![Len(stack)] = NewFrame("prod", Top.node)]
         \/ stack' = PopRule(Top.node)
  BY TopFacts DEF CloseProd, At
<1>2. Len(stack) = 2 /\ stack \in Seq(Frames) /\ stack[2] = Top /\ stack[Len(stack)] = Top
  <2>1. Len(stack) \in Nat \ {0} /\ Top.rule = RuleAt(Len(stack)) /\ stack \in Seq(Frames)
    BY TopFrame DEF FInv, IInv, TypeOK, StackShape
  <2>2. \A m \in Nat \ {0} : RuleAt(m) = "prod" => m = 2
    BY DEF RuleAt
  <2> QED BY <1>1, <2>1, <2>2 DEF Top
<1>3. Idle(stack'[Len(stack')])
  <2>1. CASE stack' = [stack EXCEPT ![Len(stack)] = NewFrame("prod", Top.node)]
    BY <1>2, <2>1 DEF Idle, NewFrame
  <2>2. CASE stack' = PopRule(Top.node)
    <3>1. Top'.rule = "gbnf"
      BY <1>1, <2>2, LeftRule
    <3> QED BY <3>1 DEF Idle, Top
  <2> QED BY <1>1, <2>1, <2>2
<1>4. Level(b, pos) /\ Around(heap, Yield, stack, pos)
  <2>1. ~Idle(stack[Len(stack)]) /\ ~InGroup(stack)
    BY <1>1, <1>2 DEF Idle, InGroup
  <2> QED BY <2>1 DEF Gathered, Gathers
<1>5. Closing(pos)
  BY <1>1 DEF Placed, Placement, Expects
<1>6. Told(heap', Yield', stack') = Told(heap, Yield, stack)
  <2>1. Tells(<< >>)
    BY CloseProdWrites DEF Writes, Placed
  <2>2. Told(heap, Yield, stack) \in Texts
    BY TellsNow, TextsMade
  <2> QED BY <2>1, <2>2, TextsNone DEF Tells
<1>7. ASSUME KindAt(pos) # "RP" PROVE Told(heap, Yield, stack) = Sift(Solid(pos), pos - 1)
  <2>1. Rest(pos)
    BY <1>5, <1>7 DEF Closing, Rest
  <2>2. TypeOK /\ pos \in Nat /\ pos <= Len(input) + 1
    BY TokensAhead DEF FInv, IInv
  <2>3. PICK t \in b + 2 .. pos :
          /\ Net(b, t) = 0 /\ (t = pos \/ (Rest(pos) /\ Dropped(b, t, pos)))
          /\ Told(heap, Yield, stack) = Sift(Solid(b), t - 1)
    BY <1>4 DEF Around
  <2> HIDE DEF b
  <2> QED BY <1>4, <2>1, <2>2, <2>3, ProductionSifted
<1> QED BY <1>1, <1>3, <1>6, <1>7 DEF GatheredOn, Gathers

\* Everything read off the tokens stays as it is while the tokens do.
LEMMA SameReading ==
  ASSUME input' = input
  PROVE  /\ \A K, n : Sift(K, n)' = Sift(K, n)
         /\ \A s : Solid(s)' = Solid(s)
         /\ \A s, p : Net(s, p)' = Net(s, p) /\ Level(s, p)' = Level(s, p)
         /\ \A s, t, p : Dropped(s, t, p)' = Dropped(s, t, p)
         /\ \A i : Rest(i)' = Rest(i) /\ KindAt(i)' = KindAt(i)
         /\ ExpectedYield' = ExpectedYield
<1>1. \A i : KindAt(i)' = KindAt(i) /\ ProdAt(i)' = ProdAt(i)
  BY SameTokens
<1>2. \A i : Mark(i)' = Mark(i)
  BY <1>1 DEF Mark
<1>3. \A K, n : Sift(K, n)' = Sift(K, n)
  BY <1>2 DEF Sift
<1>4. \A kind, from, to : Count(kind, from, to)' = Count(kind, from, to)
  BY <1>1 DEF Count
<1>5. \A i : ProdStart(i)' = ProdStart(i) /\ ProdEnd(i)' = ProdEnd(i)
  BY <1>1 DEF ProdStart, ProdEnd
<1>6. \A i : Unclosed(i)' = Unclosed(i)
  BY <1>1, <1>4, <1>5 DEF Unclosed
<1>7. \A i : Abandoned(i)' = Abandoned(i)
  BY <1>5, <1>6 DEF Abandoned
<1>8. \A i : Spelled(i)' = Spelled(i)
  BY <1>1 DEF Spelled
<1>9. \A s : Solid(s)' = Solid(s)
  BY <1>7, <1>8 DEF Solid, Positions
<1>10. \A s, p : Net(s, p)' = Net(s, p)
  BY <1>4 DEF Net
<1>11. \A s, p : Level(s, p)' = Level(s, p)
  BY <1>1, <1>10 DEF Level, Same, Positions
<1>12. \A s, t, p : Dropped(s, t, p)' = Dropped(s, t, p)
  BY <1>1, <1>10 DEF Dropped
<1>13. \A i : Rest(i)' = Rest(i)
  BY <1>1 DEF Rest
<1>14. \A i : Kept(i)' = Kept(i)
  BY <1>7, <1>8 DEF Kept
<1>15. ExpectedYield' = ExpectedYield
  BY <1>3, <1>14 DEF ExpectedYield, Positions
<1> QED BY <1>1, <1>3, <1>9, <1>10, <1>11, <1>12, <1>13, <1>15

\* At the end the grammar's list spells every token the tree must hold.
LEMMA CloseGbnfYields ==
  ASSUME FInv, Spelt, FInv', Placed, Tied(heap, stack), decodeErr = 0 => Gathered, CloseGbnf
  PROVE  YieldExact'
<1>1. /\ Top.rule = "gbnf" /\ Top.phase = "close" /\ KindAt(pos) = "ZZ"
      /\ heap' = heap /\ input' = input /\ stack' = stack
      /\ outcome' = Ended(IF heap[Top.node].kids = << >> THEN "empty" ELSE "ok", pos)
  BY DEF CloseGbnf, At
<1>2. /\ Len(stack) = 1 /\ stack[1] = Top /\ stack[Len(stack)] = Top /\ Top \in Frames
      /\ (Top.grouped => Top.rule = "atom")
  <2>1. Len(stack) \in Nat \ {0} /\ Top.rule = RuleAt(Len(stack)) /\ Top \in Frames
        /\ (Top.grouped => Top.rule = "atom")
    BY TopFrame DEF FInv, IInv, TypeOK, StackShape
  <2>2. \A m \in Nat \ {0} : RuleAt(m) = "gbnf" => m = 1
    BY DEF RuleAt
  <2> QED BY <1>1, <2>1, <2>2 DEF Top
<1>3. Top.node = 1
  BY <1>1, <1>2 DEF Tied, Rooted
<1>4. ASSUME decodeErr = 0 PROVE Yield[1] = ExpectedYield
  <2>1. Told(heap, Yield, stack) = Sift(Solid(pos), pos - 1)
    <3>1. Idle(stack[Len(stack)])
      BY <1>1, <1>2 DEF Idle
    <3> QED BY <1>1, <1>4, <3>1 DEF Gathered, Gathers
  <2>2. pos = Len(input) + 1 /\ Len(input) \in Nat /\ Positions = 1 .. Len(input)
    <3>1. TypeOK
      BY DEF FInv, IInv
    <3> QED BY <1>1, <3>1, TokensAhead
  <2>3. Solid(pos) = {i \in Positions : Kept(i)}
    <3>1. \A i \in Positions : i < pos
      BY <2>2
    <3> QED BY <3>1 DEF Solid, Kept
  <2>4. Told(heap, Yield, stack) = ExpectedYield
    <3>1. pos - 1 = Len(input)
      BY <2>2
    <3> QED BY <2>1, <2>3, <3>1 DEF ExpectedYield
  <2>5. Told(heap, Yield, stack) = Yield[1]
    <3>1. Told(heap, Yield, stack) = Own(heap, Yield, Top) ++ Given(Yield, Top)
      BY <1>2, StandsNow, OneTold
    <3>2. Own(heap, Yield, Top) = Filled(heap, Yield, 1) /\ Given(Yield, Top) = << >>
      BY <1>1, <1>2, <1>3, OwnIs DEF Lists
    <3>3. Is(heap, 1, "prods")
      BY <1>1, <1>3, TopFacts DEF TopHolds
    <3>4. Yield[1] \in Texts
      BY <3>3 DEF Is, Spelt, Spells
    <3>5. Filled(heap, Yield, 1) = Yield[1]
      <4>1. Gap(heap[1].kids, Separator(heap[1].kind)) = << >>
        BY <3>3 DEF Gap, Separator, Is
      <4> QED BY <3>4, <4>1, TextsNone DEF Filled
    <3> QED BY <3>1, <3>2, <3>4, <3>5, TextsNone
  <2> QED BY <2>4, <2>5
<1>5. outcome'.kind = "ok" => decodeErr = 0
  BY <1>1 DEF Ended
<1>6. Yield' = Yield
  BY <1>1, HeapKept
<1>7. ExpectedYield' = ExpectedYield
  BY <1>1, SameReading
<1> QED BY <1>4, <1>5, <1>6, <1>7 DEF YieldExact

LEMMA GatheredNext ==
  ASSUME input' = input, GatheredOn
  PROVE  Gathered'
<1>1. Within(heap', Yield', stack', pos') => Within(heap, Yield, stack, pos)'
  BY SameReading DEF Within
<1>2. Around(heap', Yield', stack', pos') => Around(heap, Yield, stack, pos)'
  BY SameReading DEF Around
<1> QED BY <1>1, <1>2, SameReading DEF GatheredOn, Gathered, Gathers

-----------------------------------------------------------------------------
(* The invariant.                                                          *)

YInv ==
  /\ BInv /\ Spelt /\ Tied(heap, stack)
  /\ Running /\ decodeErr = 0 => Gathered
  /\ YieldExact

LEMMA InitYInv == Init => YInv
<1> SUFFICES ASSUME Init PROVE YInv
  OBVIOUS
<1>1. BInv
  BY InitBInv
<1>2. /\ heap = << >> /\ stack = <<NewFrame("gbnf", Undef)>> /\ pos = 1
      /\ outcome.kind = "running"
  BY DEF Init
<1>3. NewFrame("gbnf", Undef).phase = "open" /\ NewFrame("gbnf", Undef).rule = "gbnf"
  BY DEF NewFrame
<1>4. Spelt
  <2>1. DOMAIN heap = {}
    BY <1>2
  <2>2. Whole(heap)
    BY <2>1 DEF Whole
  <2> DEFINE y == [r \in DOMAIN heap |-> YieldOf(heap, << >>, r)]
  <2>3. y \in [DOMAIN heap -> Texts] /\ Reads(heap, y)
    BY <2>1 DEF Reads
  <2>4. ASSUME NEW e, Reads(heap, e) PROVE e = y
    BY <2>1, <2>4 DEF Reads
  <2>5. Spells(heap, y)
    <3> HIDE DEF y
    <3> QED BY <2>3, <2>4 DEF Spells
  <2>6. Yield = y
    <3> HIDE DEF y
    <3> QED BY <2>5, YieldIs
  <2> HIDE DEF y
  <2> QED BY <2>2, <2>5, <2>6 DEF Spelt
<1>5. Tied(heap, stack)
  BY <1>2, <1>3 DEF Tied, Linked, Rooted
<1>6. Gathered
  <2>1. FInv /\ Len(stack) = 1 /\ stack[1] = NewFrame("gbnf", Undef) /\ stack[Len(stack)] = stack[1]
    BY <1>1, <1>2 DEF BInv
  <2>2. Told(heap, Yield, stack) = Own(heap, Yield, stack[1]) ++ Given(Yield, stack[1])
    BY <1>4, <2>1, StandsNow, OneTold
  <2>3. Own(heap, Yield, stack[1]) = << >> /\ Given(Yield, stack[1]) = << >>
    BY <1>3, <2>1 DEF Own, Given
  <2>4. Told(heap, Yield, stack) = << >>
    BY <2>2, <2>3, TextsMade, TextsNone
  <2>5. Sift(Solid(pos), pos - 1) = << >>
    <3>1. pos - 1 = 0 /\ 0 \in Nat
      BY <1>2
    <3> QED BY <3>1, SiftNext
  <2>6. Idle(stack[Len(stack)])
    BY <1>3, <2>1 DEF Idle
  <2> QED BY <2>4, <2>5, <2>6 DEF Gathered, Gathers
<1>7. YieldExact
  BY <1>2 DEF YieldExact
<1> QED BY <1>1, <1>4, <1>5, <1>6, <1>7 DEF YInv

\* Every step that goes on with the parse leaves what the heap spells.
LEMMA StepSpelt ==
  ASSUME FInv, FInv', Placed, Spelt, Tied(heap, stack), Step
  PROVE  Spelt'
<1>1. Linked(stack) /\ Shared(stack)
  BY DEF Tied, Placed
<1>2. CASE OpenGbnf \/ OpenAlts \/ OpenSeq
  BY <1>2, OpenListWrites DEF Writes
<1>3. CASE OpenProd \/ OpenElem \/ AtomGroup
  BY <1>3, OpenOnWrites DEF Writes
<1>4. CASE AtomTerm \/ AtomEmpty
  BY <1>4, AtomWrites DEF Writes
<1>5. CASE CloseGroup \/ CloseAtom
  BY <1>5, CloseGroupWrites, CloseAtomWrites DEF Writes
<1>6. CASE ElemPlain \/ ElemPost
  BY <1>1, <1>6, ElemWrites DEF Writes
<1>7. CASE CloseSeq \/ CloseAlts
  BY <1>7, CloseSeqWrites, CloseAltsWrites DEF Writes
<1>8. CASE CloseProd
  BY <1>1, <1>8, CloseProdWrites DEF Writes
<1>9. CASE AtomBad \/ ElemPostBad \/ CloseGbnf \/ Unexpected
  <2>1. heap' = heap
    BY <1>9 DEF AtomBad, ElemPostBad, CloseGbnf, Unexpected
  <2> QED BY <2>1, HeapKept
<1> QED BY <1>2, <1>3, <1>4, <1>5, <1>6, <1>7, <1>8, <1>9 DEF Step

LEMMA StepTied ==
  ASSUME FInv, Placed, Tied(heap, stack), Step
  PROVE  Tied(heap', stack')
<1>1. /\ Top \in Frames /\ Top.node \in Nat /\ Fresh \in Nat /\ Undef \in Nat /\ pos \in Nat
      /\ (Top.rule = "gbnf" <=> Len(stack) = 1)
      /\ {"prod", "alts", "seq", "elem", "atom"} \subseteq Rules
  BY TopFacts, Current DEF Undef, Rules
<1>2. ASSUME NEW f \in Frames, f.rule = Top.rule, Top.rule # "gbnf",
             Top.rule = "elem" => f.node = Top.node,
             stack' = Stay(f) \/ \E rule \in Rules : stack' = PushRule(f, rule)
      PROVE  Tied(heap', stack')
  BY <1>1, <1>2, StayTied
<1>3. ASSUME Top.rule # "gbnf", NEW node \in Nat, stack' = PopRule(node)
      PROVE  Tied(heap', stack')
  BY <1>3, PopTied
<1>4. /\ \A node \in Nat : [Top EXCEPT !.node = node] \in Frames
                           /\ [Top EXCEPT !.node = node].rule = Top.rule
      /\ [Top EXCEPT !.tok = pos] \in Frames /\ [Top EXCEPT !.tok = pos].rule = Top.rule
      /\ [Top EXCEPT !.node = Undef, !.tok = pos, !.grouped = TRUE] \in Frames
      /\ [Top EXCEPT !.node = Undef, !.tok = pos, !.grouped = TRUE].rule = Top.rule
  BY <1>1, TopAs
<1>5. CASE OpenGbnf
  <2> DEFINE f == [Top EXCEPT !.node = Fresh]
  <2>1. Top.rule = "gbnf" /\ Top.phase = "open" /\ Len(stack) = 1 /\ stack[1] = Top
        /\ (stack' = Stay(f) \/ stack' = PushRule(f, "prod"))
    BY <1>1, <1>5 DEF OpenGbnf, At, Top
  <2>2. heap = << >> /\ Fresh = 1
    BY <2>1 DEF Tied, Rooted, Fresh
  <2>3. f \in Frames /\ f.rule = "gbnf" /\ f.node = 1
    BY <1>1, <2>1, <2>2, TopAs
  <2>4. stack \in Seq(Frames) /\ stack # << >>
    BY TopFrame DEF FInv, IInv, TypeOK, StackShape
  <2> HIDE DEF f
  <2>5. Closed(f).phase = "close" /\ Closed(f).node = 1 /\ Closed(f).rule = "gbnf"
    BY <2>3, ClosedIs
  <2>6. /\ Len(stack') \in {1, 2} /\ stack'[1] = Closed(f)
        /\ Len(stack') = 2 => stack'[2] = NewFrame("prod", f.node)
    <3>1. CASE stack' = Stay(f)
      BY <2>1, <2>3, <2>4, <3>1, StayFrames DEF Closed
    <3>2. CASE stack' = PushRule(f, "prod")
      BY <1>1, <2>1, <2>3, <2>4, <3>2, PushFrames DEF Closed
    <3> QED BY <2>1, <3>1, <3>2
  <2>7. Rooted(heap', stack')
    BY <2>5, <2>6 DEF Rooted
  <2>8. Linked(stack')
    <3>1. \A n \in {1, 2} : \A i \in 2 .. n : i = 2 /\ n = 2
      OBVIOUS
    <3>2. NewFrame("prod", f.node).rule # "elem"
      BY DEF NewFrame
    <3> QED BY <2>6, <3>1, <3>2 DEF Linked
  <2> QED BY <2>7, <2>8 DEF Tied
<1>6. CASE OpenProd
  BY <1>1, <1>2, <1>4, <1>6 DEF OpenProd, At
<1>7. CASE OpenAlts \/ OpenSeq
  BY <1>1, <1>2, <1>4, <1>7 DEF OpenAlts, OpenSeq, At
<1>8. CASE OpenElem
  BY <1>1, <1>2, <1>8 DEF OpenElem, At
<1>9. CASE AtomGroup
  BY <1>1, <1>2, <1>4, <1>9 DEF AtomGroup, At
<1>10. CASE AtomTerm \/ AtomEmpty \/ AtomBad
  <2>1. CASE AtomTerm \/ AtomEmpty
    BY <1>1, <1>2, <1>4, <2>1 DEF AtomTerm, AtomEmpty, At
  <2>2. CASE AtomBad
    BY <1>1, <1>2, <1>4, <2>2 DEF AtomBad, At
  <2> QED BY <1>10, <2>1, <2>2
<1>11. CASE CloseGroup \/ CloseAtom
  BY <1>1, <1>3, <1>11 DEF CloseGroup, CloseAtom, At
<1>12. CASE ElemPlain \/ ElemPost \/ ElemPostBad
  BY <1>1, <1>3, <1>12 DEF ElemPlain, ElemPost, ElemPostBad, At
<1>13. CASE CloseSeq \/ CloseAlts
  BY <1>1, <1>2, <1>3, <1>13 DEF CloseSeq, CloseAlts, At
<1>14. CASE CloseProd
  BY <1>1, <1>14, PopTied DEF CloseProd, At
<1>15. CASE CloseGbnf \/ Unexpected
  BY <1>15 DEF CloseGbnf, Unexpected
<1> QED BY <1>5, <1>6, <1>7, <1>8, <1>9, <1>10, <1>11, <1>12, <1>13, <1>14, <1>15 DEF Step

LEMMA StepGathers ==
  ASSUME FInv, FInv', Placed, Spelt, Tied(heap, stack), decodeErr = 0 => Gathered, Step,
         Running', decodeErr' = 0
  PROVE  Gathered'
<1>1. pos # 0
  BY Current
<1>2. ~(AtomBad \/ ElemPostBad \/ CloseGbnf \/ Unexpected)
  <2>1. CASE AtomBad \/ ElemPostBad
    BY <1>1, <2>1 DEF AtomBad, ElemPostBad, FirstError, Running
  <2>2. CASE CloseGbnf \/ Unexpected
    BY <2>2 DEF CloseGbnf, Unexpected, Ended, Running
  <2> QED BY <2>1, <2>2
<1>3. decodeErr' = decodeErr /\ input' = input
  BY <1>2 DEF Step, OpenGbnf, OpenProd, OpenAlts, OpenSeq, OpenElem, AtomTerm, AtomEmpty, AtomGroup,
              CloseGroup, CloseAtom, ElemPlain, ElemPost, CloseSeq, CloseAlts, CloseProd
<1>4. Gathered /\ decodeErr = 0
  BY <1>3
<1>5. CASE OpenGbnf
  BY <1>4, <1>5, OpenGbnfGathers, <1>3, GatheredNext
<1>6. CASE OpenProd
  BY <1>4, <1>6, OpenProdGathers, <1>3, GatheredNext
<1>7. CASE OpenAlts \/ OpenSeq \/ OpenElem \/ ElemPlain \/ CloseSeq \/ (CloseAlts /\ KindAt(pos) # "ALT")
  BY <1>4, <1>7, PlainGathers, <1>3, GatheredNext
<1>8. CASE AtomTerm \/ AtomEmpty \/ ElemPost \/ (CloseAlts /\ KindAt(pos) = "ALT")
  BY <1>4, <1>8, ReadGathers, <1>3, GatheredNext
<1>9. CASE AtomGroup
  BY <1>4, <1>9, AtomGroupGathers, <1>3, GatheredNext
<1>10. CASE CloseGroup
  BY <1>4, <1>10, CloseGroupGathers, <1>3, GatheredNext
<1>11. CASE CloseAtom
  BY <1>4, <1>11, CloseAtomGathers, <1>3, GatheredNext
<1>12. CASE CloseProd
  BY <1>4, <1>12, CloseProdGathers, <1>3, GatheredNext
<1> QED BY <1>2, <1>5, <1>6, <1>7, <1>8, <1>9, <1>10, <1>11, <1>12 DEF Step

LEMMA StepYields ==
  ASSUME FInv, FInv', Placed, Spelt, Tied(heap, stack), decodeErr = 0 => Gathered, Running, Step
  PROVE  YieldExact'
<1>1. CASE CloseGbnf
  BY <1>1, CloseGbnfYields
<1>2. CASE ~CloseGbnf
  <2>1. outcome' = outcome \/ outcome'.kind \in {"decode", "unexpected"}
    BY <1>2 DEF Step, OpenGbnf, OpenProd, OpenAlts, OpenSeq, OpenElem, AtomTerm, AtomEmpty, AtomBad,
                AtomGroup, CloseGroup, CloseAtom, ElemPlain, ElemPost, ElemPostBad, CloseSeq,
                CloseAlts, CloseProd, Unexpected, Ended
  <2>2. outcome.kind = "running"
    BY DEF Running
  <2> QED BY <2>1, <2>2 DEF YieldExact
<1> QED BY <1>1, <1>2

LEMMA StepYInv == YInv /\ [Next]_vars => YInv'
<1> SUFFICES ASSUME YInv, [Next]_vars PROVE YInv'
  OBVIOUS
<1>1. BInv' /\ FInv /\ FInv' /\ Spelt /\ Tied(heap, stack)
  BY StepBInv DEF YInv, BInv
<1>2. CASE Step
  <2>1. Running
    BY <1>2 DEF Step, OpenGbnf, OpenProd, OpenAlts, OpenSeq, OpenElem, AtomTerm, AtomEmpty, AtomBad,
                AtomGroup, CloseGroup, CloseAtom, ElemPlain, ElemPost, ElemPostBad, CloseSeq,
                CloseAlts, CloseProd, CloseGbnf, Unexpected, NoAlternative, At
  <2>2. Placed /\ (decodeErr = 0 => Gathered)
    BY <2>1 DEF YInv, BInv
  <2>3. Spelt'
    BY <1>1, <1>2, <2>2, StepSpelt
  <2>4. Tied(heap, stack)'
    BY <1>1, <1>2, <2>2, StepTied
  <2>5. Running' /\ decodeErr' = 0 => Gathered'
    BY <1>1, <1>2, <2>2, StepGathers
  <2>6. YieldExact'
    BY <1>1, <1>2, <2>1, <2>2, StepYields
  <2> QED BY <1>1, <2>3, <2>4, <2>5, <2>6 DEF YInv
<1>3. CASE Finished \/ UNCHANGED vars
  <2>1. /\ input' = input /\ pos' = pos /\ stack' = stack /\ heap' = heap
        /\ decodeErr' = decodeErr /\ outcome' = outcome
    BY <1>3 DEF Finished, vars
  <2>2. Spelt' /\ Yield' = Yield
    BY <1>1, <2>1, HeapKept
  <2>3. Tied(heap, stack)'
    BY <1>1, <2>1
  <2>4. Running' /\ decodeErr' = 0 => Gathered'
    <3>1. Running' <=> Running
      BY <2>1 DEF Running
    <3>2. Gathered => GatheredOn
      BY <2>1, <2>2 DEF Gathered, GatheredOn
    <3> QED BY <2>1, <3>1, <3>2, GatheredNext DEF YInv
  <2>5. YieldExact'
    BY <2>1, <2>2, SameReading DEF YInv, YieldExact
  <2> QED BY <1>1, <2>2, <2>3, <2>4, <2>5 DEF YInv
<1> QED BY <1>2, <1>3 DEF Next

\* Every array the rules fill, every span they record and every push through
\* an inherited node or a shared array lands where the source has it: an
\* accepted grammar's productions, written back out, are its tokens.
THEOREM YieldRight == Spec => []YieldExact
<1>1. YInv => YieldExact
  BY DEF YInv
<1> QED BY InitYInv, StepYInv, <1>1, PTL DEF Spec
=============================================================================
