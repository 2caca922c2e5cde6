--------------------------------- MODULE Iteration ---------------------------------
(***************************************************************************)
(* What a loop over a vector computes.  Kept is SelectSeq with the         *)
(* elements that pass given as a set: what the code's filters and retains  *)
(* leave of a vector, written so that it can be reasoned about.            *)
(*                                                                         *)
(* The lemmas are what the proofs about such loops rest on: induction over *)
(* the naturals and over sequences, stated of the set of what fails so     *)
(* that no operator is a parameter; that the function a loop defines       *)
(* exists; what filtering and reversing do to each other; and what adding, *)
(* taking out and filtering leave of what is in a vector.                  *)
(***************************************************************************)
EXTENDS Integers, SequencesExt, SequenceTheorems, WellFoundedInduction, TLAPS

\* What the first i elements of s contribute.
KeptUpTo(s, S) ==
  LET kept[i \in 0 .. Len(s)] ==
        IF i = 0 THEN <<>>
        ELSE IF s[i] \in S THEN Append(kept[i - 1], s[i]) ELSE kept[i - 1]
  IN kept

\* The elements of s that are in S.
Kept(s, S) == KeptUpTo(s, S)[Len(s)]

---------------------------------------------------------------------------------
\* Induction over the naturals: what fails somewhere fails somewhere first.
LEMMA SmallestNat ==
  ASSUME NEW S \in SUBSET Nat, S # {}
  PROVE  \E n \in S : \A m \in S : n =< m
  <1> DEFINE R == OpToRel(<, Nat)
  <1>1. IsWellFoundedOn(R, Nat)
    BY NatLessThanWellFounded
  <1>2. \A x, y \in Nat : <<x, y>> \in R <=> x < y
    BY DEF OpToRel
  <1> HIDE DEF R
  <1>3. PICK x \in S : \A y \in S : ~ (<<y, x>> \in R)
    <2>1. S \subseteq Nat
      OBVIOUS
    <2>2. QED
      BY <1>1, <2>1, WFMin
  <1>4. \A n, m \in Nat : ~(m < n) => n =< m
    OBVIOUS
  <1>5. \A y \in S : x =< y
    BY <1>2, <1>3, <1>4
  <1>6. QED
    BY <1>5

\* Induction over sequences: a shortest one for which something fails is empty or
\* one longer than a sequence for which it holds.
LEMMA ShortestSeq ==
  ASSUME NEW X, NEW Bad \in SUBSET Seq(X), Bad # {}
  PROVE  \/ <<>> \in Bad
         \/ \E t \in Seq(X) \ Bad, e \in X : Append(t, e) \in Bad
  <1> DEFINE lengths == {n \in Nat : \E s \in Bad : Len(s) = n}
  <1>1. \A s \in Bad : Len(s) \in lengths
    BY LenProperties
  <1>2. PICK n \in lengths : \A m \in lengths : n =< m
    <2>1. lengths \in SUBSET Nat /\ lengths # {}
      BY <1>1
    <2> HIDE DEF lengths
    <2>2. QED
      BY <2>1, SmallestNat
  <1>3. PICK s \in Bad : Len(s) = n
    BY <1>2
  <1>4. CASE s = <<>>
    BY <1>4
  <1>5. CASE s # <<>>
    <2>1. PICK t \in Seq(X), e \in X : s = Append(t, e)
      BY <1>5, SequenceEmptyOrAppend
    <2>2. Len(s) = Len(t) + 1 /\ Len(t) \in Nat
      BY <2>1, AppendProperties, LenProperties
    <2>3. t \notin Bad
      <3>1. n = Len(t) + 1 /\ ~ (n =< Len(t))
        BY <1>3, <2>2
      <3>2. Len(t) \notin lengths
        BY <1>2, <3>1
      <3>3. QED
        BY <1>1, <3>2
    <2>4. QED
      BY <2>1, <2>3
  <1>6. QED
    BY <1>4, <1>5

---------------------------------------------------------------------------------
\* A loop of n turns that starts with b, turn i taking x to step[i][x], has its values.
LEMMA IterationExists ==
  ASSUME NEW D, NEW b \in D, NEW n \in Nat, NEW step \in [1 .. n -> [D -> D]]
  PROVE  \E f \in [0 .. n -> D] : f[0] = b /\ \A i \in 1 .. n : f[i] = step[i][f[i - 1]]
  <1> DEFINE Upto(m, f) == /\ f \in [0 .. m -> D] /\ f[0] = b
                           /\ \A i \in 1 .. m : f[i] = step[i][f[i - 1]]
             bad == {m \in Nat : m =< n /\ ~ \E f : Upto(m, f)}
  <1>1. bad = {}
    <2> SUFFICES ASSUME bad # {} PROVE FALSE
      OBVIOUS
    <2>1. PICK m \in bad : \A k \in bad : m =< k
      <3>1. bad \in SUBSET Nat
        OBVIOUS
      <3> HIDE DEF bad
      <3>2. QED
        BY <3>1, SmallestNat
    <2>2. m \in Nat /\ m =< n /\ ~ \E f : Upto(m, f)
      BY <2>1
    <2>3. CASE m = 0
      <3>1. Upto(0, [i \in 0 .. 0 |-> b])
        OBVIOUS
      <3>2. QED
        BY <2>2, <2>3, <3>1
    <2>4. CASE m # 0
      <3>1. m - 1 \in Nat /\ m - 1 =< n /\ ~ (m =< m - 1) /\ m \in 1 .. n
        BY <2>2, <2>4
      <3>2. PICK f : Upto(m - 1, f)
        BY <2>1, <3>1
      <3> DEFINE g == [i \in 0 .. m |-> IF i = m THEN step[m][f[m - 1]] ELSE f[i]]
      <3>3. f[m - 1] \in D /\ step[m][f[m - 1]] \in D
        BY <3>1, <3>2
      <3>4. g \in [0 .. m -> D] /\ g[0] = b
        <4>1. \A i \in 0 .. m : i # m => i \in 0 .. m - 1
          BY <2>2
        <4>2. QED
          BY <2>2, <2>4, <3>2, <3>3, <4>1
      <3>5. ASSUME NEW i \in 1 .. m
            PROVE  g[i] = step[i][g[i - 1]]
        <4>1. i - 1 \in 0 .. m - 1 /\ i - 1 \in 0 .. m /\ i - 1 # m
          BY <2>2
        <4>2. g[i - 1] = f[i - 1]
          BY <4>1
        <4>3. CASE i = m
          BY <4>2, <4>3
        <4>4. CASE i # m
          <5>1. i \in 1 .. m - 1 /\ i \in 0 .. m
            BY <2>2, <4>4
          <5>2. f[i] = step[i][f[i - 1]]
            BY <3>2, <5>1
          <5>3. QED
            BY <4>2, <4>4, <5>1, <5>2
        <4>5. QED
          BY <4>3, <4>4
      <3> HIDE DEF g
      <3>6. QED
        BY <2>2, <3>4, <3>5
    <2>5. QED
      BY <2>3, <2>4
  <1>2. \E f : Upto(n, f)
    <2> HIDE DEF Upto
    <2>1. n =< n
      OBVIOUS
    <2>2. QED
      BY <1>1, <2>1
  <1>3. QED
    BY <1>2

\* Its equations.
LEMMA KeptUpToStep ==
  ASSUME NEW X, NEW s \in Seq(X), NEW S
  PROVE  /\ KeptUpTo(s, S)[0] = <<>>
         /\ \A i \in 1 .. Len(s) :
              KeptUpTo(s, S)[i] = IF s[i] \in S THEN Append(KeptUpTo(s, S)[i - 1], s[i])
                                                ELSE KeptUpTo(s, S)[i - 1]
  <1> DEFINE n == Len(s)
             Turn(x, i) == IF s[i] \in S THEN Append(x, s[i]) ELSE x
             step == [i \in 1 .. n |-> [x \in Seq(X) |-> Turn(x, i)]]
             IsLoop(f) == f = [i \in 0 .. n |-> IF i = 0 THEN <<>> ELSE Turn(f[i - 1], i)]
  <1>1. n \in Nat /\ <<>> \in Seq(X)
    BY LenProperties, EmptySeq
  <1>2. step \in [1 .. n -> [Seq(X) -> Seq(X)]]
    BY ElementOfSeq, AppendProperties
  <1>3. \A x \in Seq(X), i \in 1 .. n : step[i][x] = Turn(x, i)
    OBVIOUS
  <1> HIDE DEF step, Turn
  <1>4. PICK f \in [0 .. n -> Seq(X)] :
          f[0] = <<>> /\ \A i \in 1 .. n : f[i] = step[i][f[i - 1]]
    <2> DEFINE D == Seq(X)
    <2>1. <<>> \in D /\ n \in Nat /\ step \in [1 .. n -> [D -> D]]
      BY <1>1, <1>2
    <2> HIDE DEF D, n
    <2>2. \E f \in [0 .. n -> D] :
            f[0] = <<>> /\ \A i \in 1 .. n : f[i] = step[i][f[i - 1]]
      BY <2>1, IterationExists, SMTT(60)
    <2>3. QED
      BY <2>2 DEF D
  <1>5. \A i \in 1 .. n : i - 1 \in 0 .. n /\ i \in 0 .. n /\ i # 0
    BY <1>1
  <1>6. \A i \in 1 .. n : f[i] = Turn(f[i - 1], i)
    BY <1>3, <1>4, <1>5
  <1>7. IsLoop(f)
    BY <1>1, <1>4, <1>6
  <1>8. KeptUpTo(s, S) = CHOOSE g : IsLoop(g)
    BY DEF KeptUpTo, Turn
  <1>9. IsLoop(KeptUpTo(s, S))
    <2> HIDE DEF IsLoop
    <2>1. QED
      BY <1>7, <1>8
  <1> DEFINE k == KeptUpTo(s, S)
  <1>10. k = [i \in 0 .. n |-> IF i = 0 THEN <<>> ELSE Turn(k[i - 1], i)]
    BY <1>9
  <1> HIDE DEF k, IsLoop
  <1>11. k[0] = <<>>
    BY <1>1, <1>10
  <1>12. \A i \in 1 .. n : k[i] = Turn(k[i - 1], i)
    BY <1>5, <1>10
  <1>13. QED
    BY <1>11, <1>12 DEF Turn, k

\* Filtering the empty sequence, and one that is longer by an element.
LEMMA KeptEmpty ==
  ASSUME NEW S
  PROVE  Kept(<<>>, S) = <<>>
  <1>1. \A X : \A s \in Seq(X) : KeptUpTo(s, S)[0] = <<>>
    BY KeptUpToStep
  <1>2. <<>> \in Seq({}) /\ Len(<<>>) = 0
    BY EmptySeq
  <1>3. KeptUpTo(<<>>, S)[0] = <<>>
    BY <1>1, <1>2
  <1>4. QED
    BY <1>2, <1>3 DEF Kept

LEMMA KeptAppend ==
  ASSUME NEW X, NEW s \in Seq(X), NEW e \in X, NEW S
  PROVE  Kept(Append(s, e), S) = IF e \in S THEN Append(Kept(s, S), e) ELSE Kept(s, S)
  <1> DEFINE l == Append(s, e)
             bad == {i \in Nat : i =< Len(s) /\ KeptUpTo(l, S)[i] # KeptUpTo(s, S)[i]}
  <1>1. /\ l \in Seq(X) /\ Len(s) \in Nat /\ Len(l) = Len(s) + 1
        /\ \A i \in 1 .. Len(s) : l[i] = s[i]
        /\ l[Len(l)] = e
    BY AppendProperties, LenProperties
  <1> HIDE DEF l
  <1>2. bad = {}
    <2> SUFFICES ASSUME bad # {} PROVE FALSE
      OBVIOUS
    <2>1. PICK n \in bad : \A m \in bad : n =< m
      <3>1. bad \in SUBSET Nat
        OBVIOUS
      <3> HIDE DEF bad
      <3>2. QED
        BY <3>1, SmallestNat
    <2>2. n # 0
      BY <1>1, KeptUpToStep
    <2>3. /\ n \in 1 .. Len(s) /\ n \in 1 .. Len(l)
          /\ n - 1 \in Nat /\ n - 1 =< Len(s) /\ ~ (n =< n - 1)
      BY <1>1, <2>2
    <2>4. KeptUpTo(l, S)[n - 1] = KeptUpTo(s, S)[n - 1]
      BY <2>1, <2>3
    <2>5. KeptUpTo(l, S)[n] = KeptUpTo(s, S)[n]
      BY <1>1, <2>3, <2>4, KeptUpToStep
    <2>6. QED
      BY <2>5
  <1>3. KeptUpTo(l, S)[Len(s)] = Kept(s, S)
    BY <1>1, <1>2 DEF Kept
  <1>4. Len(l) \in 1 .. Len(l) /\ Len(l) - 1 = Len(s)
    BY <1>1
  <1>5. Kept(l, S) = IF l[Len(l)] \in S THEN Append(KeptUpTo(l, S)[Len(s)], l[Len(l)])
                                        ELSE KeptUpTo(l, S)[Len(s)]
    BY <1>1, <1>4, KeptUpToStep DEF Kept
  <1>6. QED
    BY <1>1, <1>3, <1>5 DEF l

LEMMA KeptAppends ==
  ASSUME NEW X
  PROVE  \A s \in Seq(X) : \A e \in X : \A S :
           Kept(Append(s, e), S) = IF e \in S THEN Append(Kept(s, S), e) ELSE Kept(s, S)
  BY KeptAppend

LEMMA ConcatAppend ==
  ASSUME NEW X, NEW s \in Seq(X), NEW t \in Seq(X), NEW e \in X
  PROVE  s \o Append(t, e) = Append(s \o t, e)
  OBVIOUS

\* What is kept is a sequence of members of S.
LEMMA KeptType ==
  ASSUME NEW X, NEW s \in Seq(X), NEW S
  PROVE  Kept(s, S) \in Seq(X \cap S)
  <1> DEFINE bad == {t \in Seq(X) : Kept(t, S) \notin Seq(X \cap S)}
  <1>1. bad = {}
    <2> SUFFICES ASSUME bad # {} PROVE FALSE
      OBVIOUS
    <2>1. <<>> \notin bad
      BY KeptEmpty, EmptySeq
    <2>2. ASSUME NEW t \in Seq(X) \ bad, NEW e \in X
          PROVE  Append(t, e) \notin bad
      <3>1. Kept(t, S) \in Seq(X \cap S) /\ t \in Seq(X)
        OBVIOUS
      <3>2. Kept(Append(t, e), S) = IF e \in S THEN Append(Kept(t, S), e) ELSE Kept(t, S)
        BY <3>1, KeptAppends, Zenon
      <3>3. e \in S => Append(Kept(t, S), e) \in Seq(X \cap S)
        BY <3>1, AppendProperties
      <3>4. QED
        BY <3>1, <3>2, <3>3
    <2>3. bad \in SUBSET Seq(X)
      OBVIOUS
    <2> HIDE DEF bad
    <2>4. QED
      BY <2>1, <2>2, <2>3, ShortestSeq
  <1>2. QED
    BY <1>1

LEMMA KeptIn ==
  ASSUME NEW X, NEW s \in Seq(X), NEW S
  PROVE  Kept(s, S) \in Seq(X)
  <1>1. Kept(s, S) \in Seq(X \cap S) /\ X \cap S \subseteq X
    BY KeptType
  <1>2. QED
    BY <1>1, SeqMonotonic

\* Only the elements of the sequence matter for which of them pass.
LEMMA KeptAgree ==
  ASSUME NEW X, NEW s \in Seq(X), NEW S, NEW T, S \cap X = T \cap X
  PROVE  Kept(s, S) = Kept(s, T)
  <1> DEFINE bad == {t \in Seq(X) : Kept(t, S) # Kept(t, T)}
  <1>1. bad = {}
    <2> SUFFICES ASSUME bad # {} PROVE FALSE
      OBVIOUS
    <2>1. <<>> \notin bad
      BY KeptEmpty
    <2>2. ASSUME NEW t \in Seq(X) \ bad, NEW e \in X
          PROVE  Append(t, e) \notin bad
      <3>1. Kept(t, S) = Kept(t, T) /\ (e \in S <=> e \in T) /\ t \in Seq(X)
        OBVIOUS
      <3>2. Kept(Append(t, e), S) = IF e \in S THEN Append(Kept(t, S), e) ELSE Kept(t, S)
        BY <3>1, KeptAppends
      <3>3. Kept(Append(t, e), T) = IF e \in T THEN Append(Kept(t, T), e) ELSE Kept(t, T)
        BY <3>1, KeptAppends, Zenon
      <3>4. QED
        BY <3>1, <3>2, <3>3
    <2>3. bad \in SUBSET Seq(X)
      OBVIOUS
    <2> HIDE DEF bad
    <2>4. QED
      BY <2>1, <2>2, <2>3, ShortestSeq
  <1>2. QED
    BY <1>1

\* Which is the case when the set is drawn from the sequence itself.
LEMMA KeptOwn ==
  ASSUME NEW X, NEW s \in Seq(X), NEW S
  PROVE  Kept(s, S \cap ToSet(s)) = Kept(s, S)
  <1>1. s \in Seq(ToSet(s))
    <2>1. /\ Len(s) \in Nat /\ s \in [1 .. Len(s) -> X] /\ DOMAIN s = 1 .. Len(s)
      BY LenProperties
    <2>2. s \in [1 .. Len(s) -> ToSet(s)]
      BY <2>1 DEF ToSet
    <2>3. QED
      BY <2>1, <2>2, SeqDef
  <1> DEFINE own == ToSet(s)
             T == S \cap own
  <1>2. T \cap own = S \cap own
    OBVIOUS
  <1> HIDE DEF own, T
  <1>3. Kept(s, T) = Kept(s, S)
    BY <1>1, <1>2, KeptAgree DEF own
  <1>4. QED
    BY <1>3 DEF T, own

\* Two filters in a row are one.
LEMMA KeptTwice ==
  ASSUME NEW X, NEW s \in Seq(X), NEW S, NEW T
  PROVE  Kept(Kept(s, S), T) = Kept(s, S \cap T)
  <1> DEFINE bad == {t \in Seq(X) : Kept(Kept(t, S), T) # Kept(t, S \cap T)}
  <1>1. bad = {}
    <2> SUFFICES ASSUME bad # {} PROVE FALSE
      OBVIOUS
    <2>1. <<>> \notin bad
      BY KeptEmpty
    <2>2. ASSUME NEW t \in Seq(X) \ bad, NEW e \in X
          PROVE  Append(t, e) \notin bad
      <3>1. Kept(Kept(t, S), T) = Kept(t, S \cap T) /\ t \in Seq(X)
        OBVIOUS
      <3>2. Kept(t, S) \in Seq(X)
        BY <3>1, KeptIn
      <3>3. \A Z : Kept(Append(t, e), Z)
                      = IF e \in Z THEN Append(Kept(t, Z), e) ELSE Kept(t, Z)
        BY <3>1, KeptAppends
      <3>4. Kept(Append(Kept(t, S), e), T)
              = IF e \in T THEN Append(Kept(Kept(t, S), T), e) ELSE Kept(Kept(t, S), T)
        <4> DEFINE u == Kept(t, S)
        <4> HIDE DEF u
        <4>1. u \in Seq(X)
          BY <3>2 DEF u
        <4>2. Kept(Append(u, e), T) = IF e \in T THEN Append(Kept(u, T), e) ELSE Kept(u, T)
          BY <4>1, KeptAppends
        <4>3. QED
          BY <4>2 DEF u
      <3>5. Kept(Append(t, e), S \cap T)
              = IF e \in S /\ e \in T THEN Append(Kept(t, S \cap T), e) ELSE Kept(t, S \cap T)
        BY <3>3
      <3> DEFINE both == S \cap T
      <3>6. Kept(Kept(Append(t, e), S), T) = Kept(Append(t, e), both)
        <4> HIDE DEF both, bad
        <4>1. CASE e \in S
          <5>1. Kept(Append(t, e), S) = Append(Kept(t, S), e)
            BY <3>3, <4>1, Zenon
          <5>2. Kept(Append(t, e), both) = IF e \in T THEN Append(Kept(t, both), e) ELSE Kept(t, both)
            BY <3>5, <4>1, Zenon DEF both
          <5>3. Kept(Kept(t, S), T) = Kept(t, both)
            BY <3>1, Zenon DEF both
          <5>4. QED
            BY <3>4, <5>1, <5>2, <5>3
        <4>2. CASE e \notin S
          <5>1. Kept(Append(t, e), S) = Kept(t, S)
            BY <3>3, <4>2, Zenon
          <5>2. Kept(Append(t, e), both) = Kept(t, both)
            BY <3>5, <4>2, Zenon DEF both
          <5>3. Kept(Kept(t, S), T) = Kept(t, both)
            BY <3>1, Zenon DEF both
          <5>4. QED
            BY <5>1, <5>2, <5>3, Zenon
        <4>3. QED
          BY <4>1, <4>2
      <3>7. QED
        BY <3>6
    <2>3. bad \in SUBSET Seq(X)
      OBVIOUS
    <2> HIDE DEF bad
    <2>4. QED
      BY <2>1, <2>2, <2>3, ShortestSeq
  <1>2. QED
    BY <1>1

\* An element in front.
LEMMA KeptCons ==
  ASSUME NEW X, NEW s \in Seq(X), NEW e \in X, NEW S
  PROVE  Kept(<<e>> \o s, S) = (IF e \in S THEN <<e>> ELSE <<>>) \o Kept(s, S)
  <1> DEFINE front == IF e \in S THEN <<e>> ELSE <<>>
             bad == {t \in Seq(X) : Kept(<<e>> \o t, S) # front \o Kept(t, S)}
  <1>0. front \in Seq(X)
    BY EmptySeq
  <1>1. bad = {}
    <2> SUFFICES ASSUME bad # {} PROVE FALSE
      OBVIOUS
    <2>1. <<>> \notin bad
      <3>1. <<e>> \o <<>> = <<e>> /\ front \o <<>> = front
        BY <1>0, ConcatEmptySeq
      <3>2. Append(<<>>, e) = <<e>> /\ <<>> \in Seq(X)
        BY EmptySeq
      <3>3. Kept(Append(<<>>, e), S)
              = IF e \in S THEN Append(Kept(<<>>, S), e) ELSE Kept(<<>>, S)
        BY <3>2, KeptAppends, Zenon
      <3>5. Kept(<<e>>, S) = front
        BY <3>2, <3>3, KeptEmpty
      <3>4. QED
        BY <3>1, <3>5, KeptEmpty
    <2>2. ASSUME NEW t \in Seq(X) \ bad, NEW d \in X
          PROVE  Append(t, d) \notin bad
      <3>1. Kept(<<e>> \o t, S) = front \o Kept(t, S)
        OBVIOUS
      <3>2. <<e>> \o t \in Seq(X)
        BY ConcatProperties
      <3>3. Kept(t, S) \in Seq(X)
        BY KeptIn
      <3>4. <<e>> \o Append(t, d) = Append(<<e>> \o t, d)
        BY <3>2, SMTT(60)
      <3>5. \A u \in Seq(X) :
              Kept(Append(u, d), S) = IF d \in S THEN Append(Kept(u, S), d) ELSE Kept(u, S)
        BY KeptAppends, SMTT(60)
      <3>10. Kept(Append(<<e>> \o t, d), S)
              = IF d \in S THEN Append(Kept(<<e>> \o t, S), d) ELSE Kept(<<e>> \o t, S)
        BY <3>2, <3>5
      <3>6. Kept(Append(t, d), S) = IF d \in S THEN Append(Kept(t, S), d) ELSE Kept(t, S)
        BY KeptAppend
      <3> HIDE DEF front
      <3>7. front \o Append(Kept(t, S), d) = Append(front \o Kept(t, S), d)
        BY <1>0, <3>3, ConcatAppend, SMTT(60)
      <3>8. Kept(<<e>> \o Append(t, d), S) = front \o Kept(Append(t, d), S)
        BY <3>1, <3>4, <3>10, <3>6, <3>7
      <3>9. QED
        BY <3>8
    <2>3. bad \in SUBSET Seq(X)
      OBVIOUS
    <2> HIDE DEF bad
    <2>4. QED
      BY <2>1, <2>2, <2>3, ShortestSeq
  <1>2. QED
    BY <1>1

LEMMA ReverseType ==
  ASSUME NEW X, NEW t \in Seq(X)
  PROVE  Reverse(t) \in Seq(X) /\ Len(Reverse(t)) = Len(t)
  <1>1. Len(t) \in Nat /\ \A i \in 1 .. Len(t) : Len(t) - i + 1 \in 1 .. Len(t)
    BY LenProperties
  <1>2. Reverse(t) \in [1 .. Len(t) -> X]
    BY <1>1, ElementOfSeq DEF Reverse
  <1>3. Reverse(t) \in Seq(X)
    BY <1>1, <1>2, SeqDef
  <1>4. DOMAIN Reverse(t) = 1 .. Len(t)
    BY DEF Reverse
  <1>5. QED
    BY <1>1, <1>3, <1>4, LenProperties

\* Reversing a longer sequence puts the last element first, and the other way round.
LEMMA ReverseAppend ==
  ASSUME NEW X, NEW s \in Seq(X), NEW e \in X
  PROVE  /\ Reverse(Append(s, e)) = <<e>> \o Reverse(s)
         /\ Reverse(<<e>> \o s) = Append(Reverse(s), e)
  <1>1. Reverse(s) \in Seq(X) /\ Len(Reverse(s)) = Len(s)
    BY ReverseType
  <1>2. Len(s) \in Nat /\ Len(<<e>>) = 1 /\ <<e>> \in Seq(X) /\ <<e>>[1] = e
    BY LenProperties
  <1>3. /\ Append(s, e) \in Seq(X) /\ Len(Append(s, e)) = Len(s) + 1
        /\ \A i \in 1 .. Len(s) : Append(s, e)[i] = s[i]
        /\ Append(s, e)[Len(s) + 1] = e
    BY AppendProperties
  <1>4. /\ <<e>> \o s \in Seq(X) /\ Len(<<e>> \o s) = Len(s) + 1
        /\ (<<e>> \o s)[1] = e
        /\ \A i \in 2 .. Len(s) + 1 : (<<e>> \o s)[i] = s[i - 1]
    BY <1>2, ConcatProperties
  <1>5. /\ <<e>> \o Reverse(s) \in Seq(X) /\ Len(<<e>> \o Reverse(s)) = Len(s) + 1
        /\ (<<e>> \o Reverse(s))[1] = e
        /\ \A i \in 2 .. Len(s) + 1 : (<<e>> \o Reverse(s))[i] = Reverse(s)[i - 1]
    BY <1>1, <1>2, ConcatProperties
  <1>6. /\ Append(Reverse(s), e) \in Seq(X) /\ Len(Append(Reverse(s), e)) = Len(s) + 1
        /\ \A i \in 1 .. Len(s) : Append(Reverse(s), e)[i] = Reverse(s)[i]
        /\ Append(Reverse(s), e)[Len(s) + 1] = e
    BY <1>1, AppendProperties
  <1>7. Reverse(Append(s, e)) = <<e>> \o Reverse(s)
    <2>1. ASSUME NEW i \in 1 .. Len(s) + 1
          PROVE  Reverse(Append(s, e))[i] = (<<e>> \o Reverse(s))[i]
      <3>1. Reverse(Append(s, e))[i] = Append(s, e)[Len(s) + 1 - i + 1]
        BY <1>3 DEF Reverse
      <3>2. CASE i = 1
        BY <1>2, <1>3, <1>5, <3>1, <3>2
      <3>3. CASE i # 1
        <4>1. /\ i \in 2 .. Len(s) + 1 /\ i - 1 \in 1 .. Len(s)
              /\ Len(s) + 1 - i + 1 \in 1 .. Len(s)
              /\ Len(s) + 1 - i + 1 = Len(s) - (i - 1) + 1
          BY <1>2, <3>3
        <4>2. Reverse(s)[i - 1] = s[Len(s) - (i - 1) + 1]
          BY <4>1 DEF Reverse
        <4>3. QED
          BY <1>3, <1>5, <3>1, <4>1, <4>2
      <3>4. QED
        BY <3>2, <3>3
    <2>2. Reverse(Append(s, e)) \in Seq(X) /\ Len(Reverse(Append(s, e))) = Len(s) + 1
      BY <1>3, ReverseType
    <2>3. QED
      BY <1>5, <2>1, <2>2, SeqEqual
  <1>8. Reverse(<<e>> \o s) = Append(Reverse(s), e)
    <2>1. ASSUME NEW i \in 1 .. Len(s) + 1
          PROVE  Reverse(<<e>> \o s)[i] = Append(Reverse(s), e)[i]
      <3>1. Reverse(<<e>> \o s)[i] = (<<e>> \o s)[Len(s) + 1 - i + 1]
        BY <1>4 DEF Reverse
      <3>2. CASE i = Len(s) + 1
        BY <1>2, <1>4, <1>6, <3>1, <3>2
      <3>3. CASE i # Len(s) + 1
        <4>1. /\ i \in 1 .. Len(s)
              /\ Len(s) + 1 - i + 1 \in 2 .. Len(s) + 1
              /\ Len(s) + 1 - i + 1 - 1 = Len(s) - i + 1
          BY <1>2, <3>3
        <4>2. Reverse(s)[i] = s[Len(s) - i + 1]
          BY <4>1 DEF Reverse
        <4>3. QED
          BY <1>4, <1>6, <3>1, <4>1, <4>2
      <3>4. QED
        BY <3>2, <3>3
    <2>2. Reverse(<<e>> \o s) \in Seq(X) /\ Len(Reverse(<<e>> \o s)) = Len(s) + 1
      BY <1>4, ReverseType
    <2>3. QED
      BY <1>6, <2>1, <2>2, SeqEqual
  <1>9. QED
    BY <1>7, <1>8

\* Filtering and reversing commute.
LEMMA KeptReverse ==
  ASSUME NEW X, NEW s \in Seq(X), NEW S
  PROVE  Kept(Reverse(s), S) = Reverse(Kept(s, S))
  <1> DEFINE bad == {t \in Seq(X) : Kept(Reverse(t), S) # Reverse(Kept(t, S))}
  <1>0. Reverse(<<>>) = <<>>
    BY DEF Reverse
  <1>1. bad = {}
    <2> SUFFICES ASSUME bad # {} PROVE FALSE
      OBVIOUS
    <2>1. <<>> \notin bad
      BY <1>0, KeptEmpty
    <2>2. ASSUME NEW t \in Seq(X) \ bad, NEW e \in X
          PROVE  Append(t, e) \notin bad
      <3>1. Kept(Reverse(t), S) = Reverse(Kept(t, S))
        OBVIOUS
      <3>2. /\ Reverse(t) \in Seq(X)
            /\ Reverse(Append(t, e)) = <<e>> \o Reverse(t)
        BY ReverseType, ReverseAppend
      <3>3. Kept(t, S) \in Seq(X)
        BY KeptIn
      <3>4. /\ Reverse(Kept(t, S)) \in Seq(X)
            /\ Reverse(Append(Kept(t, S), e)) = <<e>> \o Reverse(Kept(t, S))
        BY <3>3, ReverseType, ReverseAppend
      <3>5. Kept(<<e>> \o Reverse(t), S)
              = (IF e \in S THEN <<e>> ELSE <<>>) \o Kept(Reverse(t), S)
        BY <3>2, KeptCons, ZenonT(60)
      <3>6. Kept(Append(t, e), S) = IF e \in S THEN Append(Kept(t, S), e) ELSE Kept(t, S)
        BY KeptAppend
      <3>7. <<>> \o Reverse(Kept(t, S)) = Reverse(Kept(t, S))
        BY <3>4, ConcatEmptySeq
      <3>8. Kept(Reverse(Append(t, e)), S) = Reverse(Kept(Append(t, e), S))
        BY <3>1, <3>2, <3>4, <3>5, <3>6, <3>7
      <3>9. QED
        BY <3>8
    <2>3. bad \in SUBSET Seq(X)
      OBVIOUS
    <2> HIDE DEF bad
    <2>4. QED
      BY <2>1, <2>2, <2>3, ShortestSeq
  <1>2. QED
    BY <1>1

---------------------------------------------------------------------------------
\* The functions on 0 .. n that start with b and go on by the steps.
Loops(D, b, n, step) ==
  {f \in [0 .. n -> D] : f[0] = b /\ \A i \in 1 .. n : f[i] = step[i][f[i - 1]]}

LEMMA LoopExists ==
  \A D : \A b \in D : \A n \in Nat : \A step \in [1 .. n -> [D -> D]] :
    Loops(D, b, n, step) # {}
  BY IterationExists DEF Loops

\* Step by step up to n: a set that has 0, and a number when it has the one before.
LEMMA Stepwise ==
  ASSUME NEW n \in Nat, NEW S, 0 \in S, \A i \in 1 .. n : i - 1 \in S => i \in S
  PROVE  \A i \in 0 .. n : i \in S
  <1> DEFINE bad == {i \in Nat : i <= n /\ i \notin S}
  <1>1. bad = {}
    <2> SUFFICES ASSUME bad # {} PROVE FALSE
      OBVIOUS
    <2>1. PICK i \in bad : \A j \in bad : i =< j
      <3>1. bad \in SUBSET Nat
        OBVIOUS
      <3> HIDE DEF bad
      <3>2. QED
        BY <3>1, SmallestNat
    <2>2. i \in 1 .. n /\ i - 1 \in Nat /\ i - 1 <= n /\ ~ (i =< i - 1)
      BY <2>1
    <2>3. QED
      BY <2>1, <2>2
  <1>2. QED
    BY <1>1

---------------------------------------------------------------------------------
\* One sequence more.
Flattenings(X, ss) ==
  {f \in [1 .. Len(ss) -> Seq(X)] :
     /\ FlattenSeq(ss) = f[Len(ss)]
     /\ f[1] = ss[1]
     /\ \A i \in 2 .. Len(ss) : f[i] = f[i - 1] \o ss[i]}

LEMMA FlattenSteps ==
  ASSUME NEW X, NEW ss \in Seq(Seq(X)), ss # <<>>
  PROVE  Flattenings(X, ss) # {}
  <1> DEFINE D == Seq(X)
             n == Len(ss)
             Turn(x, i) == x \o ss[i]
             step == [i \in 1 .. n |-> [x \in D |-> Turn(x, i)]]
             IsLoop(g) == g = [i \in 1 .. n |-> IF i = 1 THEN ss[i] ELSE Turn(g[i - 1], i)]
  <1>1. n \in Nat /\ n # 0 /\ <<>> \in D
    BY LenProperties, EmptySeq
  <1>2. \A i \in 1 .. n : ss[i] \in D
    BY ElementOfSeq
  <1>3. step \in [1 .. n -> [D -> D]]
    <2>1. \A i \in 1 .. n : \A x \in D : Turn(x, i) \in D
      BY <1>2, ConcatProperties
    <2> HIDE DEF Turn
    <2>2. QED
      BY <2>1
  <1>4. \A x \in D, i \in 1 .. n : step[i][x] = Turn(x, i)
    OBVIOUS
  <1>5. <<>> \o ss[1] = ss[1]
    BY <1>1, <1>2, ConcatEmptySeq
  <1> HIDE DEF step, D, n
  <1>6. PICK f \in [0 .. n -> D] :
          f[0] = <<>> /\ \A i \in 1 .. n : f[i] = step[i][f[i - 1]]
    <2>1. <<>> \in D /\ n \in Nat /\ step \in [1 .. n -> [D -> D]]
      BY <1>1, <1>3
    <2>2. Loops(D, <<>>, n, step) # {}
      BY <2>1, LoopExists
    <2>3. QED
      BY <2>2 DEF Loops
  <1>7. \A i \in 1 .. n : f[i] = Turn(f[i - 1], i)
    <2>1. \A i \in 1 .. n : i - 1 \in 0 .. n
      BY <1>1
    <2> HIDE DEF Turn
    <2>2. QED
      BY <1>4, <1>6, <2>1
  <1> DEFINE h == [i \in 1 .. n |-> f[i]]
  <1>8. h \in [1 .. n -> D]
    BY <1>1, <1>6
  <1>9. h[1] = ss[1]
    <2>1. 1 \in 1 .. n /\ 1 - 1 = 0
      BY <1>1
    <2>2. f[1] = f[0] \o ss[1]
      BY <1>7, <2>1
    <2>3. QED
      BY <1>5, <1>6, <2>1, <2>2
  <1>10. \A i \in 2 .. n : h[i] = Turn(h[i - 1], i)
    <2>1. \A i \in 2 .. n : i \in 1 .. n /\ i - 1 \in 1 .. n
      BY <1>1
    <2> HIDE DEF Turn
    <2>2. QED
      BY <1>7, <2>1
  <1>11. IsLoop(h)
    <2>1. \A i \in 1 .. n : i # 1 => i \in 2 .. n
      BY <1>1
    <2> HIDE DEF Turn
    <2>2. h = [i \in 1 .. n |-> h[i]]
      OBVIOUS
    <2> HIDE DEF h
    <2>3. QED
      BY <1>9, <1>10, <2>1, <2>2
  <1> DEFINE k == CHOOSE g : IsLoop(g)
  <1>12. FlattenSeq(ss) = k[n]
    <2>1. Len(ss) # 0
      BY <1>1 DEF n
    <2>2. QED
      BY <2>1 DEF FlattenSeq, n
  <1>13. IsLoop(k)
    <2> HIDE DEF IsLoop, h
    <2>1. QED
      BY <1>11
  <1>14. k = [i \in 1 .. n |-> IF i = 1 THEN ss[i] ELSE Turn(k[i - 1], i)]
    BY <1>13
  <1> HIDE DEF k, h
  <1>15. k = h
    <2> DEFINE bad == {i \in Nat : 1 =< i /\ i =< n /\ k[i] # h[i]}
    <2> HIDE DEF Turn
    <2>1. bad = {}
      <3> SUFFICES ASSUME bad # {} PROVE FALSE
        OBVIOUS
      <3>1. PICK m \in bad : \A j \in bad : m =< j
        <4>1. bad \in SUBSET Nat
          OBVIOUS
        <4> HIDE DEF bad
        <4>2. QED
          BY <4>1, SmallestNat
      <3>2. m # 1
        BY <1>1, <1>9, <1>14
      <3>3. m \in 2 .. n /\ m \in 1 .. n /\ m - 1 \in Nat /\ 1 =< m - 1 /\ m - 1 =< n /\ ~(m =< m - 1)
        BY <1>1, <3>2
      <3>4. k[m - 1] = h[m - 1]
        BY <3>1, <3>3
      <3>5. QED
        BY <1>10, <1>14, <3>1, <3>2, <3>3, <3>4
    <2>2. \A i \in 1 .. n : k[i] = h[i]
      <3>1. \A i \in 1 .. n : i \in Nat /\ 1 =< i /\ i =< n
        BY <1>1
      <3>2. QED
        BY <2>1, <3>1
    <2>3. k = [i \in 1 .. n |-> k[i]] /\ h = [i \in 1 .. n |-> h[i]]
      BY <1>8, <1>14
    <2>4. QED
      BY <2>2, <2>3
  <1>16. QED
    <2>1. h \in Flattenings(X, ss)
      BY <1>8, <1>9, <1>10, <1>12, <1>15 DEF Turn, n, D, Flattenings
    <2>2. QED
      BY <2>1

LEMMA FlattenLoop ==
  \A X : \A ss \in Seq(Seq(X)) : ss # <<>> => Flattenings(X, ss) # {}
  BY FlattenSteps

LEMMA FlattenType ==
  ASSUME NEW X, NEW ss \in Seq(Seq(X))
  PROVE  FlattenSeq(ss) \in Seq(X)
  <1>1. CASE ss = <<>>
    BY <1>1, EmptySeq DEF FlattenSeq
  <1>2. CASE ss # <<>>
    <2>1. Len(ss) \in 1 .. Len(ss)
      BY <1>2, LenProperties, EmptySeq
    <2>2. PICK f \in [1 .. Len(ss) -> Seq(X)] : FlattenSeq(ss) = f[Len(ss)]
      BY <1>2, FlattenLoop DEF Flattenings
    <2>3. QED
      BY <2>1, <2>2
  <1>3. QED
    BY <1>1, <1>2

LEMMA FlattenAppend ==
  ASSUME NEW X, NEW ss \in Seq(Seq(X)), NEW s \in Seq(X)
  PROVE  FlattenSeq(Append(ss, s)) = FlattenSeq(ss) \o s
  <1> DEFINE more == Append(ss, s)
  <1>1. /\ more \in Seq(Seq(X)) /\ Len(ss) \in Nat /\ Len(more) = Len(ss) + 1
        /\ \A i \in 1 .. Len(ss) : more[i] = ss[i]
        /\ more[Len(more)] = s /\ more # <<>>
    BY AppendProperties, LenProperties
  <1> HIDE DEF more
  <1>2. PICK g \in [1 .. Len(more) -> Seq(X)] :
           /\ FlattenSeq(more) = g[Len(more)]
           /\ g[1] = more[1]
           /\ \A i \in 2 .. Len(more) : g[i] = g[i - 1] \o more[i]
    <2>1. Flattenings(X, more) # {}
      BY <1>1, FlattenLoop
    <2>2. QED
      BY <2>1 DEF Flattenings
  <1>3. CASE ss = <<>>
    <2>1. Len(more) = 1 /\ FlattenSeq(ss) = <<>>
      BY <1>1, <1>3 DEF FlattenSeq
    <2>2. QED
      BY <1>1, <1>2, <2>1, ConcatEmptySeq DEF more
  <1>4. CASE ss # <<>>
    <2>1. PICK f \in [1 .. Len(ss) -> Seq(X)] :
             /\ FlattenSeq(ss) = f[Len(ss)]
             /\ f[1] = ss[1]
             /\ \A i \in 2 .. Len(ss) : f[i] = f[i - 1] \o ss[i]
      <3>1. Flattenings(X, ss) # {}
        BY <1>4, FlattenLoop
      <3>2. QED
        BY <3>1 DEF Flattenings
    <2>2. Len(ss) \in 1 .. Len(ss) /\ Len(more) \in 2 .. Len(more) /\ Len(more) - 1 = Len(ss)
      BY <1>1, <1>4, EmptySeq
    <2> DEFINE bad == {i \in Nat : 1 =< i /\ i =< Len(ss) /\ g[i] # f[i]}
    <2>3. bad = {}
      <3> SUFFICES ASSUME bad # {} PROVE FALSE
        OBVIOUS
      <3>1. PICK m \in bad : \A j \in bad : m =< j
        <4>1. bad \in SUBSET Nat
          OBVIOUS
        <4> HIDE DEF bad
        <4>2. QED
          BY <4>1, SmallestNat
      <3>2. m # 1
        BY <1>1, <1>2, <2>1
      <3>3. /\ m \in 2 .. Len(ss) /\ m \in 2 .. Len(more) /\ m \in 1 .. Len(ss)
            /\ m - 1 \in Nat /\ 1 =< m - 1 /\ m - 1 =< Len(ss) /\ ~(m =< m - 1)
        BY <1>1, <3>2
      <3>4. g[m - 1] = f[m - 1]
        BY <3>1, <3>3
      <3>5. g[m] = g[m - 1] \o more[m]
        BY <1>2, <3>3
      <3>6. f[m] = f[m - 1] \o ss[m]
        BY <2>1, <3>3
      <3>7. more[m] = ss[m]
        BY <1>1, <3>3
      <3>8. g[m] = f[m]
        BY <3>4, <3>5, <3>6, <3>7
      <3>9. g[m] # f[m]
        BY <3>1
      <3>10. QED
        BY <3>8, <3>9
    <2>4. g[Len(ss)] = f[Len(ss)]
      <3>1. Len(ss) \in Nat /\ 1 =< Len(ss) /\ Len(ss) =< Len(ss)
        BY <1>1, <2>2
      <3>2. QED
        BY <2>3, <3>1
    <2>5. g[Len(more)] = g[Len(more) - 1] \o more[Len(more)]
      BY <1>2, <2>2
    <2>6. QED
      BY <1>1, <1>2, <2>1, <2>2, <2>4, <2>5 DEF more
  <1>5. QED
    BY <1>3, <1>4

---------------------------------------------------------------------------------
\* A vector that has nothing twice.
Distinct(s) == \A i, j \in 1 .. Len(s) : s[i] = s[j] => i = j

\* Adding at the end what was not there.
LEMMA AppendContains ==
  ASSUME NEW X, NEW s \in Seq(X), NEW e \in X
  PROVE  \A x : Contains(Append(s, e), x) <=> Contains(s, x) \/ x = e
  <1>1. /\ Len(s) \in Nat /\ Len(Append(s, e)) = Len(s) + 1
        /\ \A i \in 1 .. Len(s) : Append(s, e)[i] = s[i]
        /\ Append(s, e)[Len(s) + 1] = e
    BY AppendProperties, LenProperties
  <1> DEFINE l == Append(s, e)
  <1> HIDE DEF l
  <1>2. QED
    BY <1>1 DEF Contains, l

LEMMA AppendDistinct ==
  ASSUME NEW X, NEW s \in Seq(X), NEW e \in X, Distinct(s), ~ Contains(s, e)
  PROVE  Distinct(Append(s, e))
  <1>1. /\ Len(s) \in Nat /\ Len(Append(s, e)) = Len(s) + 1
        /\ \A i \in 1 .. Len(s) : Append(s, e)[i] = s[i]
        /\ Append(s, e)[Len(s) + 1] = e
    BY AppendProperties, LenProperties
  <1> DEFINE l == Append(s, e)
  <1> HIDE DEF l
  <1>2. QED
    BY <1>1 DEF Contains, Distinct, l

\* Taking out one position.
LEMMA RemoveAtElements ==
  ASSUME NEW X, NEW s \in Seq(X), NEW p \in 1 .. Len(s)
  PROVE  /\ RemoveAt(s, p) \in Seq(X) /\ Len(RemoveAt(s, p)) = Len(s) - 1
         /\ \A i \in 1 .. Len(s) - 1 : RemoveAt(s, p)[i] = IF i < p THEN s[i] ELSE s[i + 1]
  <1> DEFINE a == SubSeq(s, 1, p - 1)
             b == SubSeq(s, p + 1, Len(s))
  <1>1. Len(s) \in Nat /\ p \in Nat /\ p >= 1 /\ p =< Len(s)
    BY LenProperties
  <1>2. /\ a \in Seq(X) /\ Len(a) = p - 1 /\ \A i \in 1 .. p - 1 : a[i] = s[i]
    BY <1>1, SubSeqProperties
  <1>3. /\ b \in Seq(X) /\ Len(b) = Len(s) - p /\ \A i \in 1 .. Len(s) - p : b[i] = s[i + p]
    BY <1>1, SubSeqProperties
  <1> HIDE DEF a, b
  <1>4. /\ a \o b \in Seq(X) /\ Len(a \o b) = Len(a) + Len(b)
        /\ \A i \in 1 .. Len(a) + Len(b) : (a \o b)[i] = IF i =< Len(a) THEN a[i] ELSE b[i - Len(a)]
    BY <1>2, <1>3, ConcatProperties
  <1>5. RemoveAt(s, p) = a \o b
    BY DEF RemoveAt, a, b
  <1> DEFINE l == a \o b
  <1> HIDE DEF l
  <1>6. ASSUME NEW i \in 1 .. Len(s) - 1 PROVE l[i] = IF i < p THEN s[i] ELSE s[i + 1]
    <2>1. CASE i < p
      BY <1>1, <1>2, <1>3, <1>4, <2>1 DEF l
    <2>2. CASE ~ (i < p)
      <3>1. i - (p - 1) \in 1 .. Len(s) - p /\ i - (p - 1) + p = i + 1
        BY <1>1, <2>2
      <3>2. l[i] = b[i - (p - 1)]
        BY <1>1, <1>2, <1>3, <1>4, <2>2 DEF l
      <3>3. QED
        BY <1>3, <2>2, <3>1, <3>2
    <2>3. QED
      BY <2>1, <2>2
  <1>7. l \in Seq(X) /\ Len(l) = Len(s) - 1
    BY <1>1, <1>2, <1>3, <1>4 DEF l
  <1>8. RemoveAt(s, p) = l
    BY <1>5 DEF l
  <1>9. QED
    BY <1>6, <1>7, <1>8

LEMMA RemoveAtDistinct ==
  ASSUME NEW X, NEW s \in Seq(X), NEW p \in 1 .. Len(s), Distinct(s)
  PROVE  /\ Distinct(RemoveAt(s, p))
         /\ \A x : Contains(RemoveAt(s, p), x) <=> Contains(s, x) /\ x # s[p]
  <1> DEFINE l == RemoveAt(s, p)
  <1>1. /\ Len(s) \in Nat /\ p \in Nat /\ Len(l) = Len(s) - 1
        /\ \A i \in 1 .. Len(s) - 1 : l[i] = IF i < p THEN s[i] ELSE s[i + 1]
    BY RemoveAtElements, LenProperties
  <1> HIDE DEF l
  <1>2. Distinct(l)
    <2> SUFFICES ASSUME NEW i \in 1 .. Len(l), NEW j \in 1 .. Len(l), l[i] = l[j] PROVE i = j
      BY DEF Distinct
    <2>1. i + 1 \in 1 .. Len(s) /\ j + 1 \in 1 .. Len(s) /\ i \in 1 .. Len(s) /\ j \in 1 .. Len(s)
      BY <1>1
    <2> DEFINE At(k) == IF k < p THEN k ELSE k + 1
    <2>2. At(i) \in 1 .. Len(s) /\ At(j) \in 1 .. Len(s) /\ (At(i) = At(j) => i = j)
      BY <1>1, <2>1
    <2>3. l[i] = s[At(i)] /\ l[j] = s[At(j)]
      BY <1>1
    <2> HIDE DEF At
    <2>4. s[At(i)] = s[At(j)] => At(i) = At(j)
      BY <2>2 DEF Distinct
    <2>5. QED
      BY <2>2, <2>3, <2>4
  <1>3. ASSUME NEW x PROVE Contains(l, x) <=> Contains(s, x) /\ x # s[p]
    <2>1. ASSUME NEW i \in 1 .. Len(l), l[i] = x PROVE Contains(s, x) /\ x # s[p]
      <3>1. i \in 1 .. Len(s) /\ i + 1 \in 1 .. Len(s)
        BY <1>1
      <3>2. QED
        BY <1>1, <2>1, <3>1 DEF Contains, Distinct
    <2>2. ASSUME NEW i \in 1 .. Len(s), s[i] = x, x # s[p] PROVE Contains(l, x)
      <3>1. CASE i < p
        <4>1. i \in 1 .. Len(l) /\ l[i] = s[i]
          BY <1>1, <3>1
        <4>2. QED
          BY <2>2, <4>1 DEF Contains
      <3>2. CASE i > p
        <4>1. i - 1 \in 1 .. Len(l) /\ l[i - 1] = s[i]
          BY <1>1, <3>2
        <4>2. QED
          BY <2>2, <4>1 DEF Contains
      <3>3. QED
        BY <1>1, <2>2, <3>1, <3>2
    <2>3. QED
      BY <2>1, <2>2 DEF Contains
  <1>4. QED
    BY <1>2, <1>3 DEF l

\* What is kept is what was there and is in the set, each as often as it was there.
LEMMA KeptContains ==
  ASSUME NEW X, NEW s \in Seq(X), NEW S
  PROVE  /\ \A x : Contains(Kept(s, S), x) <=> Contains(s, x) /\ x \in S
         /\ Distinct(s) => Distinct(Kept(s, S))
  <1> DEFINE Fits(t) == /\ \A x : Contains(Kept(t, S), x) <=> Contains(t, x) /\ x \in S
                        /\ Distinct(t) => Distinct(Kept(t, S))
             bad == {t \in Seq(X) : ~ Fits(t)}
  <1>1. bad = {}
    <2> SUFFICES ASSUME bad # {} PROVE FALSE
      OBVIOUS
    <2>1. <<>> \notin bad
      BY KeptEmpty DEF Contains, Distinct
    <2>2. ASSUME NEW t \in Seq(X) \ bad, NEW e \in X
          PROVE  Append(t, e) \notin bad
      <3>1. Fits(t) /\ t \in Seq(X)
        OBVIOUS
      <3>2. Kept(Append(t, e), S) = IF e \in S THEN Append(Kept(t, S), e) ELSE Kept(t, S)
        BY <3>1, KeptAppends, Zenon
      <3>3. Kept(t, S) \in Seq(X)
        BY <3>1, KeptIn
      <3>4. \A x : Contains(Append(t, e), x) <=> Contains(t, x) \/ x = e
        BY <3>1, AppendContains
      <3>5. Distinct(Append(t, e)) => Distinct(t) /\ ~ Contains(t, e)
        <4>1. /\ Len(t) \in Nat /\ Len(Append(t, e)) = Len(t) + 1
              /\ \A i \in 1 .. Len(t) : Append(t, e)[i] = t[i]
              /\ Append(t, e)[Len(t) + 1] = e
          BY <3>1, AppendProperties, LenProperties
        <4> DEFINE l == Append(t, e)
        <4> HIDE DEF l
        <4>2. Distinct(l) => Distinct(t)
          <5> SUFFICES ASSUME Distinct(l), NEW i \in 1 .. Len(t), NEW j \in 1 .. Len(t), t[i] = t[j]
                       PROVE  i = j
            BY DEF Distinct
          <5>1. i \in 1 .. Len(l) /\ j \in 1 .. Len(l) /\ l[i] = l[j]
            BY <4>1 DEF l
          <5>2. QED
            BY <5>1 DEF Distinct
        <4>3. Distinct(l) => ~ Contains(t, e)
          <5> SUFFICES ASSUME Distinct(l), NEW i \in 1 .. Len(t), t[i] = e
                       PROVE  FALSE
            BY DEF Contains
          <5>1. i \in 1 .. Len(l) /\ Len(t) + 1 \in 1 .. Len(l) /\ l[i] = l[Len(t) + 1] /\ i # Len(t) + 1
            BY <4>1 DEF l
          <5>2. QED
            BY <5>1 DEF Distinct
        <4>4. QED
          BY <4>2, <4>3 DEF l
      <3> DEFINE k == Kept(t, S)
      <3>6. k \in Seq(X) /\ \A x : Contains(k, x) <=> Contains(t, x) /\ x \in S
        BY <3>1, <3>3
      <3>7. Distinct(t) => Distinct(k)
        BY <3>1
      <3> HIDE DEF k, bad
      <3>8. /\ \A x : Contains(Append(k, e), x) <=> Contains(k, x) \/ x = e
            /\ Distinct(k) /\ ~ Contains(k, e) => Distinct(Append(k, e))
        BY <3>6, AppendContains, AppendDistinct
      <3>9. Fits(Append(t, e))
        <4>1. CASE e \in S
          <5>1. Kept(Append(t, e), S) = Append(k, e)
            BY <3>2, <4>1 DEF k
          <5> DEFINE l == Append(t, e)
                     m == Kept(l, S)
          <5>2. m = Append(k, e)
            BY <5>1
          <5> HIDE DEF l, m
          <5>3. \A x : Contains(m, x) <=> Contains(l, x) /\ x \in S
            BY <3>4, <3>6, <3>8, <4>1, <5>2, Zenon DEF l
          <5>4. Distinct(l) => Distinct(m)
            BY <3>5, <3>6, <3>7, <3>8, <5>2, Zenon DEF l
          <5>5. QED
            BY <5>3, <5>4 DEF l, m
        <4>2. CASE e \notin S
          <5>1. Kept(Append(t, e), S) = k
            BY <3>2, <4>2 DEF k
          <5> DEFINE l == Append(t, e)
                     m == Kept(l, S)
          <5>2. m = k
            BY <5>1
          <5> HIDE DEF l, m
          <5>3. \A x : Contains(m, x) <=> Contains(l, x) /\ x \in S
            BY <3>4, <3>6, <4>2, <5>2, Zenon DEF l
          <5>4. Distinct(l) => Distinct(m)
            BY <3>5, <3>7, <5>2, Zenon DEF l
          <5>5. QED
            BY <5>3, <5>4 DEF l, m
        <4>3. QED
          BY <4>1, <4>2
      <3>10. QED
        BY <3>9 DEF bad
    <2>3. bad \in SUBSET Seq(X)
      OBVIOUS
    <2> HIDE DEF bad
    <2>4. QED
      BY <2>1, <2>2, <2>3, ShortestSeq
  <1>2. QED
    BY <1>1

\* Each element is before those that come after it.
InOrder(s, R) == \A i, j \in 1 .. Len(s) : i < j => <<s[i], s[j]>> \in R

LEMMA InOrderAppend ==
  ASSUME NEW X, NEW s \in Seq(X), NEW e \in X, NEW R
  PROVE  InOrder(Append(s, e), R) <=> InOrder(s, R) /\ \A x : Contains(s, x) => <<x, e>> \in R
  <1> DEFINE l == Append(s, e)
  <1>1. /\ Len(s) \in Nat /\ Len(l) = Len(s) + 1 /\ l[Len(s) + 1] = e
        /\ \A i \in 1 .. Len(s) : l[i] = s[i]
    BY AppendProperties, LenProperties
  <1> HIDE DEF l
  <1>2. ASSUME InOrder(l, R)
        PROVE  InOrder(s, R) /\ \A i \in 1 .. Len(s) : <<s[i], e>> \in R
    BY <1>1, <1>2 DEF InOrder
  <1>3. ASSUME InOrder(s, R), \A i \in 1 .. Len(s) : <<s[i], e>> \in R
        PROVE  InOrder(l, R)
    BY <1>1, <1>3 DEF InOrder
  <1>4. QED
    BY <1>2, <1>3 DEF l, Contains

\* Filtering keeps the order.
LEMMA KeptInOrder ==
  ASSUME NEW X, NEW s \in Seq(X), NEW S, NEW R, InOrder(s, R)
  PROVE  InOrder(Kept(s, S), R)
  <1> DEFINE bad == {t \in Seq(X) : InOrder(t, R) /\ ~ InOrder(Kept(t, S), R)}
  <1>1. bad = {}
    <2> SUFFICES ASSUME bad # {} PROVE FALSE
      OBVIOUS
    <2>1. <<>> \notin bad
      BY KeptEmpty
    <2>2. ASSUME NEW t \in Seq(X) \ bad, NEW e \in X
          PROVE  Append(t, e) \notin bad
      <3> SUFFICES ASSUME InOrder(Append(t, e), R)
                   PROVE  InOrder(Kept(Append(t, e), S), R)
        OBVIOUS
      <3> DEFINE k == Kept(t, S)
      <3>1. t \in Seq(X) /\ InOrder(t, R) /\ \A x : Contains(t, x) => <<x, e>> \in R
        BY InOrderAppend
      <3>2. k \in Seq(X) /\ InOrder(k, R)
        BY <3>1, KeptIn
      <3>3. Kept(Append(t, e), S) = IF e \in S THEN Append(k, e) ELSE k
        BY <3>1, KeptAppends, Zenon
      <3>4. \A x : Contains(k, x) => <<x, e>> \in R
        BY <3>1, KeptContains
      <3> HIDE DEF k
      <3>5. QED
        BY <3>2, <3>3, <3>4, InOrderAppend
    <2>3. bad \in SUBSET Seq(X)
      OBVIOUS
    <2> HIDE DEF bad
    <2>4. QED
      BY <2>1, <2>2, <2>3, ShortestSeq
  <1>2. QED
    BY <1>1

\* One in order after another is in order if the first's elements are before the second's.
LEMMA ConcatInOrder ==
  ASSUME NEW X, NEW s \in Seq(X), NEW t \in Seq(X), NEW R, InOrder(s, R), InOrder(t, R),
         \A i \in 1 .. Len(s), j \in 1 .. Len(t) : <<s[i], t[j]>> \in R
  PROVE  InOrder(s \o t, R)
  <1> DEFINE l == s \o t
  <1>1. /\ Len(s) \in Nat /\ Len(t) \in Nat /\ Len(l) = Len(s) + Len(t)
        /\ \A i \in 1 .. Len(s) : l[i] = s[i]
        /\ \A i \in 1 .. Len(l) : i > Len(s) => l[i] = t[i - Len(s)]
    BY ConcatProperties, LenProperties
  <1> HIDE DEF l
  <1>2. ASSUME NEW i \in 1 .. Len(l), NEW j \in 1 .. Len(l), i < j
        PROVE  <<l[i], l[j]>> \in R
    <2>1. CASE j <= Len(s)
      BY <1>1, <1>2, <2>1 DEF InOrder
    <2>2. CASE i > Len(s)
      <3>1. i - Len(s) \in 1 .. Len(t) /\ j - Len(s) \in 1 .. Len(t) /\ i - Len(s) < j - Len(s)
        BY <1>1, <1>2, <2>2
      <3>2. l[i] = t[i - Len(s)] /\ l[j] = t[j - Len(s)]
        BY <1>1, <1>2, <2>2
      <3>3. QED
        BY <3>1, <3>2 DEF InOrder
    <2>3. CASE i <= Len(s) /\ j > Len(s)
      <3>1. i \in 1 .. Len(s) /\ j - Len(s) \in 1 .. Len(t) /\ l[i] = s[i] /\ l[j] = t[j - Len(s)]
        BY <1>1, <1>2, <2>3
      <3>2. QED
        BY <3>1
    <2>4. QED
      BY <1>1, <2>1, <2>2, <2>3
  <1>3. QED
    BY <1>2 DEF InOrder, l

\* An element put between those before it and those after it.
LEMMA BetweenInOrder ==
  ASSUME NEW X, NEW s \in Seq(X), NEW t \in Seq(X), NEW e \in X, NEW R, InOrder(s, R), InOrder(t, R),
         \A x : Contains(s, x) => <<x, e>> \in R,
         \A y : Contains(t, y) => <<e, y>> \in R,
         \A x, y : Contains(s, x) /\ Contains(t, y) => <<x, y>> \in R
  PROVE  s \o <<e>> \o t \in Seq(X) /\ InOrder(s \o <<e>> \o t, R)
  <1> DEFINE l == Append(s, e)
  <1>1. s \o <<e>> = l
    OBVIOUS
  <1>2. l \in Seq(X) /\ InOrder(l, R)
    BY InOrderAppend, AppendProperties
  <1>3. \A x : Contains(l, x) <=> Contains(s, x) \/ x = e
    BY AppendContains
  <1> HIDE DEF l
  <1>4. \A x, y : Contains(l, x) /\ Contains(t, y) => <<x, y>> \in R
    BY <1>3
  <1>5. \A i \in 1 .. Len(l), j \in 1 .. Len(t) : <<l[i], t[j]>> \in R
    BY <1>4 DEF Contains
  <1>6. InOrder(l \o t, R)
    BY <1>2, <1>5, ConcatInOrder
  <1>7. l \o t \in Seq(X)
    BY <1>2, ConcatProperties
  <1>8. QED
    BY <1>1, <1>6, <1>7

\* A set is put in order in one way only, if nothing is before itself and the order is
\* transitive.
LEMMA SameOrder ==
  ASSUME NEW X, NEW R, NEW s \in Seq(X), NEW t \in Seq(X), InOrder(s, R), InOrder(t, R),
         \A x \in X : <<x, x>> \notin R,
         \A x, y, z \in X : <<x, y>> \in R /\ <<y, z>> \in R => <<x, z>> \in R,
         \A x : Contains(s, x) <=> Contains(t, x)
  PROVE  s = t
  <1> DEFINE Same(u, v) == v \in Seq(X) /\ InOrder(v, R) /\ \A x : Contains(u, x) <=> Contains(v, x)
             bad == {u \in Seq(X) : InOrder(u, R) /\ \E v \in Seq(X) : Same(u, v) /\ u # v}
  <1>1. bad = {}
    <2> SUFFICES ASSUME bad # {} PROVE FALSE
      OBVIOUS
    <2>1. <<>> \notin bad
      <3> SUFFICES ASSUME NEW v \in Seq(X), Same(<<>>, v) PROVE v = <<>>
        OBVIOUS
      <3>1. ~ \E x : Contains(v, x)
        <4>1. \A x : Contains(<<>>, x) <=> Contains(v, x)
          OBVIOUS
        <4>2. ~ \E x : Contains(<<>>, x)
          <5>1. Len(<<>>) = 0
            OBVIOUS
          <5>2. 1 .. 0 = {}
            OBVIOUS
          <5>3. QED
            BY ONLY <5>1, <5>2, Zenon DEF Contains
        <4>3. QED
          BY ONLY <4>1, <4>2, Zenon
      <3>2. Len(v) \in Nat /\ ~ (1 <= Len(v))
        BY <3>1, LenProperties DEF Contains
      <3>3. QED
        BY <3>2, EmptySeq
    <2>2. ASSUME NEW u \in Seq(X) \ bad, NEW e \in X
          PROVE  Append(u, e) \notin bad
      <3> SUFFICES ASSUME InOrder(Append(u, e), R), NEW w \in Seq(X), Same(Append(u, e), w)
                   PROVE  Append(u, e) = w
        OBVIOUS
      <3> DEFINE l == Append(u, e)
      <3>1. u \in Seq(X) /\ InOrder(l, R) /\ InOrder(w, R) /\ \A x : Contains(l, x) <=> Contains(w, x)
        OBVIOUS
      <3>2. \A x : Contains(l, x) <=> Contains(u, x) \/ x = e
        BY AppendContains
      <3>3. w # <<>>
        <4>1. Contains(w, e)
          BY <3>1, <3>2
        <4>2. QED
          BY <4>1 DEF Contains
      <3>4. PICK v \in Seq(X), f \in X : w = Append(v, f)
        BY <3>3, SequenceEmptyOrAppend
      <3>5. \A x : Contains(w, x) <=> Contains(v, x) \/ x = f
        BY <3>4, AppendContains
      <3>6. InOrder(u, R) /\ \A x : Contains(u, x) => <<x, e>> \in R
        BY <3>1, InOrderAppend
      <3>7. InOrder(v, R) /\ \A x : Contains(v, x) => <<x, f>> \in R
        BY <3>1, <3>4, InOrderAppend
      <3> HIDE DEF l
      <3>8. e = f
        <4> SUFFICES ASSUME e # f PROVE FALSE
          OBVIOUS
        <4>1. Contains(v, e) /\ Contains(u, f)
          BY <3>1, <3>2, <3>5
        <4>2. <<e, f>> \in R /\ <<f, e>> \in R
          BY <4>1, <3>6, <3>7
        <4>3. QED
          BY <4>2
      <3>9. ~ Contains(u, e) /\ ~ Contains(v, e)
        BY <3>6, <3>7, <3>8
      <3>10. \A x : Contains(u, x) <=> Contains(v, x)
        BY <3>1, <3>2, <3>5, <3>8, <3>9
      <3>11. u = v
        BY <3>6, <3>7, <3>10
      <3>12. QED
        BY <3>4, <3>8, <3>11 DEF l
    <2>3. bad \in SUBSET Seq(X)
      OBVIOUS
    <2> HIDE DEF bad
    <2>4. QED
      BY <2>1, <2>2, <2>3, ShortestSeq
  <1>2. Same(s, t)
    OBVIOUS
  <1>3. QED
    BY <1>1, <1>2

====================================================================================
