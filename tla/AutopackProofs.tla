--------------------------- MODULE AutopackProofs ---------------------------
(***************************************************************************)
(* Proofs about AutopackPlan: however many revisions each commit brings,   *)
(* autopack leaves no more packs than the digit sum of the number of       *)
(* revisions.                                                              *)
(***************************************************************************)
EXTENDS AutopackPlan, Induction

-----------------------------------------------------------------------------
(* Sums of revision counts *)

\* The partial sums in TotalRevs.
Sums(s) == CHOOSE g : g = [i \in 0 .. Len(s) |-> IF i = 0 THEN 0 ELSE g[i - 1] + s[i]]

(* Each partial sum is the one before and one count more.                     *)
LEMMA SumsEquation ==
  ASSUME NEW s \in Seq(Nat)
  PROVE  /\ TotalRevs(s) = Sums(s)[Len(s)] /\ Len(s) \in Nat
         /\ Sums(s)[0] = 0
         /\ \A i \in 1 .. Len(s) : Sums(s)[i] = Sums(s)[i - 1] + s[i]
<1> DEFINE N == Len(s)
           pred == [i \in 1 .. N |-> i - 1]
           F == [x \in (1 .. N) \X Nat |-> x[2] + s[x[1]]]
           Body(g) == [i \in 0 .. N |-> IF i = 0 THEN 0 ELSE g[i - 1] + s[i]]
<1>1. TotalRevs(s) = Sums(s)[Len(s)] /\ N \in Nat
  BY DEF TotalRevs, Sums
<1>2. PICK g \in [0 .. N -> Nat] : g[0] = 0 /\ \A n \in 1 .. N : g[n] = F[<<n, g[pred[n]]>>]
  <2>1. pred \in [1 .. N -> Nat] /\ (\A n \in 1 .. N : pred[n] < n) /\ 0 \in Nat
    BY <1>1
  <2>2. F \in [(1 .. N) \X Nat -> Nat]
    <3>1. \A i \in 1 .. N : s[i] \in Nat
      OBVIOUS
    <3> QED BY <3>1
  <2>3. Recursion(N, Nat, 0, pred, F)
    <3> HIDE DEF pred, F, N
    <3> QED BY <1>1, <2>1, <2>2 DEF Recursion
  <2>4. PICK g : Defines(N, Nat, 0, pred, F, g)
    <3> HIDE DEF pred, F, N
    <3> QED BY <2>3, RecursionExists
  <2> HIDE DEF pred, F, N
  <2> QED BY <2>4 DEF Defines
<1>3. \A n \in 1 .. N : g[n] = g[n - 1] + s[n]
  <2> SUFFICES ASSUME NEW n \in 1 .. N PROVE g[n] = g[n - 1] + s[n]
    OBVIOUS
  <2>1. pred[n] = n - 1 /\ g[n - 1] \in Nat
    BY <1>2
  <2>2. F[<<n, g[n - 1]>>] = g[n - 1] + s[n]
    BY <2>1
  <2> HIDE DEF F, pred
  <2> QED BY <1>2, <2>1, <2>2
<1>4. g = Body(g)
  BY <1>2, <1>3
<1>5. Sums(s) = CHOOSE f : f = Body(f)
  BY DEF Sums
<1>6. Sums(s) = Body(Sums(s))
  <2> HIDE DEF Body
  <2> QED BY <1>4, <1>5
<1> DEFINE h == Sums(s)
<1> HIDE DEF h
<1>7. h = Body(h)
  BY <1>6 DEF h
<1>8. h[0] = 0 /\ \A i \in 1 .. N : h[i] = h[i - 1] + s[i]
  <2>1. \A i \in 0 .. N : h[i] = IF i = 0 THEN 0 ELSE h[i - 1] + s[i]
    BY <1>7
  <2>2. 0 \in 0 .. N
    BY <1>1
  <2> QED BY <2>1, <2>2
<1> QED BY <1>1, <1>8 DEF h

(* Sums of counts are counts.                                                 *)
LEMMA SumsType ==
  ASSUME NEW s \in Seq(Nat)
  PROVE  /\ \A i \in 0 .. Len(s) : Sums(s)[i] \in Nat
         /\ TotalRevs(s) \in Nat
<1> DEFINE S == {n \in Nat : n <= Len(s) => Sums(s)[n] \in Nat}
<1>1. 0 \in S
  BY SumsEquation
<1>2. ASSUME NEW n \in Nat, n \in S PROVE n + 1 \in S
  <2> SUFFICES ASSUME n + 1 <= Len(s) PROVE Sums(s)[n + 1] \in Nat
    OBVIOUS
  <2>1. n + 1 \in 1 .. Len(s) /\ (n + 1) - 1 = n /\ Sums(s)[n] \in Nat /\ s[n + 1] \in Nat
    BY <1>2
  <2>2. Sums(s)[n + 1] = Sums(s)[n] + s[n + 1]
    BY <2>1, SumsEquation
  <2> QED BY <2>1, <2>2
<1> HIDE DEF S
<1>3. \A n \in Nat : n \in S
  BY <1>1, <1>2, NatSetInduction
<1> QED BY <1>3, SumsEquation DEF S

(* Only what is summed up matters.                                            *)
LEMMA SumsAgree ==
  ASSUME NEW s \in Seq(Nat), NEW u \in Seq(Nat), NEW k \in Nat, k <= Len(s), k <= Len(u),
         \A i \in 1 .. k : s[i] = u[i]
  PROVE  Sums(s)[k] = Sums(u)[k]
<1> DEFINE S == {n \in Nat : n <= k => Sums(s)[n] = Sums(u)[n]}
<1>1. 0 \in S
  BY SumsEquation
<1>2. ASSUME NEW n \in Nat, n \in S PROVE n + 1 \in S
  <2> SUFFICES ASSUME n + 1 <= k PROVE Sums(s)[n + 1] = Sums(u)[n + 1]
    OBVIOUS
  <2>1. n + 1 \in 1 .. Len(s) /\ n + 1 \in 1 .. Len(u) /\ n + 1 \in 1 .. k /\ (n + 1) - 1 = n
    OBVIOUS
  <2>2. Sums(s)[n] = Sums(u)[n] /\ s[n + 1] = u[n + 1]
    BY <1>2, <2>1
  <2> QED BY <2>1, <2>2, SumsEquation
<1> HIDE DEF S
<1>3. \A n \in Nat : n \in S
  BY <1>1, <1>2, NatSetInduction
<1> QED BY <1>3 DEF S

(* The sum of nothing, and of a list with one more pack at its end ...        *)
LEMMA TotalAppend ==
  ASSUME NEW s \in Seq(Nat), NEW n \in Nat
  PROVE  TotalRevs(<<>>) = 0 /\ TotalRevs(Append(s, n)) = TotalRevs(s) + n
<1>1. TotalRevs(<<>>) = 0
  <2>1. <<>> \in Seq(Nat) /\ Len(<<>>) = 0
    OBVIOUS
  <2> QED BY <2>1, SumsEquation
<1>2. /\ Append(s, n) \in Seq(Nat) /\ Len(s) \in Nat /\ Len(Append(s, n)) = Len(s) + 1
      /\ Append(s, n)[Len(s) + 1] = n /\ \A i \in 1 .. Len(s) : Append(s, n)[i] = s[i]
  OBVIOUS
<1>3. Sums(Append(s, n))[Len(s)] = Sums(s)[Len(s)]
  <2> DEFINE u == Append(s, n)
  <2>1. /\ u \in Seq(Nat) /\ Len(s) \in Nat /\ Len(s) <= Len(u) /\ Len(s) <= Len(s)
        /\ \A i \in 1 .. Len(s) : u[i] = s[i]
    BY <1>2
  <2> HIDE DEF u
  <2>2. Sums(u)[Len(s)] = Sums(s)[Len(s)]
    BY <2>1, SumsAgree
  <2> QED BY <2>2 DEF u
<1>4. Len(s) + 1 \in 1 .. Len(Append(s, n)) /\ (Len(s) + 1) - 1 = Len(s)
  BY <1>2
<1>5. Sums(Append(s, n))[Len(s) + 1] = Sums(Append(s, n))[Len(s)] + n
  <2> DEFINE u == Append(s, n)
  <2>1. u \in Seq(Nat) /\ Len(s) + 1 \in 1 .. Len(u) /\ u[Len(s) + 1] = n
    BY <1>2, <1>4
  <2> HIDE DEF u
  <2>2. Sums(u)[Len(s) + 1] = Sums(u)[(Len(s) + 1) - 1] + u[Len(s) + 1]
    BY <2>1, SumsEquation
  <2> QED BY <1>4, <2>1, <2>2 DEF u
<1>6. TotalRevs(Append(s, n)) = Sums(Append(s, n))[Len(s) + 1] /\ TotalRevs(s) = Sums(s)[Len(s)]
  BY <1>2, SumsEquation
<1> QED BY <1>1, <1>3, <1>5, <1>6

(* ... or at its beginning.                                                   *)
LEMMA TotalTail ==
  ASSUME NEW s \in Seq(Nat), s # <<>>
  PROVE  TotalRevs(s) = Head(s) + TotalRevs(Tail(s))
<1> DEFINE u == Tail(s)
           S == {n \in Nat : n + 1 <= Len(s) => Sums(s)[n + 1] = Head(s) + Sums(u)[n]}
<1>1. /\ u \in Seq(Nat) /\ Len(s) \in Nat /\ Len(s) >= 1 /\ Len(u) = Len(s) - 1
      /\ Head(s) = s[1] /\ Head(s) \in Nat /\ \A i \in 1 .. Len(u) : u[i] = s[i + 1]
  OBVIOUS
<1> HIDE DEF u
<1>2. 0 \in S
  <2>1. Sums(s)[0] = 0 /\ Sums(u)[0] = 0 /\ Sums(s)[1] = Sums(s)[1 - 1] + s[1]
    <3>1. 1 \in 1 .. Len(s)
      BY <1>1
    <3> QED BY <1>1, <3>1, SumsEquation
  <2> QED BY <1>1, <2>1
<1>3. ASSUME NEW n \in Nat, n \in S PROVE n + 1 \in S
  <2> SUFFICES ASSUME (n + 1) + 1 <= Len(s) PROVE Sums(s)[(n + 1) + 1] = Head(s) + Sums(u)[n + 1]
    OBVIOUS
  <2>1. /\ (n + 1) + 1 \in 1 .. Len(s) /\ ((n + 1) + 1) - 1 = n + 1 /\ n + 1 \in 1 .. Len(u)
        /\ (n + 1) - 1 = n /\ n \in 0 .. Len(u)
    BY <1>1
  <2>2. Sums(s)[(n + 1) + 1] = Sums(s)[n + 1] + s[(n + 1) + 1]
    BY <2>1, SumsEquation
  <2>3. Sums(u)[n + 1] = Sums(u)[n] + u[n + 1] /\ u[n + 1] = s[(n + 1) + 1] /\ u[n + 1] \in Nat
    <3>1. u[n + 1] = s[(n + 1) + 1] /\ u[n + 1] \in Nat
      BY <1>1, <2>1
    <3>2. Sums(u)[n + 1] = Sums(u)[(n + 1) - 1] + u[n + 1]
      BY <1>1, <2>1, SumsEquation
    <3> QED BY <2>1, <3>1, <3>2
  <2>4. Sums(s)[n + 1] = Head(s) + Sums(u)[n] /\ Sums(u)[n] \in Nat
    BY <1>1, <1>3, <2>1, SumsType
  <2>5. \A h, a, b \in Nat : (h + a) + b = h + (a + b)
    OBVIOUS
  <2>6. Sums(s)[(n + 1) + 1] = (Head(s) + Sums(u)[n]) + u[n + 1]
    BY <2>2, <2>3, <2>4
  <2>7. (Head(s) + Sums(u)[n]) + u[n + 1] = Head(s) + (Sums(u)[n] + u[n + 1])
    BY <1>1, <2>3, <2>4, <2>5
  <2> QED BY <2>3, <2>6, <2>7
<1> HIDE DEF S
<1>4. \A n \in Nat : n \in S
  BY <1>2, <1>3, NatSetInduction
<1>5. Len(u) \in Nat /\ Len(u) \in S /\ Len(u) + 1 = Len(s)
  BY <1>1, <1>4
<1>6. Sums(s)[Len(s)] = Head(s) + Sums(u)[Len(u)]
  BY <1>5 DEF S
<1> QED BY <1>1, <1>6, SumsEquation DEF u

-----------------------------------------------------------------------------
(* Sorting *)

Sorted(s) == \A i, j \in 1 .. Len(s) : i < j => s[i] >= s[j]

(* There is a place for every pack.                                           *)
LEMMA PlaceFound ==
  ASSUME NEW s \in Seq(Nat), Sorted(s), NEW n \in Nat
  PROVE  /\ Place(s, n) \in 1 .. Len(s) + 1
         /\ \A i \in 1 .. Len(s) : s[i] >= n <=> i < Place(s, n)
<1> DEFINE Here(p) == \A i \in 1 .. Len(s) : s[i] >= n <=> i < p
           T == {i \in 1 .. Len(s) + 1 : i = Len(s) + 1 \/ s[i] < n}
<1>1. PICK p \in T : \A i \in T : p <= i
  <2>1. T \subseteq Nat /\ Len(s) + 1 \in T
    OBVIOUS
  <2> HIDE DEF T
  <2> QED BY <2>1, LeastNat
<1>2. Here(p)
  <2> SUFFICES ASSUME NEW i \in 1 .. Len(s) PROVE s[i] >= n <=> i < p
    OBVIOUS
  <2>1. s[i] \in Nat /\ (p # Len(s) + 1 => s[p] \in Nat /\ s[p] < n)
    BY SMTT(30), <1>1
  <2>2. i < p => s[i] >= n
    BY <1>1, <2>1
  <2>3. i = p => ~(s[i] >= n)
    BY <1>1, <2>1
  <2>4. p < i => s[p] >= s[i]
    BY <1>1 DEF Sorted
  <2>5. p < i => ~(s[i] >= n)
    BY <1>1, <2>1, <2>4
  <2> QED BY <1>1, <2>2, <2>3, <2>5
<1>3. Place(s, n) = CHOOSE q \in 1 .. Len(s) + 1 : Here(q)
  BY DEF Place
<1> HIDE DEF Here
<1>4. Place(s, n) \in 1 .. Len(s) + 1 /\ Here(Place(s, n))
  BY <1>1, <1>2, <1>3
<1> QED BY <1>4 DEF Here

(* A list of members of R is one of members of any larger set.                *)
LEMMA SeqWidens ==
  ASSUME NEW T, NEW R, R \subseteq T, NEW s \in Seq(R)
  PROVE  s \in Seq(T) /\ Len(s) \in Nat /\ \A i \in 1 .. Len(s) : s[i] \in R
<1>1. Len(s) \in Nat /\ \A i \in 1 .. Len(s) : s[i] \in R
  OBVIOUS
<1>2. s = [i \in 1 .. Len(s) |-> s[i]]
  OBVIOUS
<1> QED BY <1>1, <1>2

(* Sorting a pack in keeps what is sorted, and adds its revisions.            *)
LEMMA InsertSorts ==
  ASSUME NEW R, R \subseteq Nat, NEW s \in Seq(R), Sorted(s), NEW n \in R
  PROVE  /\ Insert(s, n) \in Seq(R) /\ Len(Insert(s, n)) = Len(s) + 1
         /\ Sorted(Insert(s, n))
         /\ TotalRevs(Insert(s, n)) = TotalRevs(s) + n
<1> DEFINE p == Place(s, n)
           u == Insert(s, n)
<1>1. /\ s \in Seq(Nat) /\ Len(s) \in Nat /\ n \in Nat
      /\ \A i \in 1 .. Len(s) : s[i] \in R /\ s[i] \in Nat
  BY SeqWidens
<1>2. p \in 1 .. Len(s) + 1 /\ \A i \in 1 .. Len(s) : s[i] >= n <=> i < p
  BY <1>1, PlaceFound
<1> HIDE DEF p
<1>3. ASSUME NEW i \in 1 .. Len(s) + 1
      PROVE  /\ i < p => i \in 1 .. Len(s) /\ u[i] = s[i]
             /\ i = p => u[i] = n
             /\ i > p => i - 1 \in 1 .. Len(s) /\ u[i] = s[i - 1]
             /\ u[i] \in R
  <2>1. u[i] = CASE i < p -> s[i] [] i = p -> n [] i > p -> s[i - 1]
    BY DEF Insert, p
  <2> HIDE DEF u
  <2>2. CASE i < p
    BY <1>1, <1>2, <2>1, <2>2
  <2>3. CASE i = p
    BY <1>1, <1>2, <2>1, <2>3
  <2>4. CASE i > p
    BY <1>1, <1>2, <2>1, <2>4
  <2> QED BY <1>2, <2>2, <2>3, <2>4
<1>4. u \in Seq(R) /\ Len(u) = Len(s) + 1
  <2>1. u = [i \in 1 .. Len(s) + 1 |-> u[i]]
    <3> DEFINE Val(i) == CASE i < p -> s[i] [] i = p -> n [] i > p -> s[i - 1]
    <3>1. u = [i \in 1 .. Len(s) + 1 |-> Val(i)]
      BY DEF Insert, p
    <3> HIDE DEF u, Val
    <3> QED BY <3>1
  <2> HIDE DEF u
  <2> QED BY <1>1, <1>3, <2>1
<1> HIDE DEF u
<1>5. Sorted(u)
  <2> SUFFICES ASSUME NEW i \in 1 .. Len(s) + 1, NEW j \in 1 .. Len(s) + 1, i < j PROVE u[i] >= u[j]
    BY <1>4 DEF Sorted
  <2>1. CASE j < p
    BY <1>1, <1>2, <1>3, <2>1 DEF Sorted
  <2>2. CASE j = p
    BY <1>1, <1>2, <1>3, <2>2
  <2>3. CASE j > p
    <3>1. u[j] = s[j - 1] /\ j - 1 \in 1 .. Len(s) /\ j - 1 >= p
      BY <1>2, <1>3, <2>3
    <3>2. CASE i < p
      <4>1. u[i] = s[i] /\ i \in 1 .. Len(s) /\ i < j - 1
        BY <1>2, <1>3, <3>1, <3>2
      <4> QED BY <3>1, <4>1 DEF Sorted
    <3>3. CASE i = p
      <4>1. s[j - 1] \in Nat /\ ~(s[j - 1] >= n)
        BY <1>1, <1>2, <3>1
      <4> QED BY <1>1, <1>3, <3>1, <3>3, <4>1
    <3>4. CASE i > p
      <4>1. u[i] = s[i - 1] /\ i - 1 \in 1 .. Len(s) /\ i - 1 < j - 1
        BY <1>2, <1>3, <3>4
      <4> QED BY <3>1, <4>1 DEF Sorted
    <3> QED BY <1>2, <3>2, <3>3, <3>4
  <2> QED BY <1>2, <2>1, <2>2, <2>3
<1>6. TotalRevs(u) = TotalRevs(s) + n
  <2> DEFINE S == {i \in Nat : i <= Len(s) + 1 =>
                     Sums(u)[i] = IF i < p THEN Sums(s)[i] ELSE Sums(s)[i - 1] + n}
  <2>1. u \in Seq(Nat)
    BY <1>4, SeqWidens
  <2>2. 0 \in S
    <3>1. Sums(u)[0] = 0 /\ Sums(s)[0] = 0
      BY <1>1, <2>1, SumsEquation
    <3> QED BY <1>2, <3>1
  <2>3. ASSUME NEW i \in Nat, i \in S PROVE i + 1 \in S
    <3> SUFFICES ASSUME i + 1 <= Len(s) + 1
                 PROVE  Sums(u)[i + 1] = IF i + 1 < p THEN Sums(s)[i + 1] ELSE Sums(s)[(i + 1) - 1] + n
      OBVIOUS
    <3>1. i + 1 \in 1 .. Len(u) /\ (i + 1) - 1 = i /\ i \in 0 .. Len(s) /\ i + 1 \in 1 .. Len(s) + 1
      BY <1>1, <1>4
    <3>2. Sums(u)[i + 1] = Sums(u)[i] + u[i + 1]
      BY <2>1, <3>1, SumsEquation
    <3>3. Sums(u)[i] = IF i < p THEN Sums(s)[i] ELSE Sums(s)[i - 1] + n
      BY <2>3, <3>1
    <3>4. CASE i + 1 < p
      <4>1. u[i + 1] = s[i + 1] /\ i + 1 \in 1 .. Len(s) /\ i < p
        BY <1>2, <1>3, <3>1, <3>4
      <4>2. Sums(s)[i + 1] = Sums(s)[i] + s[i + 1]
        BY <1>1, <3>1, <4>1, SumsEquation
      <4> QED BY <3>2, <3>3, <3>4, <4>1, <4>2
    <3>5. CASE i + 1 = p
      <4>1. u[i + 1] = n /\ i < p
        BY <1>2, <1>3, <3>1, <3>5
      <4> QED BY <3>1, <3>2, <3>3, <3>5, <4>1
    <3>6. CASE i + 1 > p
      <4>1. u[i + 1] = s[i] /\ i \in 1 .. Len(s) /\ ~(i < p) /\ ~(i + 1 < p) /\ i - 1 \in 0 .. Len(s)
        BY <1>2, <1>3, <3>1, <3>6
      <4>2. Sums(s)[i] = Sums(s)[i - 1] + s[i] /\ Sums(s)[i - 1] \in Nat /\ s[i] \in Nat
        BY <1>1, <4>1, SumsEquation, SumsType
      <4>3. Sums(u)[i + 1] = Sums(s)[i - 1] + n + s[i]
        BY <3>2, <3>3, <4>1
      <4>4. Sums(u)[i + 1] = Sums(s)[i] + n
        BY <1>1, <4>2, <4>3
      <4> QED BY <3>1, <4>1, <4>4
    <3> QED BY <1>2, <3>1, <3>4, <3>5, <3>6
  <2> HIDE DEF S
  <2>4. \A i \in Nat : i \in S
    BY <2>2, <2>3, NatSetInduction
  <2>5. Sums(u)[Len(s) + 1] = IF Len(s) + 1 < p THEN Sums(s)[Len(s) + 1] ELSE Sums(s)[(Len(s) + 1) - 1] + n
    <3>1. Len(s) + 1 \in Nat /\ Len(s) + 1 <= Len(s) + 1
      BY <1>1
    <3> QED BY <2>4, <3>1 DEF S
  <2>6. ~(Len(s) + 1 < p) /\ (Len(s) + 1) - 1 = Len(s)
    BY <1>1, <1>2
  <2>7. TotalRevs(u) = Sums(u)[Len(s) + 1] /\ TotalRevs(s) = Sums(s)[Len(s)]
    BY <1>1, <1>4, <2>1, SumsEquation
  <2> QED BY <2>5, <2>6, <2>7
<1> QED BY <1>4, <1>5, <1>6 DEF u

-----------------------------------------------------------------------------
(* Digits *)

\* What the recursions of DigitSum and Sizes go back to.
Tens == [n \in 1 .. MaxRevs |-> n \div 10]

(* Dividing by ten makes a number smaller.                                    *)
LEMMA TensSmaller ==
  /\ MaxRevs \in Nat /\ Tens \in [1 .. MaxRevs -> Nat]
  /\ \A n \in 1 .. MaxRevs : /\ Tens[n] = n \div 10 /\ Tens[n] < n /\ Tens[n] \in 0 .. MaxRevs
                            /\ n % 10 \in Nat /\ (Tens[n] = 0 => n % 10 = n)
<1>1. MaxRevs \in Nat
  BY PlanAssumption DEF PlanAssumption
<1>2. ASSUME NEW n \in Nat, n >= 1
      PROVE  n \div 10 \in Nat /\ n \div 10 < n /\ n % 10 \in Nat /\ (n \div 10 = 0 => n % 10 = n)
  <2> DEFINE q == n \div 10
             d == n % 10
  <2>1. q \in Int /\ d \in 0 .. 9 /\ n = 10 * q + d
    OBVIOUS
  <2> HIDE DEF q, d
  <2>2. q \in Nat /\ q < n /\ d \in Nat /\ (q = 0 => d = n)
    BY <1>2, <2>1
  <2> QED BY <2>2 DEF q, d
<1> QED BY <1>1, <1>2 DEF Tens

(* The digit sum is what the recursion says, and at least 1 but for 0.         *)
LEMMA DigitSumEquation ==
  /\ DigitSum[0] = 0
  /\ \A n \in 1 .. MaxRevs : DigitSum[n] = DigitSum[n \div 10] + (n % 10)
<1> DEFINE N == MaxRevs
           F == [x \in (1 .. N) \X Nat |-> x[2] + (x[1] % 10)]
           Body(g) == [n \in 0 .. N |-> IF n = 0 THEN 0 ELSE g[n \div 10] + (n % 10)]
           h == DigitSum
<1>1. Recursion(N, Nat, 0, Tens, F)
  <2>1. F \in [(1 .. N) \X Nat -> Nat]
    BY TensSmaller
  <2> HIDE DEF F
  <2> QED BY <2>1, TensSmaller DEF Recursion
<1>2. PICK g : Defines(N, Nat, 0, Tens, F, g)
  <2> HIDE DEF N, F
  <2> QED BY <1>1, RecursionExists
<1>3. ASSUME NEW n \in 1 .. N PROVE g[n] = g[n \div 10] + (n % 10)
  <2>1. Tens[n] = n \div 10 /\ g[n \div 10] \in Nat /\ g[n] = F[<<n, g[Tens[n]]>>]
    <3> HIDE DEF F
    <3> QED BY <1>2, TensSmaller DEF Defines
  <2>2. F[<<n, g[n \div 10]>>] = g[n \div 10] + (n % 10)
    BY <2>1
  <2> HIDE DEF F
  <2> QED BY <2>1, <2>2
<1>4. g = Body(g)
  <2> HIDE DEF F
  <2> QED BY <1>2, <1>3 DEF Defines
<1>5. DigitSum = CHOOSE f : f = Body(f)
  BY DEF DigitSum
<1>6. h = Body(h)
  <2> HIDE DEF Body
  <2> QED BY <1>4, <1>5
<1> HIDE DEF h
<1>7. h[0] = 0 /\ \A n \in 1 .. N : h[n] = h[n \div 10] + (n % 10)
  <2>1. \A n \in 0 .. N : h[n] = IF n = 0 THEN 0 ELSE h[n \div 10] + (n % 10)
    BY <1>6
  <2>2. 0 \in 0 .. N /\ N \in Nat
    BY TensSmaller
  <2> QED BY <2>1, <2>2
<1> QED BY <1>7 DEF h

(* The distribution has one entry for each unit of a digit: as many as the    *)
(* digit sum says there may be packs.                                         *)
LEMMA SizesEquation ==
  /\ Sizes[0] = <<>>
  /\ \A n \in 1 .. MaxRevs :
       /\ Sizes[n \div 10] \in Seq(Nat)
       /\ Sizes[n] = [i \in 1 .. Len(Sizes[n \div 10]) + (n % 10) |->
                        IF i <= Len(Sizes[n \div 10]) THEN 10 * Sizes[n \div 10][i] ELSE 1]
       /\ Sizes[n] \in Seq(Nat) /\ Len(Sizes[n]) = Len(Sizes[n \div 10]) + (n % 10)
<1> DEFINE N == MaxRevs
           More(tens, n) == [i \in 1 .. Len(tens) + (n % 10) |-> IF i <= Len(tens) THEN 10 * tens[i] ELSE 1]
           F == [x \in (1 .. N) \X Seq(Nat) |-> More(x[2], x[1])]
           Body(g) == [n \in 0 .. N |-> IF n = 0 THEN <<>> ELSE More(g[n \div 10], n)]
           h == Sizes
<1>1. ASSUME NEW tens \in Seq(Nat), NEW n \in 1 .. N
      PROVE  More(tens, n) \in Seq(Nat) /\ Len(More(tens, n)) = Len(tens) + (n % 10)
  <2>1. Len(tens) \in Nat /\ n % 10 \in Nat /\ Len(tens) + (n % 10) \in Nat
    BY TensSmaller
  <2>2. \A i \in 1 .. Len(tens) + (n % 10) : (IF i <= Len(tens) THEN 10 * tens[i] ELSE 1) \in Nat
    BY <2>1
  <2> QED BY <2>1, <2>2
<1> HIDE DEF More
<1>2. Recursion(N, Seq(Nat), <<>>, Tens, F)
  <2>1. F \in [(1 .. N) \X Seq(Nat) -> Seq(Nat)]
    BY <1>1
  <2>2. <<>> \in Seq(Nat)
    OBVIOUS
  <2> HIDE DEF F
  <2> QED BY <2>1, <2>2, TensSmaller DEF Recursion
<1>3. PICK g : Defines(N, Seq(Nat), <<>>, Tens, F, g)
  <2> HIDE DEF N, F
  <2> QED BY <1>2, RecursionExists
<1>4. ASSUME NEW n \in 1 .. N PROVE g[n] = More(g[n \div 10], n)
  <2>1. Tens[n] = n \div 10 /\ g[n \div 10] \in Seq(Nat) /\ g[n] = F[<<n, g[Tens[n]]>>]
    <3> HIDE DEF F
    <3> QED BY <1>3, TensSmaller DEF Defines
  <2>2. F[<<n, g[n \div 10]>>] = More(g[n \div 10], n)
    BY <2>1
  <2> HIDE DEF F
  <2> QED BY <2>1, <2>2
<1>5. g = Body(g)
  <2> HIDE DEF F
  <2> QED BY <1>3, <1>4 DEF Defines
<1>6. Sizes = CHOOSE f : f = Body(f)
  BY DEF Sizes, More
<1>7. h = Body(h)
  <2> HIDE DEF Body
  <2> QED BY <1>5, <1>6
<1> HIDE DEF h
<1>8. h[0] = <<>> /\ \A n \in 1 .. N : h[n] = More(h[n \div 10], n)
  <2>1. \A n \in 0 .. N : h[n] = IF n = 0 THEN <<>> ELSE More(h[n \div 10], n)
    BY <1>7
  <2>2. 0 \in 0 .. N /\ N \in Nat
    BY TensSmaller
  <2> QED BY <2>1, <2>2
<1>9. \A n \in 0 .. N : h[n] \in Seq(Nat)
  <2> DEFINE S == {n \in Nat : n <= N => h[n] \in Seq(Nat)}
  <2>1. ASSUME NEW n \in Nat, \A m \in Nat : m < n => m \in S PROVE n \in S
    <3> SUFFICES ASSUME n <= N PROVE h[n] \in Seq(Nat)
      OBVIOUS
    <3>1. CASE n = 0
      <4>1. <<>> \in Seq(Nat)
        OBVIOUS
      <4> QED BY <1>8, <3>1, <4>1
    <3>2. CASE n # 0
      <4>1. n \in 1 .. N /\ n \div 10 \in Nat /\ n \div 10 < n /\ n \div 10 <= N
        BY <3>2, TensSmaller
      <4>2. h[n \div 10] \in Seq(Nat)
        BY <2>1, <4>1
      <4> QED BY <1>1, <1>8, <4>1, <4>2
    <3> QED BY <3>1, <3>2
  <2> HIDE DEF S
  <2>2. \A n \in Nat : n \in S
    BY <2>1, StrongInduction
  <2> QED BY <2>2 DEF S
<1>10. ASSUME NEW n \in 1 .. N
       PROVE  /\ h[n \div 10] \in Seq(Nat) /\ h[n] = More(h[n \div 10], n)
              /\ h[n] \in Seq(Nat) /\ Len(h[n]) = Len(h[n \div 10]) + (n % 10)
  <2>1. n \div 10 \in 0 .. N
    BY TensSmaller
  <2> QED BY <1>1, <1>8, <1>9, <2>1
<1> QED BY <1>8, <1>10 DEF h, More

(* What _max_pack_count and pack_distribution have in common.                 *)
LEMMA CountsAgree ==
  ASSUME NEW n \in 0 .. MaxRevs
  PROVE  /\ MaxPackCount(n) \in Nat /\ MaxPackCount(n) >= 1
         /\ PackDistribution(n) \in Seq(Nat) /\ Len(PackDistribution(n)) = MaxPackCount(n)
<1> DEFINE S == {k \in Nat : k <= MaxRevs =>
                   /\ DigitSum[k] \in Nat /\ (k # 0 => DigitSum[k] >= 1)
                   /\ Sizes[k] \in Seq(Nat) /\ Len(Sizes[k]) = DigitSum[k]}
<1>1. ASSUME NEW k \in Nat, \A m \in Nat : m < k => m \in S PROVE k \in S
  <2> SUFFICES ASSUME k <= MaxRevs
               PROVE  /\ DigitSum[k] \in Nat /\ (k # 0 => DigitSum[k] >= 1)
                      /\ Sizes[k] \in Seq(Nat) /\ Len(Sizes[k]) = DigitSum[k]
    OBVIOUS
  <2>1. CASE k = 0
    <3>1. DigitSum[k] = 0 /\ Sizes[k] = <<>>
      BY <2>1, DigitSumEquation, SizesEquation
    <3> QED BY <2>1, <3>1
  <2>2. CASE k # 0
    <3> DEFINE m == k \div 10
               d == k % 10
    <3>1. k \in 1 .. MaxRevs /\ m \in Nat /\ m < k /\ m <= MaxRevs /\ d \in Nat /\ (m = 0 => d = k)
      BY <2>2, TensSmaller
    <3>2. DigitSum[k] = DigitSum[m] + d
      BY <3>1, DigitSumEquation
    <3>3. Sizes[k] \in Seq(Nat) /\ Len(Sizes[k]) = Len(Sizes[m]) + d
      BY <3>1, SizesEquation
    <3> HIDE DEF m, d
    <3>4. DigitSum[m] \in Nat /\ (m # 0 => DigitSum[m] >= 1) /\ Len(Sizes[m]) = DigitSum[m]
      BY <1>1, <3>1
    <3> QED BY <2>2, <3>1, <3>2, <3>3, <3>4
  <2> QED BY <2>1, <2>2
<1> HIDE DEF S
<1>2. \A k \in Nat : k \in S
  BY <1>1, StrongInduction
<1>3. CASE n = 0
  BY <1>3 DEF MaxPackCount, PackDistribution
<1>4. CASE n # 0
  <2>1. /\ DigitSum[n] \in Nat /\ DigitSum[n] >= 1
        /\ Sizes[n] \in Seq(Nat) /\ Len(Sizes[n]) = DigitSum[n]
    BY <1>2, <1>4, TensSmaller DEF S
  <2> QED BY <1>4, <2>1 DEF MaxPackCount, PackDistribution
<1> QED BY <1>3, <1>4

(* The distribution is one of all revisions: its sizes add up to n.           *)
LEMMA DistributionTotal ==
  ASSUME NEW n \in 0 .. MaxRevs
  PROVE  TotalRevs(PackDistribution(n)) = n
<1> DEFINE S == {k \in Nat : k <= MaxRevs => Sizes[k] \in Seq(Nat) /\ TotalRevs(Sizes[k]) = k}
<1>1. ASSUME NEW k \in Nat, \A m \in Nat : m < k => m \in S PROVE k \in S
  <2> SUFFICES ASSUME k <= MaxRevs PROVE Sizes[k] \in Seq(Nat) /\ TotalRevs(Sizes[k]) = k
    OBVIOUS
  <2>1. CASE k = 0
    <3>1. Sizes[k] = <<>> /\ <<>> \in Seq(Nat)
      BY <2>1, SizesEquation
    <3> QED BY <2>1, <3>1, TotalAppend
  <2>2. CASE k # 0
    <3> DEFINE m == k \div 10
               d == k % 10
               tens == Sizes[m]
               u == Sizes[k]
    <3>1. /\ k \in 1 .. MaxRevs /\ m \in Nat /\ m < k /\ m <= MaxRevs /\ d \in Nat /\ k = 10 * m + d
      BY <2>2, TensSmaller
    <3>2. tens \in Seq(Nat) /\ TotalRevs(tens) = m /\ Len(tens) \in Nat
      <4>1. m \in S
        BY <1>1, <3>1
      <4>2. tens \in Seq(Nat) /\ TotalRevs(tens) = m
        BY <3>1, <4>1
      <4> QED BY <4>2
    <3>3. /\ u \in Seq(Nat) /\ Len(u) = Len(tens) + d
          /\ u = [i \in 1 .. Len(tens) + d |-> IF i <= Len(tens) THEN 10 * tens[i] ELSE 1]
      BY <3>1, SizesEquation
    <3> HIDE DEF m, d, tens, u
    <3> DEFINE Q == {i \in Nat : i <= Len(tens) + d =>
                       Sums(u)[i] = IF i <= Len(tens) THEN 10 * Sums(tens)[i]
                                    ELSE 10 * Sums(tens)[Len(tens)] + (i - Len(tens))}
    <3>4. 0 \in Q
      <4>1. Sums(u)[0] = 0 /\ Sums(tens)[0] = 0
        BY <3>2, <3>3, SumsEquation
      <4> QED BY <3>2, <4>1
    <3>5. ASSUME NEW i \in Nat, i \in Q PROVE i + 1 \in Q
      <4> SUFFICES ASSUME i + 1 <= Len(tens) + d
                   PROVE  Sums(u)[i + 1] = IF i + 1 <= Len(tens) THEN 10 * Sums(tens)[i + 1]
                                           ELSE 10 * Sums(tens)[Len(tens)] + ((i + 1) - Len(tens))
        OBVIOUS
      <4>1. i + 1 \in 1 .. Len(u) /\ (i + 1) - 1 = i
        BY <3>1, <3>2, <3>3
      <4>2. Sums(u)[i + 1] = Sums(u)[i] + u[i + 1]
        BY <3>3, <4>1, SumsEquation
      <4>3. Sums(u)[i] = IF i <= Len(tens) THEN 10 * Sums(tens)[i]
                         ELSE 10 * Sums(tens)[Len(tens)] + (i - Len(tens))
        BY <3>1, <3>2, <3>5
      <4>4. CASE i + 1 <= Len(tens)
        <5>1. i + 1 \in 1 .. Len(tens) /\ i \in 0 .. Len(tens) /\ i + 1 \in 1 .. Len(tens) + d
          BY <3>1, <3>2, <4>4
        <5>2. u[i + 1] = 10 * tens[i + 1] /\ tens[i + 1] \in Nat
          BY <3>2, <3>3, <5>1
        <5>3. Sums(tens)[i + 1] = Sums(tens)[i] + tens[i + 1] /\ Sums(tens)[i] \in Nat
          BY <3>2, <4>1, <5>1, SumsEquation, SumsType
        <5> QED BY <4>2, <4>3, <4>4, <5>1, <5>2, <5>3
      <4>5. CASE i + 1 > Len(tens)
        <5>1. u[i + 1] = 1 /\ i \in 0 .. Len(tens) + d
          BY <3>1, <3>2, <3>3, <4>1, <4>5
        <5>2. Sums(tens)[Len(tens)] \in Nat
          BY <3>2, SumsType
        <5>3. CASE i = Len(tens)
          BY <3>2, <4>2, <4>3, <4>5, <5>1, <5>2, <5>3
        <5>4. CASE i > Len(tens)
          <6>1. Sums(u)[i] = 10 * Sums(tens)[Len(tens)] + (i - Len(tens))
            BY <3>2, <4>3, <5>4
          <6>2. Sums(u)[i + 1] = 10 * Sums(tens)[Len(tens)] + ((i + 1) - Len(tens))
            BY <3>2, <4>2, <5>1, <5>2, <6>1
          <6> QED BY <3>2, <4>5, <6>2
        <5> QED BY <3>2, <4>5, <5>3, <5>4
      <4> QED BY <3>2, <4>4, <4>5
    <3> HIDE DEF Q
    <3>6. \A i \in Nat : i \in Q
      BY <3>4, <3>5, NatSetInduction
    <3>7. Sums(u)[Len(u)] = 10 * Sums(tens)[Len(tens)] + d
      <4>1. Len(u) \in Nat /\ Len(u) = Len(tens) + d /\ Len(u) \in Q
        BY <3>1, <3>2, <3>3, <3>6
      <4>2. Sums(tens)[Len(tens)] \in Nat
        BY <3>2, SumsType
      <4>3. Sums(u)[Len(u)] = IF Len(u) <= Len(tens) THEN 10 * Sums(tens)[Len(u)]
                              ELSE 10 * Sums(tens)[Len(tens)] + (Len(u) - Len(tens))
        BY <3>1, <3>2, <4>1 DEF Q
      <4>4. CASE d = 0
        <5>1. Len(u) = Len(tens)
          BY <3>2, <4>1, <4>4
        <5> QED BY <3>2, <4>2, <4>3, <4>4, <5>1
      <4>5. CASE d > 0
        BY <3>1, <3>2, <4>1, <4>2, <4>3, <4>5
      <4> QED BY <3>1, <4>4, <4>5
    <3>8. TotalRevs(u) = 10 * TotalRevs(tens) + d
      BY <3>2, <3>3, <3>7, SumsEquation
    <3>9. u \in Seq(Nat) /\ TotalRevs(u) = k
      BY <3>1, <3>2, <3>3, <3>8
    <3> QED BY <3>9 DEF u
  <2> QED BY <2>1, <2>2
<1> HIDE DEF S
<1>2. \A k \in Nat : k \in S
  BY <1>1, StrongInduction
<1>3. CASE n = 0
  <2>1. PackDistribution(n) = <<0>>
    BY <1>3 DEF PackDistribution
  <2>2. <<0>> \in Seq(Nat) /\ <<0>> # <<>> /\ Head(<<0>>) = 0 /\ Tail(<<0>>) = <<>>
    OBVIOUS
  <2>3. TotalRevs(<<0>>) = 0 + TotalRevs(<<>>)
    BY <2>2, TotalTail
  <2>4. TotalRevs(<<>>) = 0
    <3>1. <<>> \in Seq(Nat) /\ 0 \in Nat
      OBVIOUS
    <3> QED BY <3>1, TotalAppend
  <2> QED BY <1>3, <2>1, <2>3, <2>4
<1>4. CASE n # 0
  BY <1>2, <1>4, TensSmaller DEF S, PackDistribution
<1> QED BY <1>3, <1>4
-----------------------------------------------------------------------------
(* The invariant *)

Counts == Nat \ {0}

Shape ==
  /\ packs \in Seq(Counts) /\ Sorted(packs) /\ TotalRevs(packs) <= MaxRevs /\ blanks \in Nat
  /\ pc \in {"idle", "plan", "consume"}
  /\ todo \in Seq(Counts) /\ kept \in Seq(Counts) /\ moved \in Seq(Counts)
  /\ dist \in Seq(Nat) /\ opRevs \in Nat /\ rest \in Nat

Resting == todo = <<>> /\ kept = <<>> /\ moved = <<>> /\ opRevs = 0 /\ rest = 0

\* What was looked at is larger than what was not, and no pack is dropped on the way.
InOrder ==
  /\ Sorted(todo) /\ Sorted(kept)
  /\ \A i \in 1 .. Len(kept), j \in 1 .. Len(todo) : kept[i] >= todo[j]
NoneDropped ==
  /\ TotalRevs(kept) + TotalRevs(moved) + TotalRevs(todo) = TotalRevs(packs)
  /\ Len(kept) + Len(moved) + Len(todo) = Len(packs)

\* The distribution still has room for all revisions that are to come, and an
\* operation with room left is for the head of the distribution.
RoomForAll ==
  /\ TotalRevs(todo) + opRevs + rest <= TotalRevs(dist)
  /\ pc = "plan" <=> rest = 0
  /\ opRevs > 0 =>
       pc = "plan" /\ moved # <<>> /\ dist # <<>> /\ \A j \in 1 .. Len(todo) : todo[j] < Head(dist)

\* How many packs there will be when each position left gets one: an operation that
\* has filled its position is one more.
Slots == Len(kept) + Len(dist) + (IF moved # <<>> /\ opRevs = 0 THEN 1 ELSE 0)
FewEnough ==
  LET most == MaxPackCount(TotalRevs(packs)) IN
  \/ Slots <= most
  \/ pc = "consume" /\ dist # <<>> /\ rest >= Head(dist) /\ Slots <= most + 1

Planning == InOrder /\ NoneDropped /\ RoomForAll /\ FewEnough

PlanInv ==
  /\ Shape
  /\ pc = "idle" => Resting /\ PackCountBounded
  /\ pc # "idle" => Planning

(* Counts are numbers, and have a sum.                                        *)
LEMMA CountsAreNumbers ==
  ASSUME NEW s \in Seq(Counts)
  PROVE  /\ s \in Seq(Nat) /\ Len(s) \in Nat /\ TotalRevs(s) \in Nat
         /\ \A i \in 1 .. Len(s) : s[i] \in Counts
<1>1. Counts \subseteq Nat
  BY DEF Counts
<1>2. s \in Seq(Nat) /\ Len(s) \in Nat /\ \A i \in 1 .. Len(s) : s[i] \in Counts
  BY <1>1, SeqWidens
<1> QED BY <1>2, SumsType

(* The first of the packs that are left is the largest of them.               *)
LEMMA TakeFirst ==
  ASSUME NEW s \in Seq(Counts), s # <<>>, Sorted(s)
  PROVE  /\ Head(s) \in Counts /\ Tail(s) \in Seq(Counts)
         /\ Len(s) \in Nat /\ Len(s) >= 1 /\ Len(Tail(s)) = Len(s) - 1
         /\ TotalRevs(s) = Head(s) + TotalRevs(Tail(s)) /\ TotalRevs(Tail(s)) \in Nat
         /\ Sorted(Tail(s))
         /\ Head(s) = s[1] /\ \A j \in 1 .. Len(Tail(s)) : Tail(s)[j] = s[j + 1] /\ Head(s) >= Tail(s)[j]
<1>1. /\ Head(s) \in Counts /\ Tail(s) \in Seq(Counts) /\ Len(s) \in Nat /\ Len(s) >= 1
      /\ Len(Tail(s)) = Len(s) - 1 /\ Head(s) = s[1]
      /\ \A j \in 1 .. Len(Tail(s)) : Tail(s)[j] = s[j + 1]
  OBVIOUS
<1>2. TotalRevs(s) = Head(s) + TotalRevs(Tail(s)) /\ TotalRevs(Tail(s)) \in Nat
  BY <1>1, CountsAreNumbers, TotalTail
<1>3. ASSUME NEW j \in 1 .. Len(Tail(s)) PROVE Head(s) >= Tail(s)[j]
  BY <1>1 DEF Sorted
<1>4. ASSUME NEW i \in 1 .. Len(Tail(s)), NEW j \in 1 .. Len(Tail(s)), i < j
      PROVE  Tail(s)[i] >= Tail(s)[j]
  <2>1. /\ i + 1 \in 1 .. Len(s) /\ j + 1 \in 1 .. Len(s) /\ i + 1 < j + 1
        /\ Tail(s)[i] = s[i + 1] /\ Tail(s)[j] = s[j + 1]
    BY <1>1, <1>4
  <2>2. s[i + 1] >= s[j + 1]
    BY <2>1 DEF Sorted
  <2> QED BY <2>1, <2>2
<1>5. Sorted(Tail(s))
  BY <1>4 DEF Sorted
<1> QED BY <1>1, <1>2, <1>3, <1>5

(* An empty list has nothing to add up, and is in order.                      *)
LEMMA NothingLeft ==
  TotalRevs(<<>>) = 0 /\ Sorted(<<>>) /\ Len(<<>>) = 0 /\ <<>> \in Seq(Counts) /\ <<>> \in Seq(Nat)
<1>1. <<>> \in Seq(Nat) /\ 0 \in Nat
  OBVIOUS
<1>2. TotalRevs(<<>>) = 0
  BY <1>1, TotalAppend
<1> QED BY <1>2 DEF Sorted

(* A commit, or a pack without revisions, ends with few enough packs or with  *)
(* a plan in the making.                                                      *)
LEMMA StartPlan ==
  ASSUME NEW s \in Seq(Counts), Sorted(s), TotalRevs(s) <= MaxRevs, NEW b \in Nat,
         Shape, pc = "idle", Resting,
         packs' = s, blanks' = b, Autopack(s, b), UNCHANGED <<kept, moved, opRevs, rest>>
  PROVE  PlanInv'
<1> DEFINE total == TotalRevs(s)
<1>1. s \in Seq(Nat) /\ Len(s) \in Nat /\ total \in 0 .. MaxRevs
  BY CountsAreNumbers, PlanAssumption
<1> HIDE DEF total
<1>2. /\ MaxPackCount(total) \in Nat /\ PackDistribution(total) \in Seq(Nat)
      /\ Len(PackDistribution(total)) = MaxPackCount(total)
  BY <1>1, CountsAgree
<1>3. kept' = <<>> /\ moved' = <<>> /\ opRevs' = 0 /\ rest' = 0
  BY DEF Resting
<1>4. CASE MaxPackCount(total) >= Len(s) + b \/ Len(s) <= Len(PackDistribution(total))
  <2>1. pc' = pc /\ todo' = todo /\ dist' = dist
    BY <1>4 DEF Autopack, total
  <2>2. Shape'
    BY <1>1, <1>3, <2>1 DEF Shape, Resting, total
  <2>3. Len(s) <= MaxPackCount(total)
    BY <1>1, <1>2, <1>4
  <2>4. Resting' /\ PackCountBounded'
    BY <1>3, <2>1, <2>3 DEF Resting, PackCountBounded, total
  <2> QED BY <2>1, <2>2, <2>4 DEF PlanInv
<1>5. CASE ~(MaxPackCount(total) >= Len(s) + b \/ Len(s) <= Len(PackDistribution(total)))
  <2>1. pc' = "plan" /\ todo' = s /\ dist' = PackDistribution(total)
    BY <1>5 DEF Autopack, total
  <2>2. Shape'
    BY <1>1, <1>2, <1>3, <2>1, NothingLeft DEF Shape, total
  <2>3. InOrder'
    BY <1>3, <2>1, NothingLeft DEF InOrder
  <2>4. NoneDropped'
    BY <1>1, <1>3, <2>1, NothingLeft DEF NoneDropped, total
  <2>5. RoomForAll'
    <3>1. TotalRevs(PackDistribution(total)) = total
      BY <1>1, DistributionTotal
    <3> QED BY <1>1, <1>3, <2>1, <3>1 DEF RoomForAll, total
  <2>6. FewEnough'
    BY <1>2, <1>3, <2>1, NothingLeft DEF FewEnough, Slots, total
  <2> QED BY <2>1, <2>2, <2>3, <2>4, <2>5, <2>6 DEF PlanInv, Planning
<1> QED BY <1>4, <1>5

LEMMA CommitKeeps ==
  ASSUME PlanInv, NEW k \in Pushes, Commit(k)
  PROVE  PlanInv'
<1>1. /\ Shape /\ pc = "idle" /\ Resting /\ TotalRevs(packs) + k <= MaxRevs
      /\ packs' = Insert(packs, k) /\ Autopack(packs', blanks) /\ blanks' = blanks
      /\ UNCHANGED <<kept, moved, opRevs, rest>>
  BY DEF Commit, PlanInv
<1>2. k \in Counts /\ Counts \subseteq Nat
  BY PlanAssumption DEF Counts
<1>3. packs \in Seq(Counts) /\ Sorted(packs) /\ blanks \in Nat
  BY <1>1 DEF Shape
<1>4. packs' \in Seq(Counts) /\ Sorted(packs') /\ TotalRevs(packs') = TotalRevs(packs) + k
  BY <1>1, <1>2, <1>3, InsertSorts
<1> DEFINE s == packs'
<1> HIDE DEF s
<1>5. s \in Seq(Counts) /\ Sorted(s) /\ TotalRevs(s) <= MaxRevs /\ packs' = s /\ Autopack(s, blanks)
  BY <1>1, <1>4 DEF s
<1> QED BY <1>1, <1>3, <1>5, StartPlan

LEMMA SignKeeps ==
  ASSUME PlanInv, Sign
  PROVE  PlanInv'
<1>1. /\ Shape /\ pc = "idle" /\ Resting /\ blanks' = blanks + 1
      /\ Autopack(packs, blanks') /\ packs' = packs
      /\ UNCHANGED <<kept, moved, opRevs, rest>>
  BY DEF Sign, PlanInv
<1>2. /\ packs \in Seq(Counts) /\ Sorted(packs) /\ TotalRevs(packs) <= MaxRevs
      /\ blanks + 1 \in Nat /\ Autopack(packs, blanks + 1)
  BY <1>1 DEF Shape
<1> QED BY <1>1, <1>2, StartPlan

(* One more pack at the end of a list.                                        *)
LEMMA PutLast ==
  ASSUME NEW s \in Seq(Counts), NEW n \in Counts
  PROVE  /\ Append(s, n) \in Seq(Counts) /\ Append(s, n) # <<>>
         /\ Len(s) \in Nat /\ Len(Append(s, n)) = Len(s) + 1
         /\ TotalRevs(Append(s, n)) = TotalRevs(s) + n
         /\ \A i \in 1 .. Len(s) : Append(s, n)[i] = s[i] /\ s[i] \in Counts
         /\ Append(s, n)[Len(s) + 1] = n
<1>1. /\ Append(s, n) \in Seq(Counts) /\ Append(s, n) # <<>>
      /\ Len(s) \in Nat /\ Len(Append(s, n)) = Len(s) + 1
      /\ \A i \in 1 .. Len(s) : Append(s, n)[i] = s[i] /\ s[i] \in Counts
      /\ Append(s, n)[Len(s) + 1] = n
  OBVIOUS
<1>2. s \in Seq(Nat) /\ n \in Nat
  BY CountsAreNumbers DEF Counts
<1> QED BY <1>1, <1>2, TotalAppend

(* The head of the distribution.                                              *)
LEMMA FirstSize ==
  ASSUME NEW s \in Seq(Nat), s # <<>>
  PROVE  /\ Head(s) \in Nat /\ Tail(s) \in Seq(Nat)
         /\ Len(s) \in Nat /\ Len(s) >= 1 /\ Len(Tail(s)) = Len(s) - 1
         /\ TotalRevs(s) = Head(s) + TotalRevs(Tail(s)) /\ TotalRevs(Tail(s)) \in Nat
<1>1. /\ Head(s) \in Nat /\ Tail(s) \in Seq(Nat)
      /\ Len(s) \in Nat /\ Len(s) >= 1 /\ Len(Tail(s)) = Len(s) - 1
  OBVIOUS
<1> QED BY <1>1, TotalTail, SumsType

(* Taking part of the head of the distribution.                               *)
LEMMA TakePart ==
  ASSUME NEW s \in Seq(Nat), s # <<>>, NEW r \in Nat, r < Head(s)
  PROVE  /\ <<Head(s) - r>> \o Tail(s) \in Seq(Nat) /\ <<Head(s) - r>> \o Tail(s) # <<>>
         /\ Len(<<Head(s) - r>> \o Tail(s)) = Len(s)
         /\ TotalRevs(<<Head(s) - r>> \o Tail(s)) = TotalRevs(s) - r
<1> DEFINE x == Head(s) - r
           u == <<x>> \o Tail(s)
<1>1. /\ Head(s) \in Nat /\ Tail(s) \in Seq(Nat) /\ Len(s) \in Nat /\ Len(s) >= 1
      /\ Len(Tail(s)) = Len(s) - 1 /\ x \in Nat
      /\ TotalRevs(s) = Head(s) + TotalRevs(Tail(s)) /\ TotalRevs(Tail(s)) \in Nat
  BY FirstSize
<1>2. u \in Seq(Nat) /\ Len(u) = Len(s) /\ u # <<>> /\ Head(u) = x /\ Tail(u) = Tail(s)
  <2> DEFINE t == Tail(s)
             n == Len(s)
  <2>1. x \in Nat /\ t \in Seq(Nat) /\ Len(t) = n - 1 /\ n \in Nat /\ n >= 1
    BY <1>1
  <2> HIDE DEF x, t, n
  <2>2. <<x>> \o t \in Seq(Nat) /\ Len(<<x>> \o t) = n /\ <<x>> \o t # <<>>
    BY <2>1
  <2>3. Head(<<x>> \o t) = x
    BY <2>1
  <2>4. Tail(<<x>> \o t) = t
    BY SMTT(30), <2>1
  <2> QED BY <2>2, <2>3, <2>4 DEF x, t, n
<1>3. TotalRevs(u) = x + TotalRevs(Tail(s))
  <2> HIDE DEF u, x
  <2> QED BY <1>2, FirstSize
<1> QED BY <1>1, <1>2, <1>3

LEMMA KeepPackKeeps ==
  ASSUME PlanInv, KeepPack
  PROVE  PlanInv'
<1> DEFINE h == Head(todo)
           most == MaxPackCount(TotalRevs(packs))
<1>1. /\ Shape /\ InOrder /\ NoneDropped /\ RoomForAll /\ FewEnough
      /\ pc = "plan" /\ todo # <<>> /\ dist # <<>> /\ h >= Head(dist)
      /\ rest' = h /\ pc' = "consume" /\ kept' = Append(kept, h) /\ todo' = Tail(todo)
      /\ UNCHANGED <<packs, blanks, dist, moved, opRevs>>
  BY DEF KeepPack, PlanInv, Planning
<1>2. /\ todo \in Seq(Counts) /\ kept \in Seq(Counts) /\ moved \in Seq(Counts)
      /\ dist \in Seq(Nat) /\ opRevs \in Nat /\ rest = 0 /\ packs \in Seq(Counts)
  BY <1>1 DEF Shape, RoomForAll
<1>3. /\ h \in Counts /\ h \in Nat /\ h > 0 /\ Tail(todo) \in Seq(Counts)
      /\ Len(Tail(todo)) = Len(todo) - 1 /\ Len(todo) \in Nat /\ Len(todo) >= 1
      /\ TotalRevs(todo) = h + TotalRevs(Tail(todo)) /\ TotalRevs(Tail(todo)) \in Nat
      /\ Sorted(Tail(todo))
      /\ h = todo[1] /\ \A j \in 1 .. Len(Tail(todo)) : Tail(todo)[j] = todo[j + 1] /\ h >= Tail(todo)[j]
  BY <1>1, <1>2, TakeFirst DEF InOrder, Counts
<1>4. /\ kept' \in Seq(Counts) /\ Len(kept) \in Nat /\ Len(kept') = Len(kept) + 1
      /\ TotalRevs(kept') = TotalRevs(kept) + h /\ TotalRevs(kept) \in Nat
      /\ \A i \in 1 .. Len(kept) : kept'[i] = kept[i] /\ kept[i] \in Counts
      /\ kept'[Len(kept) + 1] = h
  BY <1>1, <1>2, <1>3, PutLast, CountsAreNumbers
<1>5. opRevs = 0
  <2>1. 1 \in 1 .. Len(todo) /\ Head(dist) \in Nat
    BY <1>1, <1>2, <1>3, FirstSize
  <2> QED BY <1>1, <1>2, <1>3, <2>1 DEF RoomForAll
<1>6. Shape'
  BY <1>1, <1>2, <1>3, <1>4 DEF Shape
<1>7. InOrder'
  <2>1. \A i \in 1 .. Len(kept) : kept[i] \in Counts /\ kept[i] >= h
    BY <1>1, <1>3, <1>4 DEF InOrder
  <2>2. Sorted(kept')
    <3> SUFFICES ASSUME NEW i \in 1 .. Len(kept'), NEW j \in 1 .. Len(kept'), i < j
                 PROVE  kept'[i] >= kept'[j]
      BY DEF Sorted
    <3>1. i \in 1 .. Len(kept) /\ kept'[i] = kept[i] /\ kept[i] >= h
      BY <1>4, <2>1
    <3>2. CASE j = Len(kept) + 1
      BY <1>4, <3>1, <3>2
    <3>3. CASE j # Len(kept) + 1
      <4>1. j \in 1 .. Len(kept) /\ kept'[j] = kept[j]
        BY <1>4, <3>3
      <4>2. kept[i] >= kept[j]
        BY <1>1, <3>1, <4>1 DEF InOrder, Sorted
      <4> QED BY <3>1, <4>1, <4>2
    <3> QED BY <3>2, <3>3
  <2>3. ASSUME NEW i \in 1 .. Len(kept'), NEW j \in 1 .. Len(todo') PROVE kept'[i] >= todo'[j]
    <3>1. /\ todo'[j] = todo[j + 1] /\ j + 1 \in 1 .. Len(todo) /\ h >= todo'[j]
      BY <1>1, <1>3
    <3>2. CASE i = Len(kept) + 1
      BY <1>4, <3>1, <3>2
    <3>3. CASE i # Len(kept) + 1
      <4>1. i \in 1 .. Len(kept) /\ kept'[i] = kept[i]
        BY <1>4, <3>3
      <4>2. kept[i] >= todo[j + 1]
        BY <1>1, <3>1, <4>1 DEF InOrder
      <4> QED BY <3>1, <4>1, <4>2
    <3> QED BY <3>2, <3>3
  <2> QED BY <1>1, <1>3, <2>2, <2>3 DEF InOrder
<1>8. NoneDropped'
  <2>1. TotalRevs(moved) \in Nat /\ Len(moved) \in Nat
    BY <1>2, CountsAreNumbers
  <2> QED BY <1>1, <1>3, <1>4, <2>1 DEF NoneDropped
<1>9. RoomForAll'
  BY <1>1, <1>2, <1>3, <1>5 DEF RoomForAll
<1>10. FewEnough'
  <2>1. Len(dist) \in Nat /\ most \in Nat
    <3>1. TotalRevs(packs) \in 0 .. MaxRevs
      BY <1>1, <1>2, CountsAreNumbers, PlanAssumption DEF Shape
    <3> QED BY <1>2, <3>1, CountsAgree
  <2> DEFINE extra == IF moved # <<>> /\ opRevs = 0 THEN 1 ELSE 0
  <2>2. extra \in Nat /\ Slots = Len(kept) + Len(dist) + extra
    BY DEF Slots
  <2>3. Slots' = Len(kept') + Len(dist) + extra
    BY <1>1 DEF Slots
  <2>4. Slots <= most
    BY <1>1 DEF FewEnough
  <2> HIDE DEF extra
  <2>5. Slots' <= most + 1
    BY <1>4, <2>1, <2>2, <2>3, <2>4
  <2>6. dist' # <<>> /\ rest' >= Head(dist') /\ pc' = "consume" /\ TotalRevs(packs') = TotalRevs(packs)
    BY <1>1
  <2> QED BY <2>5, <2>6 DEF FewEnough, most
<1> QED BY <1>1, <1>6, <1>7, <1>8, <1>9, <1>10 DEF PlanInv, Planning

LEMMA ConsumeKeeps ==
  ASSUME PlanInv, Consume
  PROVE  PlanInv'
<1> DEFINE h == Head(dist)
           most == MaxPackCount(TotalRevs(packs))
           extra == IF moved # <<>> /\ opRevs = 0 THEN 1 ELSE 0
<1>1. /\ Shape /\ InOrder /\ NoneDropped /\ RoomForAll /\ FewEnough
      /\ pc = "consume" /\ dist # <<>>
      /\ \/ rest >= h /\ rest' = rest - h /\ dist' = Tail(dist)
         \/ rest < h /\ rest' = 0 /\ dist' = <<h - rest>> \o Tail(dist)
      /\ pc' = (IF rest' = 0 THEN "plan" ELSE "consume")
      /\ UNCHANGED <<packs, blanks, todo, kept, moved, opRevs>>
  BY DEF Consume, PlanInv, Planning
<1>2. /\ todo \in Seq(Counts) /\ dist \in Seq(Nat) /\ opRevs = 0 /\ rest \in Nat /\ rest # 0
      /\ TotalRevs(todo) \in Nat
  BY <1>1, CountsAreNumbers DEF Shape, RoomForAll
<1>3. /\ h \in Nat /\ Tail(dist) \in Seq(Nat) /\ Len(dist) \in Nat /\ Len(dist) >= 1
      /\ Len(Tail(dist)) = Len(dist) - 1
      /\ TotalRevs(dist) = h + TotalRevs(Tail(dist)) /\ TotalRevs(Tail(dist)) \in Nat
  BY <1>1, <1>2, FirstSize
<1> HIDE DEF h
<1>4. /\ rest' \in Nat /\ dist' \in Seq(Nat) /\ TotalRevs(dist') + rest = TotalRevs(dist) + rest'
      /\ TotalRevs(dist') \in Nat /\ TotalRevs(dist) \in Nat
      /\ rest >= h => Len(dist') = Len(dist) - 1
      /\ ~(rest >= h) => Len(dist') = Len(dist)
  <2>1. CASE rest >= h
    <3>1. rest' = rest - h /\ dist' = Tail(dist)
      BY <1>1, <1>2, <1>3, <2>1
    <3>2. TotalRevs(dist') = TotalRevs(Tail(dist)) /\ Len(dist') = Len(dist) - 1 /\ dist' \in Seq(Nat)
      BY <1>3, <3>1
    <3>3. /\ rest' \in Nat /\ TotalRevs(dist') \in Nat /\ TotalRevs(dist) \in Nat
          /\ TotalRevs(dist') + rest = TotalRevs(dist) + rest'
      BY <1>2, <1>3, <2>1, <3>1, <3>2
    <3> QED BY <2>1, <3>2, <3>3
  <2>2. CASE ~(rest >= h)
    <3>1. rest' = 0 /\ dist' = <<h - rest>> \o Tail(dist)
      BY <1>1, <1>2, <1>3, <2>2
    <3>2. dist' \in Seq(Nat) /\ Len(dist') = Len(dist) /\ TotalRevs(dist') = TotalRevs(dist) - rest
      BY <1>1, <1>2, <2>2, <3>1, TakePart DEF h
    <3>3. TotalRevs(dist') \in Nat
      BY <3>2, SumsType
    <3>4. /\ rest' \in Nat /\ TotalRevs(dist) \in Nat
          /\ TotalRevs(dist') + rest = TotalRevs(dist) + rest'
      BY <1>2, <1>3, <3>1, <3>2
    <3> QED BY <2>2, <3>2, <3>3, <3>4
  <2> QED BY <2>1, <2>2
<1>5. Shape'
  BY <1>1, <1>4 DEF Shape
<1>6. InOrder' /\ NoneDropped'
  BY <1>1 DEF InOrder, NoneDropped
<1>7. RoomForAll'
  <2>1. TotalRevs(todo) + rest <= TotalRevs(dist)
    BY <1>1, <1>2 DEF RoomForAll
  <2>2. TotalRevs(todo) + rest' <= TotalRevs(dist')
    BY <1>2, <1>4, <2>1
  <2>3. pc' = "plan" <=> rest' = 0
    BY <1>1
  <2> QED BY <1>1, <1>2, <1>4, <2>2, <2>3 DEF RoomForAll
<1>8. FewEnough'
  <2>1. /\ most \in Nat /\ Len(kept) \in Nat /\ extra \in Nat
        /\ Slots = Len(kept) + Len(dist) + extra /\ Slots' = Len(kept) + Len(dist') + extra
    <3>1. TotalRevs(packs) \in 0 .. MaxRevs /\ kept \in Seq(Counts)
      BY <1>1, CountsAreNumbers, PlanAssumption DEF Shape
    <3>2. most \in Nat /\ Len(kept) \in Nat
      BY <3>1, CountsAgree
    <3> QED BY <1>1, <3>2 DEF Slots
  <2> HIDE DEF extra, most
  <2>2. Slots <= most \/ (rest >= h /\ Slots <= most + 1)
    BY <1>1 DEF FewEnough, most, h
  <2>3. Slots' <= most
    <3>1. CASE rest >= h
      <4>1. Len(dist') = Len(dist) - 1
        BY <1>4, <3>1
      <4> QED BY <1>3, <2>1, <2>2, <4>1
    <3>2. CASE ~(rest >= h)
      <4>1. Len(dist') = Len(dist) /\ Slots <= most
        BY <1>4, <2>2, <3>2
      <4> QED BY <1>3, <2>1, <4>1
    <3> QED BY <3>1, <3>2
  <2> QED BY <1>1, <2>3 DEF FewEnough, most
<1>9. pc' # "idle"
  BY <1>1
<1> QED BY <1>5, <1>6, <1>7, <1>8, <1>9 DEF PlanInv, Planning

LEMMA MovePackKeeps ==
  ASSUME PlanInv, MovePack
  PROVE  PlanInv'
<1> DEFINE h == Head(todo)
           d == Head(dist)
           full == opRevs + h >= d
           most == MaxPackCount(TotalRevs(packs))
<1>1. /\ Shape /\ InOrder /\ NoneDropped /\ RoomForAll /\ FewEnough
      /\ pc = "plan" /\ todo # <<>> /\ dist # <<>> /\ h < d
      /\ moved' = Append(moved, h) /\ todo' = Tail(todo)
      /\ UNCHANGED <<packs, blanks, pc, kept, rest>>
  BY DEF MovePack, PlanInv, Planning
<1>2. /\ todo \in Seq(Counts) /\ kept \in Seq(Counts) /\ moved \in Seq(Counts)
      /\ dist \in Seq(Nat) /\ opRevs \in Nat /\ rest = 0 /\ packs \in Seq(Counts)
  BY <1>1 DEF Shape, RoomForAll
<1>3. /\ h \in Counts /\ h \in Nat /\ h > 0 /\ Tail(todo) \in Seq(Counts)
      /\ Len(Tail(todo)) = Len(todo) - 1 /\ Len(todo) \in Nat /\ Len(todo) >= 1
      /\ TotalRevs(todo) = h + TotalRevs(Tail(todo)) /\ TotalRevs(Tail(todo)) \in Nat
      /\ Sorted(Tail(todo))
      /\ \A j \in 1 .. Len(Tail(todo)) : Tail(todo)[j] = todo[j + 1] /\ h >= Tail(todo)[j]
  BY <1>1, <1>2, TakeFirst DEF InOrder, Counts
<1>4. /\ moved' \in Seq(Counts) /\ moved' # <<>> /\ Len(moved) \in Nat
      /\ Len(moved') = Len(moved) + 1
      /\ TotalRevs(moved') = TotalRevs(moved) + h /\ TotalRevs(moved) \in Nat
  BY <1>1, <1>2, <1>3, PutLast, CountsAreNumbers
<1>5. /\ d \in Nat /\ Tail(dist) \in Seq(Nat) /\ Len(dist) \in Nat /\ Len(dist) >= 1
      /\ Len(Tail(dist)) = Len(dist) - 1
      /\ TotalRevs(dist) = d + TotalRevs(Tail(dist)) /\ TotalRevs(Tail(dist)) \in Nat
  BY <1>1, <1>2, FirstSize
<1>6. /\ full => opRevs' = 0 /\ dist' = Tail(dist)
      /\ ~full => opRevs' = opRevs + h /\ dist' = dist
  BY SMTT(30), <1>2, <1>3, <1>5 DEF MovePack
<1> HIDE DEF h, d
<1>7. dist' \in Seq(Nat) /\ opRevs' \in Nat
  <2>1. CASE full
    <3>1. opRevs' = 0 /\ dist' = Tail(dist)
      BY <1>6, <2>1
    <3> QED BY <1>5, <3>1
  <2>2. CASE ~full
    <3>1. opRevs' = opRevs + h /\ dist' = dist
      BY <1>6, <2>2
    <3> QED BY <1>2, <1>3, <3>1
  <2> QED BY <2>1, <2>2
<1>8. Shape'
  BY <1>1, <1>3, <1>4, <1>7 DEF Shape
<1>9. InOrder'
  <2>1. ASSUME NEW i \in 1 .. Len(kept), NEW j \in 1 .. Len(todo') PROVE kept[i] >= todo'[j]
    <3>1. todo'[j] = todo[j + 1] /\ j + 1 \in 1 .. Len(todo)
      BY <1>1, <1>3
    <3> QED BY <1>1, <3>1 DEF InOrder
  <2> QED BY <1>1, <1>3, <2>1 DEF InOrder
<1>10. NoneDropped'
  <2>1. TotalRevs(kept) \in Nat /\ Len(kept) \in Nat
    BY <1>2, CountsAreNumbers
  <2> QED BY <1>1, <1>3, <1>4, <2>1 DEF NoneDropped
<1>11. RoomForAll'
  <2>1. h + TotalRevs(Tail(todo)) + opRevs <= d + TotalRevs(Tail(dist))
    BY <1>1, <1>2, <1>3, <1>5 DEF RoomForAll
  <2>2. CASE full
    <3>1. opRevs' = 0 /\ TotalRevs(dist') = TotalRevs(Tail(dist)) /\ TotalRevs(todo') = TotalRevs(Tail(todo))
      BY <1>1, <1>6, <2>2
    <3>2. TotalRevs(todo') <= TotalRevs(dist')
      BY <1>2, <1>3, <1>5, <2>1, <2>2, <3>1
    <3> QED BY <1>1, <1>2, <1>3, <3>1, <3>2 DEF RoomForAll
  <2>3. CASE ~full
    <3>1. opRevs' = opRevs + h /\ dist' = dist
      BY <1>6, <2>3
    <3>2. TotalRevs(todo') + opRevs' + rest' <= TotalRevs(dist')
      BY <1>1, <1>2, <1>3, <1>5, <2>1, <3>1
    <3>3. \A j \in 1 .. Len(todo') : todo'[j] < d
      <4> SUFFICES ASSUME NEW j \in 1 .. Len(todo') PROVE todo'[j] < d
        OBVIOUS
      <4>1. todo'[j] \in Counts /\ h >= todo'[j]
        BY <1>1, <1>3, CountsAreNumbers
      <4> QED BY <1>1, <1>3, <1>5, <4>1 DEF Counts
    <3> QED BY <1>1, <1>2, <1>4, <3>1, <3>2, <3>3 DEF RoomForAll, d
  <2> QED BY <2>2, <2>3
<1>12. FewEnough'
  <2>1. most \in Nat /\ Len(kept) \in Nat
    <3>1. TotalRevs(packs) \in 0 .. MaxRevs /\ kept \in Seq(Counts)
      BY <1>1, <1>2, CountsAreNumbers, PlanAssumption DEF Shape
    <3> QED BY <3>1, CountsAgree
  <2>2. Slots <= most
    BY <1>1 DEF FewEnough
  <2> HIDE DEF most
  <2>3. CASE full
    <3>1. opRevs' = 0 /\ Len(dist') = Len(dist) - 1
      BY <1>5, <1>6, <2>3
    <3>2. Slots' = Len(kept) + (Len(dist) - 1) + 1
      BY <1>1, <1>4, <3>1 DEF Slots
    <3>3. Slots = Len(kept) + Len(dist) \/ Slots = Len(kept) + Len(dist) + 1
      BY <1>5, <2>1 DEF Slots
    <3>4. Slots' <= most
      BY <1>5, <2>1, <2>2, <3>2, <3>3
    <3> QED BY <1>1, <3>4 DEF FewEnough, most
  <2>4. CASE ~full
    <3>1. opRevs' # 0 /\ dist' = dist
      BY <1>2, <1>3, <1>6, <2>4
    <3>2. Slots' = Len(kept) + Len(dist)
      BY <1>1, <1>5, <2>1, <3>1 DEF Slots
    <3>3. Slots = Len(kept) + Len(dist) \/ Slots = Len(kept) + Len(dist) + 1
      BY <1>5, <2>1 DEF Slots
    <3>4. Slots' <= most
      BY <1>5, <2>1, <2>2, <3>2, <3>3
    <3> QED BY <1>1, <3>4 DEF FewEnough, most
  <2> QED BY <2>3, <2>4
<1> QED BY <1>1, <1>8, <1>9, <1>10, <1>11, <1>12 DEF PlanInv, Planning

LEMMA ExecuteKeeps ==
  ASSUME PlanInv, Execute
  PROVE  PlanInv'
<1> DEFINE total == TotalRevs(packs)
           n == TotalRevs(moved)
<1>1. /\ Shape /\ InOrder /\ NoneDropped /\ RoomForAll /\ FewEnough
      /\ pc = "plan" /\ todo = <<>>
      /\ packs' = (IF moved = <<>> THEN packs ELSE Insert(kept, n))
      /\ pc' = "idle" /\ dist' = <<>> /\ kept' = <<>> /\ moved' = <<>> /\ opRevs' = 0
      /\ UNCHANGED <<blanks, todo, rest>>
  BY DEF Execute, PlanInv, Planning
<1>2. /\ packs \in Seq(Counts) /\ kept \in Seq(Counts) /\ moved \in Seq(Counts)
      /\ dist \in Seq(Nat) /\ rest = 0 /\ Sorted(packs) /\ total <= MaxRevs /\ Sorted(kept)
  BY <1>1 DEF Shape, RoomForAll, InOrder
<1>3. /\ total \in 0 .. MaxRevs /\ n \in Nat /\ TotalRevs(kept) \in Nat /\ TotalRevs(todo) = 0
      /\ Len(kept) \in Nat /\ Len(moved) \in Nat /\ Len(dist) \in Nat /\ Len(todo) = 0
  BY <1>1, <1>2, CountsAreNumbers, NothingLeft, PlanAssumption
<1>4. TotalRevs(kept) + n = total /\ Len(kept) + Len(moved) = Len(packs)
  BY <1>1, <1>3 DEF NoneDropped
<1>5. MaxPackCount(total) \in Nat /\ Slots <= MaxPackCount(total)
  BY <1>1, <1>3, CountsAgree DEF FewEnough
<1>6. Resting'
  BY <1>1, <1>2 DEF Resting
<1> HIDE DEF total, n
<1>7. /\ packs' \in Seq(Counts) /\ Sorted(packs') /\ TotalRevs(packs') = total
      /\ Len(packs') <= MaxPackCount(total)
  <2>1. CASE moved = <<>>
    <3>1. packs' = packs /\ Len(packs) = Len(kept)
      BY <1>1, <1>3, <1>4, <2>1
    <3>2. Slots = Len(kept) + Len(dist)
      BY <1>3, <2>1 DEF Slots
    <3> QED BY <1>2, <1>3, <1>5, <3>1, <3>2 DEF total
  <2>2. CASE moved # <<>>
    <3>1. n \in Counts
      <4>1. /\ moved \in Seq(Nat) /\ Head(moved) \in Counts /\ TotalRevs(Tail(moved)) \in Nat
            /\ n = Head(moved) + TotalRevs(Tail(moved))
        <5>1. moved \in Seq(Nat)
          BY <1>2, CountsAreNumbers
        <5>2. Head(moved) \in Counts
          BY <1>2, <2>2
        <5> QED BY <2>2, <5>1, <5>2, FirstSize DEF n
      <4> QED BY <4>1 DEF Counts
    <3>2. Counts \subseteq Nat
      BY DEF Counts
    <3>3. /\ Insert(kept, n) \in Seq(Counts) /\ Len(Insert(kept, n)) = Len(kept) + 1
          /\ Sorted(Insert(kept, n)) /\ TotalRevs(Insert(kept, n)) = TotalRevs(kept) + n
      BY <1>2, <3>1, <3>2, InsertSorts
    <3>4. packs' = Insert(kept, n)
      BY <1>1, <2>2
    <3>5. Len(kept) + 1 <= Slots
      <4>1. CASE opRevs = 0
        <5>1. Slots = Len(kept) + Len(dist) + 1
          BY <2>2, <4>1 DEF Slots
        <5> QED BY <1>3, <5>1
      <4>2. CASE opRevs # 0
        <5>1. dist # <<>>
          BY <1>1, <4>2 DEF RoomForAll, Shape
        <5>2. Len(dist) >= 1 /\ Slots = Len(kept) + Len(dist)
          BY <1>2, <1>3, <4>2, <5>1, FirstSize DEF Slots
        <5> QED BY <1>3, <5>2
      <4> QED BY <4>1, <4>2
    <3>6. Slots \in Nat
      BY <1>3 DEF Slots
    <3>7. Len(kept) + 1 <= MaxPackCount(total)
      BY <1>3, <1>5, <3>5, <3>6
    <3>8. TotalRevs(packs') = total /\ Len(packs') = Len(kept) + 1
      BY <1>4, <3>3, <3>4
    <3> QED BY <3>3, <3>4, <3>7, <3>8
  <2> QED BY <2>1, <2>2
<1>8. Shape'
  BY <1>1, <1>2, <1>7, NothingLeft DEF Shape, total
<1>9. PackCountBounded'
  BY <1>7 DEF PackCountBounded
<1> QED BY <1>1, <1>6, <1>8, <1>9 DEF PlanInv

LEMMA PackAllKeeps ==
  ASSUME PlanInv, PackAll
  PROVE  PlanInv'
<1> DEFINE n == TotalRevs(packs)
           one == <<n>>
<1>1. /\ Shape /\ pc = "idle" /\ Resting /\ packs # <<>> /\ packs' = one
      /\ UNCHANGED <<blanks, pc, todo, dist, kept, moved, opRevs, rest>>
  BY DEF PackAll, PlanInv
<1>2. n \in Counts /\ n \in 0 .. MaxRevs
  <2>1. packs \in Seq(Counts) /\ Sorted(packs) /\ n <= MaxRevs
    BY <1>1 DEF Shape
  <2>2. Head(packs) \in Counts /\ TotalRevs(Tail(packs)) \in Nat /\ n = Head(packs) + TotalRevs(Tail(packs))
    BY <1>1, <2>1, TakeFirst
  <2> HIDE DEF n
  <2> QED BY <2>1, <2>2, PlanAssumption DEF Counts
<1> HIDE DEF n
<1>3. one \in Seq(Counts) /\ one # <<>> /\ Len(one) = 1 /\ Head(one) = n /\ Tail(one) = <<>>
  BY <1>2
<1>4. TotalRevs(one) = n
  <2>1. one \in Seq(Nat)
    BY <1>3, CountsAreNumbers
  <2>2. TotalRevs(one) = Head(one) + TotalRevs(Tail(one))
    <3> HIDE DEF one
    <3> QED BY <1>3, <2>1, FirstSize
  <2>3. TotalRevs(one) = n + TotalRevs(<<>>)
    BY <1>3, <2>2
  <2> QED BY <1>2, <2>3, NothingLeft DEF Counts
<1> HIDE DEF one
<1>5. Sorted(one) /\ Len(one) <= MaxPackCount(n)
  BY <1>2, <1>3, CountsAgree DEF Sorted
<1>6. Shape'
  BY <1>1, <1>2, <1>3, <1>4, <1>5 DEF Shape
<1>7. PackCountBounded' /\ Resting'
  BY <1>1, <1>4, <1>5 DEF PackCountBounded, Resting
<1> QED BY <1>1, <1>6, <1>7 DEF PlanInv

-----------------------------------------------------------------------------
(* Theorems *)

(* The planning loops keep what was packed in order, drop no pack and have a  *)
(* position left for each pack they put in one.                               *)
THEOREM PlanInvariant == Spec => []PlanInv
<1>1. Init => PlanInv
  <2> SUFFICES ASSUME Init PROVE PlanInv
    OBVIOUS
  <2>1. 0 \in 0 .. MaxRevs /\ MaxPackCount(0) \in Nat
    BY PlanAssumption, CountsAgree
  <2> QED BY <2>1, NothingLeft, PlanAssumption
          DEF Init, PlanInv, Shape, Resting, PackCountBounded
<1>2. PlanInv /\ [Next]_vars => PlanInv'
  <2> SUFFICES ASSUME PlanInv, [Next]_vars PROVE PlanInv'
    OBVIOUS
  <2>1. CASE \E k \in Pushes : Commit(k)
    BY <2>1, CommitKeeps
  <2>2. CASE Sign
    BY <2>2, SignKeeps
  <2>3. CASE KeepPack
    BY <2>3, KeepPackKeeps
  <2>4. CASE Consume
    BY <2>4, ConsumeKeeps
  <2>5. CASE MovePack
    BY <2>5, MovePackKeeps
  <2>6. CASE Execute
    BY <2>6, ExecuteKeeps
  <2>7. CASE PackAll
    BY <2>7, PackAllKeeps
  <2>8. CASE UNCHANGED vars
    BY <2>8 DEF vars, PlanInv, Shape, Resting, PackCountBounded, Planning, InOrder, NoneDropped,
                RoomForAll, FewEnough, Slots
  <2> QED BY <2>1, <2>2, <2>3, <2>4, <2>5, <2>6, <2>7, <2>8 DEF Next
<1> QED BY <1>1, <1>2, PTL DEF Spec

(* Between commits there are no more packs than the digit sum of the number   *)
(* of revisions, which is what _max_pack_count allows.                        *)
THEOREM PacksStayFew == Spec => []PackCountBounded
<1>1. PlanInv => PackCountBounded
  BY DEF PlanInv, PackCountBounded
<1> QED BY <1>1, PlanInvariant, PTL

\* plan_autopack_combinations looks at pack_distribution[0] whenever it has a pack in
\* hand, and takes one off it.
PositionLeft ==
  /\ pc # "idle" /\ todo # <<>> => dist # <<>>
  /\ pc = "consume" => dist # <<>>

(* The plan never takes a position from an empty distribution: both loops of  *)
(* plan_autopack_combinations end without an IndexError.                      *)
THEOREM PlanNeverRunsOut == Spec => []PositionLeft
<1>1. PlanInv => PositionLeft
  <2> SUFFICES ASSUME PlanInv, pc # "idle", dist = <<>> PROVE todo = <<>> /\ pc # "consume"
    BY DEF PositionLeft
  <2>1. Shape /\ InOrder /\ RoomForAll /\ TotalRevs(dist) = 0
    BY NothingLeft DEF PlanInv, Planning
  <2>2. /\ todo \in Seq(Counts) /\ TotalRevs(todo) \in Nat /\ opRevs \in Nat /\ rest \in Nat
        /\ TotalRevs(todo) + opRevs + rest <= 0
    BY <2>1, CountsAreNumbers DEF Shape, RoomForAll
  <2>3. TotalRevs(todo) = 0 /\ rest = 0
    BY <2>2
  <2>4. todo = <<>>
    <3> SUFFICES ASSUME todo # <<>> PROVE FALSE
      OBVIOUS
    <3>1. Head(todo) \in Counts /\ TotalRevs(Tail(todo)) \in Nat /\ TotalRevs(todo) = Head(todo) + TotalRevs(Tail(todo))
      BY <2>1, <2>2, TakeFirst DEF InOrder
    <3> QED BY <2>3, <3>1 DEF Counts
  <2> QED BY <2>1, <2>3, <2>4 DEF RoomForAll
<1> QED BY <1>1, PlanInvariant, PTL
=============================================================================
