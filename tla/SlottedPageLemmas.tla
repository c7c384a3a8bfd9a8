-------------------------- MODULE SlottedPageLemmas --------------------------
(***************************************************************************)
(* Induction and recursion over the natural numbers, in a form the provers *)
(* can use: the set of numbers for which a fact holds, and the step of a   *)
(* recursion as a function.  From them, what the sums are that a page is   *)
(* charged with.                                                           *)
(***************************************************************************)
EXTENDS SlottedPage, WellFoundedInduction, TLAPS

(* A set with 0 and the successors of its numbers has all numbers. *)
LEMMA SetInduction ==
    ASSUME NEW S, 0 \in S, \A n \in Nat : n \in S => n + 1 \in S
    PROVE  Nat \subseteq S
  <1>1. SUFFICES ASSUME Nat \ S # {} PROVE FALSE
    OBVIOUS
  <1>2. Nat \ S \subseteq Nat
    OBVIOUS
  <1>3. \E x \in Nat \ S : \A y \in Nat \ S : ~ (<<y, x>> \in OpToRel(<, Nat))
    BY <1>1, <1>2, WFMin, NatLessThanWellFounded, Zenon
  <1>4. PICK x \in Nat \ S : \A y \in Nat \ S : ~ (<<y, x>> \in OpToRel(<, Nat))
    BY <1>3, Zenon
  <1>5. x \in Nat /\ x \notin S /\ x # 0
    BY <1>4, Zenon
  <1>6. PICK y \in Nat : x = y + 1
    <2>1. x - 1 \in Nat /\ x = (x - 1) + 1
      BY <1>5
    <2> QED BY <2>1
  <1>7. <<y, x>> \in OpToRel(<, Nat)
    BY <1>5, <1>6 DEF OpToRel
  <1>8. y \in S
    BY <1>4, <1>6, <1>7, Zenon
  <1> QED BY <1>5, <1>6, <1>8

-----------------------------------------------------------------------------
(* The first n + 1 values of the recursion from a by the step G. *)
Approx(f, n, S, a, G) ==
    /\ f \in [0 .. n -> S]
    /\ f[0] = a
    /\ \A k \in 0 .. n - 1 : f[k + 1] = G[<<k, f[k]>>]

(* One value more is the step applied to the last, if that one is unique. *)
LEMMA ApproxNext ==
    ASSUME NEW S, NEW a, NEW G, NEW n \in Nat,
           \A u, v : Approx(u, n, S, a, G) /\ Approx(v, n, S, a, G) => u[n] = v[n],
           NEW f, Approx(f, n, S, a, G), NEW g, Approx(g, n + 1, S, a, G)
    PROVE  g[n + 1] = G[<<n, f[n]>>]
  <1> DEFINE u == [i \in 0 .. n |-> g[i]]
  <1>1. g[n + 1] = G[<<n, g[n]>>]
    BY DEF Approx
  <1>2. Approx(u, n, S, a, G) /\ u[n] = g[n]
    BY DEF Approx
  <1> HIDE DEF u
  <1>3. u[n] = f[n]
    BY <1>2
  <1> QED BY <1>1, <1>2, <1>3

(* The values so far can be extended by one. *)
LEMMA ApproxUp ==
    ASSUME NEW S, NEW a, NEW G \in [Nat \X S -> S], NEW n \in Nat, NEW f,
           Approx(f, n, S, a, G)
    PROVE  \E g : Approx(g, n + 1, S, a, G)
  <1> DEFINE g == [i \in 0 .. n + 1 |-> IF i = n + 1 THEN G[<<n, f[n]>>] ELSE f[i]]
  <1>1. \A i \in 0 .. n : f[i] \in S
    BY DEF Approx
  <1>2. G[<<n, f[n]>>] \in S
    BY <1>1
  <1>3. g \in [0 .. n + 1 -> S]
    BY <1>1, <1>2
  <1>4. g[0] = a
    BY DEF Approx
  <1>5. ASSUME NEW k \in 0 .. n PROVE g[k + 1] = G[<<k, g[k]>>]
    <2>1. CASE k = n
      <3>1. g[n + 1] = G[<<n, f[n]>>] /\ g[n] = f[n]
        OBVIOUS
      <3> QED BY <2>1, <3>1, Zenon
    <2>2. CASE k # n
      <3>1. k \in 0 .. n - 1 /\ k + 1 \in 0 .. n + 1 /\ k + 1 # n + 1
        BY <2>2
      <3>2. g[k + 1] = f[k + 1] /\ g[k] = f[k]
        BY <3>1
      <3> QED BY <3>1, <3>2 DEF Approx
    <2> QED BY <2>1, <2>2
  <1>6. (n + 1) - 1 = n
    OBVIOUS
  <1> HIDE DEF g
  <1>7. Approx(g, n + 1, S, a, G)
    BY <1>3, <1>4, <1>5, <1>6 DEF Approx
  <1> QED BY <1>7

(* The function the recursion defines. *)
Recursive(f, S, a, G) ==
    /\ f \in [Nat -> S]
    /\ f[0] = a
    /\ \A n \in Nat : f[n + 1] = G[<<n, f[n]>>]

(* Primitive recursion: the step G defines a function on all numbers. *)
LEMMA Recursion ==
    ASSUME NEW S, NEW a \in S, NEW G, G \in [Nat \X S -> S]
    PROVE  \E f : Recursive(f, S, a, G)
  <1> DEFINE Good == {n \in Nat :
                /\ \E f : Approx(f, n, S, a, G)
                /\ \A f, g : Approx(f, n, S, a, G) /\ Approx(g, n, S, a, G)
                                => f[n] = g[n]}
  <1>1. 0 \in Good
    <2>1. Approx([i \in 0 .. 0 |-> a], 0, S, a, G)
      BY DEF Approx
    <2>2. \A f, g : Approx(f, 0, S, a, G) /\ Approx(g, 0, S, a, G) => f[0] = g[0]
      BY DEF Approx
    <2> QED BY <2>1, <2>2
  <1>2. ASSUME NEW n \in Nat, n \in Good PROVE n + 1 \in Good
    <2>1. PICK f : Approx(f, n, S, a, G)
      BY <1>2
    <2>2. \A u, v : Approx(u, n, S, a, G) /\ Approx(v, n, S, a, G) => u[n] = v[n]
      BY <1>2
    <2>3. \E g : Approx(g, n + 1, S, a, G)
      BY <2>1, ApproxUp
    <2>4. \A g : Approx(g, n + 1, S, a, G) => g[n + 1] = G[<<n, f[n]>>]
      <3> HIDE DEF Good
      <3> QED BY <2>1, <2>2, ApproxNext
    <2>5. n + 1 \in Nat
      OBVIOUS
    <2> QED BY <2>3, <2>4, <2>5
  <1>3. Nat \subseteq Good
    <2> HIDE DEF Good
    <2> QED BY <1>1, <1>2, SetInduction
  <1> DEFINE F == [n \in Nat |-> (CHOOSE f : Approx(f, n, S, a, G))[n]]
  <1>4. ASSUME NEW n \in Nat PROVE \E f : Approx(f, n, S, a, G) /\ F[n] = f[n]
    <2>1. PICK f : Approx(f, n, S, a, G)
      BY <1>3
    <2>2. Approx(CHOOSE h : Approx(h, n, S, a, G), n, S, a, G)
      BY <2>1
    <2> QED BY <2>2, Zenon
  <1>5. F = [n \in Nat |-> F[n]]
    OBVIOUS
  <1> HIDE DEF F
  <1>6. \A n \in Nat : F[n] \in S
    BY <1>4 DEF Approx
  <1>7. F \in [Nat -> S] /\ F[0] = a
    BY <1>4, <1>5, <1>6 DEF Approx
  <1>8. ASSUME NEW n \in Nat PROVE F[n + 1] = G[<<n, F[n]>>]
    <2>1. PICK f : Approx(f, n, S, a, G) /\ F[n] = f[n]
      BY <1>4
    <2>2. PICK g : Approx(g, n + 1, S, a, G) /\ F[n + 1] = g[n + 1]
      BY <1>4
    <2>3. \A u, v : Approx(u, n, S, a, G) /\ Approx(v, n, S, a, G) => u[n] = v[n]
      BY <1>3
    <2> HIDE DEF Good
    <2> QED BY <2>1, <2>2, <2>3, ApproxNext
  <1> QED BY <1>7, <1>8 DEF Recursive

-----------------------------------------------------------------------------
(* The values that are summed up. *)
Ints(f, n) == \A k \in 1 .. n : f[k] \in Int

(* Functions that differ by d in the value at c, and else agree. *)
DifferAt(f, g, n, c, d) ==
    \A k \in 1 .. n : g[k] = IF k = c THEN f[k] + d ELSE f[k]

(* The sums of f are the values of one recursion. *)
LEMMA RunningSum ==
    ASSUME NEW n \in Nat, NEW f, Ints(f, n)
    PROVE  \E F \in [Nat -> Int] :
              /\ F[0] = 0
              /\ \A k \in Nat : k + 1 <= n => F[k + 1] = F[k] + f[k + 1]
              /\ \A m \in 0 .. n : SumTo(f, m) = F[m]
  <1> USE DEF Ints
  <1> DEFINE G == [x \in Nat \X Int |->
                      IF x[1] + 1 <= n THEN x[2] + f[x[1] + 1] ELSE x[2]]
  <1>1. G \in [Nat \X Int -> Int]
    <2>1. ASSUME NEW k \in Nat, NEW v \in Int
          PROVE  (IF k + 1 <= n THEN v + f[k + 1] ELSE v) \in Int
      <3>1. CASE k + 1 <= n
        <4>1. f[k + 1] \in Int
          BY <3>1
        <4> QED BY <4>1
      <3> QED BY <3>1
    <2> QED BY <2>1
  <1>2. \A k \in Nat, v \in Int : k + 1 <= n => G[<<k, v>>] = v + f[k + 1]
    OBVIOUS
  <1> HIDE DEF G
  <1>3. PICK F \in [Nat -> Int] : F[0] = 0 /\ \A k \in Nat : F[k + 1] = G[<<k, F[k]>>]
    <2>1. 0 \in Int
      OBVIOUS
    <2>2. \E F : Recursive(F, Int, 0, G)
      BY <1>1, <2>1, Recursion, Zenon
    <2> QED BY <2>2 DEF Recursive
  <1>4. \A k \in Nat : k + 1 <= n => F[k + 1] = F[k] + f[k + 1]
    BY <1>2, <1>3, Zenon
  <1>5. ASSUME NEW m \in 0 .. n PROVE SumTo(f, m) = F[m]
    <2> DEFINE Sum(g) == [k \in 0 .. m |-> IF k = 0 THEN 0 ELSE g[k - 1] + f[k]]
               g0 == [k \in 0 .. m |-> F[k]]
               h == CHOOSE g : g = Sum(g)
    <2>1. SumTo(f, m) = h[m]
      BY DEF SumTo
    <2>2. g0 = Sum(g0)
      <3>1. ASSUME NEW k \in 0 .. m, k # 0 PROVE F[k] = g0[k - 1] + f[k]
        <4>1. k - 1 \in Nat /\ k = (k - 1) + 1 /\ k <= n
          BY <3>1
        <4>2. F[k] = F[k - 1] + f[k]
          BY <1>4, <4>1
        <4> QED BY <4>2, <3>1
      <3> QED BY <1>3, <3>1
    <2>3. h = Sum(h)
      <3> HIDE DEF Sum, g0
      <3> QED BY <2>2
    <2>4. /\ h[0] = 0
          /\ \A k \in 1 .. m : h[k] = h[k - 1] + f[k]
      <3> HIDE DEF h
      <3> QED BY <2>3
    <2> HIDE DEF h
    <2> DEFINE Same == {k \in Nat : k <= m => h[k] = F[k]}
    <2>5. Nat \subseteq Same
      <3>1. 0 \in Same
        BY <1>3, <2>4
      <3>2. ASSUME NEW k \in Nat, k \in Same PROVE k + 1 \in Same
        <4>1. CASE k + 1 <= m
          <5>1. h[k + 1] = h[k] + f[k + 1]
            BY <2>4, <4>1
          <5>2. F[k + 1] = F[k] + f[k + 1]
            BY <1>4, <4>1
          <5> QED BY <3>2, <4>1, <5>1, <5>2
        <4> QED BY <4>1
      <3> HIDE DEF Same
      <3> QED BY <3>1, <3>2, SetInduction
    <2> QED BY <2>1, <2>5
  <1> QED BY <1>3, <1>4, <1>5

(* A sum has a first and a next value. *)
LEMMA SumDef ==
    ASSUME NEW n \in Nat, NEW f, Ints(f, n)
    PROVE  /\ SumTo(f, 0) = 0
           /\ \A m \in 0 .. n : SumTo(f, m) \in Int
           /\ \A m \in 1 .. n : SumTo(f, m) = SumTo(f, m - 1) + f[m]
  <1> USE DEF Ints
  <1>1. PICK F \in [Nat -> Int] :
              /\ F[0] = 0
              /\ \A k \in Nat : k + 1 <= n => F[k + 1] = F[k] + f[k + 1]
              /\ \A m \in 0 .. n : SumTo(f, m) = F[m]
    BY RunningSum, ZenonT(40)
  <1>2. ASSUME NEW m \in 1 .. n PROVE SumTo(f, m) = SumTo(f, m - 1) + f[m]
    <2>1. m - 1 \in Nat /\ m = (m - 1) + 1 /\ m - 1 \in 0 .. n /\ m \in 0 .. n
      OBVIOUS
    <2>2. F[m] = F[m - 1] + f[m]
      BY <1>1, <2>1
    <2> QED BY <1>1, <2>1, <2>2
  <1> QED BY <1>1, <1>2

(* A change of one value changes the sum by as much. *)
LEMMA SumChanged ==
    ASSUME NEW n \in Nat, NEW f, Ints(f, n),
           NEW g, Ints(g, n), NEW c, NEW d \in Int,
           DifferAt(f, g, n, c, d)
    PROVE  SumTo(g, n) = IF c \in 1 .. n THEN SumTo(f, n) + d ELSE SumTo(f, n)
  <1> USE DEF Ints, DifferAt
  <1> DEFINE Good == {m \in Nat : m <= n => SumTo(g, m) =
                         IF c \in 1 .. m THEN SumTo(f, m) + d ELSE SumTo(f, m)}
  <1>1. 0 \in Good
    BY SumDef
  <1>2. ASSUME NEW m \in Nat, m \in Good PROVE m + 1 \in Good
    <2>1. CASE m + 1 <= n
      <3>1. m + 1 \in 1 .. n /\ (m + 1) - 1 = m /\ m \in 0 .. n
        BY <2>1
      <3>2. /\ SumTo(f, m + 1) = SumTo(f, m) + f[m + 1] /\ SumTo(f, m) \in Int
            /\ SumTo(g, m + 1) = SumTo(g, m) + g[m + 1] /\ SumTo(g, m) \in Int
        BY <3>1, SumDef
      <3>3. SumTo(g, m) = IF c \in 1 .. m THEN SumTo(f, m) + d ELSE SumTo(f, m)
        BY <1>2, <2>1
      <3>4. /\ g[m + 1] = IF m + 1 = c THEN f[m + 1] + d ELSE f[m + 1]
            /\ f[m + 1] \in Int /\ g[m + 1] \in Int
        BY <3>1
      <3>5. c \in 1 .. m + 1 <=> c = m + 1 \/ c \in 1 .. m
        OBVIOUS
      <3>6. c = m + 1 => c \notin 1 .. m
        OBVIOUS
      <3> QED BY <3>2, <3>3, <3>4, <3>5, <3>6
    <2> QED BY <2>1
  <1>3. Nat \subseteq Good
    <2> HIDE DEF Good
    <2> QED BY <1>1, <1>2, SetInduction
  <1> QED BY <1>3

(* Sums of functions that agree. *)
LEMMA SumSame ==
    ASSUME NEW n \in Nat, NEW f, Ints(f, n),
           NEW g, \A k \in 1 .. n : g[k] = f[k]
    PROVE  SumTo(g, n) = SumTo(f, n)
  <1>1. Ints(g, n) /\ DifferAt(f, g, n, 0, 0)
    BY DEF Ints, DifferAt
  <1>2. 0 \in Int /\ 0 \notin 1 .. n
    OBVIOUS
  <1> QED BY <1>1, <1>2, SumChanged

(* A sum grows with the number of its values, by at least the last. *)
LEMMA SumGrows ==
    ASSUME NEW n \in Nat, NEW f, \A k \in 1 .. n : f[k] \in Nat, NEW i \in 0 .. n
    PROVE  /\ SumTo(f, n) \in Nat
           /\ SumTo(f, i) \in Nat
           /\ SumTo(f, i) <= SumTo(f, n)
  <1> USE DEF Ints
  <1> DEFINE Good == {m \in Nat : m <= n =>
                 /\ SumTo(f, m) \in Nat
                 /\ \A j \in 0 .. m : SumTo(f, j) \in Nat /\ SumTo(f, j) <= SumTo(f, m)}
  <1>0. \A k \in 1 .. n : f[k] \in Int
    OBVIOUS
  <1>1. 0 \in Good
    BY <1>0, SumDef
  <1>2. ASSUME NEW m \in Nat, m \in Good PROVE m + 1 \in Good
    <2>1. CASE m + 1 <= n
      <3>1. m + 1 \in 1 .. n /\ (m + 1) - 1 = m /\ f[m + 1] \in Nat
        BY <2>1
      <3>2. SumTo(f, m + 1) = SumTo(f, m) + f[m + 1]
        BY <1>0, <3>1, SumDef
      <3>3. /\ SumTo(f, m) \in Nat
            /\ \A j \in 0 .. m : SumTo(f, j) \in Nat /\ SumTo(f, j) <= SumTo(f, m)
        BY <1>2, <2>1
      <3>4. \A j \in 0 .. m + 1 : j \in 0 .. m \/ j = m + 1
        OBVIOUS
      <3>5. SumTo(f, m + 1) \in Nat /\ SumTo(f, m) <= SumTo(f, m + 1)
        BY <3>1, <3>2, <3>3
      <3>6. ASSUME NEW j \in 0 .. m + 1
            PROVE  SumTo(f, j) \in Nat /\ SumTo(f, j) <= SumTo(f, m + 1)
        <4>1. CASE j \in 0 .. m
          BY <3>3, <3>5, <4>1
        <4>2. CASE j = m + 1
          BY <3>5, <4>2
        <4> QED BY <3>4, <4>1, <4>2
      <3> QED BY <3>5, <3>6
    <2> QED BY <2>1
  <1>3. Nat \subseteq Good
    <2> HIDE DEF Good
    <2> QED BY <1>1, <1>2, SetInduction
  <1> QED BY <1>3

(* A slot more in every value. *)
LEMMA SumSlots ==
    ASSUME NEW n \in Nat, NEW f, Ints(f, n),
           NEW g, \A k \in 1 .. n : g[k] = SLOT_SIZE + f[k]
    PROVE  SumTo(g, n) = n * SLOT_SIZE + SumTo(f, n)
  <1> USE DEF Ints
  <1> USE DEF SLOT_SIZE
  <1> DEFINE Good == {m \in Nat : m <= n => SumTo(g, m) = m * SLOT_SIZE + SumTo(f, m)}
  <1>1. 0 \in Good
    BY SumDef
  <1>2. ASSUME NEW m \in Nat, m \in Good PROVE m + 1 \in Good
    <2>1. CASE m + 1 <= n
      <3>1. m + 1 \in 1 .. n /\ (m + 1) - 1 = m /\ m \in 0 .. n
        BY <2>1
      <3>2. \A k \in 1 .. n : g[k] \in Int
        OBVIOUS
      <3>3. SumTo(f, m + 1) = SumTo(f, m) + f[m + 1] /\ SumTo(f, m) \in Int
        BY <3>1, SumDef
      <3>4. SumTo(g, m + 1) = SumTo(g, m) + g[m + 1] /\ SumTo(g, m) \in Int
        BY <3>1, <3>2, SumDef
      <3>5. SumTo(g, m) = m * SLOT_SIZE + SumTo(f, m)
        BY <1>2, <2>1
      <3>6. g[m + 1] = SLOT_SIZE + f[m + 1] /\ f[m + 1] \in Int
        BY <3>1
      <3> QED BY <3>3, <3>4, <3>5, <3>6
    <2> QED BY <2>1
  <1>3. Nat \subseteq Good
    <2> HIDE DEF Good
    <2> QED BY <1>1, <1>2, SetInduction
  <1> QED BY <1>3

-----------------------------------------------------------------------------
RowLists == Seq(Seq(Int))
Lens(rows) == [k \in 1 .. Len(rows) |-> Len(rows[k])]
Total(rows) == SumTo(Lens(rows), Len(rows))

(* Lengths are numbers. *)
LEMMA LensTyped ==
    ASSUME NEW rows \in RowLists, NEW n \in 0 .. Len(rows)
    PROVE  /\ Len(rows) \in Nat /\ n \in Nat
           /\ \A k \in 1 .. Len(rows) : Lens(rows)[k] = Len(rows[k]) /\ Len(rows[k]) \in Nat
           /\ \A k \in 1 .. n : Lens(rows)[k] \in Nat
           /\ Ints(Lens(rows), n)
  BY DEF RowLists, Lens, Ints

(* What the first slots of a page take grows with their number. *)
LEMMA TotalGrows ==
    ASSUME NEW rows \in RowLists, NEW n \in 0 .. Len(rows), NEW i \in 0 .. n
    PROVE  /\ SumTo(Lens(rows), n) \in Nat /\ SumTo(Lens(rows), i) \in Nat
           /\ SumTo(Lens(rows), i) <= SumTo(Lens(rows), n)
           /\ SumTo(Lens(rows), 0) = 0
           /\ n > 0 => SumTo(Lens(rows), n) = SumTo(Lens(rows), n - 1) + Len(rows[n])
  <1>1. PICK f : f = Lens(rows)
    OBVIOUS
  <1>2. n \in Nat /\ (\A k \in 1 .. n : f[k] \in Nat) /\ Ints(f, n) /\ Len(rows) \in Nat
    BY <1>1, LensTyped
  <1>3. SumTo(f, n) \in Nat /\ SumTo(f, i) \in Nat /\ SumTo(f, i) <= SumTo(f, n)
    BY <1>2, SumGrows
  <1>4. SumTo(f, 0) = 0 /\ \A m \in 1 .. n : SumTo(f, m) = SumTo(f, m - 1) + f[m]
    BY <1>2, SumDef
  <1>5. n > 0 => n \in 1 .. n /\ f[n] = Len(rows[n])
    BY <1>1, <1>2, LensTyped
  <1> QED BY <1>1, <1>3, <1>4, <1>5

(* A page is charged for its slots and its tuples. *)
LEMMA ChargeIs ==
    ASSUME NEW rows \in RowLists
    PROVE  /\ Charge(rows) = Len(rows) * SLOT_SIZE + Total(rows)
           /\ Len(rows) \in Nat /\ Total(rows) \in Nat
  <1>1. PICK f, g, n : /\ f = Lens(rows) /\ n = Len(rows)
                       /\ g = [i \in DOMAIN rows |-> SLOT_SIZE + Len(rows[i])]
    BY Zenon
  <1>2. n \in Nat /\ n \in 0 .. Len(rows) /\ Ints(f, n)
    BY <1>1, LensTyped DEF RowLists
  <1>3. \A k \in 1 .. n : g[k] = SLOT_SIZE + f[k]
    BY <1>1 DEF Lens, RowLists
  <1>4. SumTo(g, n) = n * SLOT_SIZE + SumTo(f, n)
    BY <1>2, <1>3, SumSlots
  <1>5. SumTo(f, n) \in Nat
    BY <1>1, <1>2, TotalGrows
  <1> QED BY <1>1, <1>2, <1>4, <1>5 DEF Charge, Total

(* Rows are summed up one by one. *)
LEMMA SumAgrees ==
    ASSUME NEW rows \in RowLists, NEW more \in RowLists, NEW n \in 0 .. Len(rows),
           n <= Len(more), \A k \in 1 .. n : more[k] = rows[k]
    PROVE  SumTo(Lens(more), n) = SumTo(Lens(rows), n)
  <1>1. PICK f, g : f = Lens(rows) /\ g = Lens(more)
    OBVIOUS
  <1>2. n \in Nat /\ Ints(f, n)
    BY <1>1, LensTyped
  <1>3. \A k \in 1 .. n : g[k] = f[k]
    BY <1>1, <1>2 DEF Lens, RowLists
  <1> QED BY <1>1, <1>2, <1>3, SumSame

(* A tuple more. *)
LEMMA TotalAppend ==
    ASSUME NEW rows \in RowLists, NEW t \in Seq(Int)
    PROVE  /\ Append(rows, t) \in RowLists /\ Len(Append(rows, t)) = Len(rows) + 1
           /\ Total(Append(rows, t)) = Total(rows) + Len(t)
  <1>1. PICK more, n : more = Append(rows, t) /\ n = Len(rows)
    BY Zenon
  <1>2. /\ more \in RowLists /\ n \in Nat /\ Len(more) = n + 1 /\ more[n + 1] = t
        /\ \A k \in 1 .. n : more[k] = rows[k]
    BY <1>1 DEF RowLists
  <1>3. PICK m : m = n + 1
    OBVIOUS
  <1>4. m \in 0 .. Len(more) /\ 0 \in 0 .. m /\ m > 0 /\ m - 1 = n
    BY <1>2, <1>3
  <1>5. SumTo(Lens(more), m) = SumTo(Lens(more), m - 1) + Len(more[m])
    BY <1>2, <1>4, TotalGrows
  <1>6. SumTo(Lens(more), n) = SumTo(Lens(rows), n)
    <2>1. n \in 0 .. Len(rows) /\ n <= Len(more)
      BY <1>1, <1>2
    <2> QED BY <1>2, <2>1, SumAgrees
  <1> QED BY <1>1, <1>2, <1>3, <1>4, <1>5, <1>6 DEF Total

(* Another tuple in a slot. *)
LEMMA TotalExcept ==
    ASSUME NEW rows \in RowLists, NEW id \in 1 .. Len(rows), NEW t \in Seq(Int)
    PROVE  /\ [rows EXCEPT ![id] = t] \in RowLists
           /\ Len([rows EXCEPT ![id] = t]) = Len(rows)
           /\ Total([rows EXCEPT ![id] = t]) = Total(rows) + (Len(t) - Len(rows[id]))
  <1>1. PICK other, n, d : /\ other = [rows EXCEPT ![id] = t] /\ n = Len(rows)
                           /\ d = Len(t) - Len(rows[id])
    BY Zenon
  <1>2. /\ other \in RowLists /\ n \in Nat /\ Len(other) = n
        /\ Len(t) \in Nat /\ Len(rows[id]) \in Nat
    BY <1>1 DEF RowLists
  <1>3. \A k \in 1 .. n : other[k] = IF k = id THEN t ELSE rows[k]
    BY <1>1 DEF RowLists
  <1>4. PICK f, g : f = Lens(rows) /\ g = Lens(other)
    OBVIOUS
  <1>5. n \in 0 .. Len(rows) /\ n \in 0 .. Len(other)
    BY <1>1, <1>2
  <1>6. Ints(f, n) /\ Ints(g, n)
    BY <1>2, <1>4, <1>5, LensTyped
  <1>7. DifferAt(f, g, n, id, d) /\ d \in Int
    <2>1. \A k \in 1 .. n : f[k] = Len(rows[k]) /\ g[k] = Len(other[k]) /\ f[k] \in Int
      BY <1>1, <1>2, <1>4, LensTyped DEF Lens, RowLists
    <2>2. d \in Int /\ Len(t) = Len(rows[id]) + d
      BY <1>1, <1>2
    <2>3. \A k \in 1 .. n : g[k] = IF k = id THEN f[k] + d ELSE f[k]
      BY <1>3, <2>1, <2>2
    <2> QED BY <2>2, <2>3 DEF DifferAt
  <1>8. SumTo(g, n) = IF id \in 1 .. n THEN SumTo(f, n) + d ELSE SumTo(f, n)
    BY <1>2, <1>6, <1>7, SumChanged
  <1> QED BY <1>1, <1>2, <1>4, <1>8 DEF Total

-----------------------------------------------------------------------------
(* Rows that fit still do when one of them is emptied. *)
LEMMA EmptiedFits ==
    ASSUME NEW rows \in RowLists, NEW id \in 1 .. Len(rows), Fits(rows)
    PROVE  Fits([rows EXCEPT ![id] = NoTuple])
  <1>1. PICK more : more = [rows EXCEPT ![id] = NoTuple]
    BY Zenon
  <1>2. Len(rows[id]) \in Nat /\ Len(rows) \in Nat
    BY DEF RowLists
  <1>3. NoTuple \in Seq(Int) /\ Len(NoTuple) = 0
    BY DEF NoTuple
  <1>4. /\ more \in RowLists /\ Len(more) = Len(rows)
        /\ Total(more) = Total(rows) + (Len(NoTuple) - Len(rows[id]))
    BY <1>1, <1>2, <1>3, TotalExcept, Zenon
  <1>5. /\ Charge(rows) = Len(rows) * SLOT_SIZE + Total(rows) /\ Total(rows) \in Nat
        /\ Charge(more) = Len(more) * SLOT_SIZE + Total(more)
    BY <1>2, <1>4, ChargeIs
  <1>6. Charge(more) <= Charge(rows) /\ Charge(more) \in Int /\ Charge(rows) \in Int
    BY <1>2, <1>3, <1>4, <1>5 DEF SLOT_SIZE
  <1>7. Fits(more)
    BY <1>6, SlottedPageAssumption DEF Fits
  <1> QED BY <1>1, <1>7

(* A page has room for the slots of the rows that fit. *)
LEMMA FitsSlots ==
    ASSUME NEW rows \in RowLists, Fits(rows)
    PROVE  Len(rows) <= (PAGE_SIZE - HEADER_SIZE) \div SLOT_SIZE
  <1>1. Charge(rows) = Len(rows) * 2 + Total(rows) /\ Len(rows) \in Nat /\ Total(rows) \in Nat
    BY ChargeIs DEF SLOT_SIZE
  <1>2. Len(rows) * 2 <= PAGE_SIZE - HEADER_SIZE /\ PAGE_SIZE - HEADER_SIZE \in Nat
    BY <1>1, SlottedPageAssumption DEF Fits
  <1> QED BY <1>1, <1>2 DEF SLOT_SIZE

(* An empty page fits, and so does a tuple that check_tuple accepts. *)
LEMMA FirstFits ==
    /\ Fits(<<>>)
    /\ \A t \in Seq(Int) : check_tuple(t) => Fits(<<t>>)
  <1>1. PICK none : none = <<>>
    OBVIOUS
  <1>2. none \in RowLists /\ Len(none) = 0
    BY <1>1 DEF RowLists
  <1>3. Total(none) = 0
    <2>1. 0 \in 0 .. Len(none) /\ 0 \in 0 .. 0
      BY <1>2
    <2>2. SumTo(Lens(none), 0) = 0
      BY <1>2, <2>1, TotalGrows, Zenon
    <2> QED BY <1>2, <2>2 DEF Total
  <1>4. Fits(none)
    BY <1>2, <1>3, ChargeIs, SlottedPageAssumption DEF Fits, SLOT_SIZE
  <1>5. ASSUME NEW t \in Seq(Int), check_tuple(t) PROVE Fits(<<t>>)
    <2>1. PICK one : one = Append(none, t)
      BY Zenon
    <2>2. /\ one \in RowLists /\ Len(one) = Len(none) + 1
          /\ Total(one) = Total(none) + Len(t)
      BY <1>2, <2>1, TotalAppend, Zenon
    <2>3. Len(t) \in Nat /\ Len(t) <= PAGE_SIZE - HEADER_SIZE - 2
      BY <1>5 DEF check_tuple, MAX_TUPLE_SIZE, SLOT_SIZE
    <2>4. Charge(one) = 2 + Len(t)
      <3>1. Charge(one) = Len(one) * SLOT_SIZE + Total(one)
        BY <2>2, ChargeIs, Zenon
      <3> QED BY <1>2, <1>3, <2>2, <2>3, <3>1 DEF SLOT_SIZE
    <2>5. Fits(one)
      BY <2>3, <2>4, SlottedPageAssumption DEF Fits
    <2> QED BY <1>1, <2>1, <2>5
  <1> QED BY <1>1, <1>4, <1>5
=============================================================================
