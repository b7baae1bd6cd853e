---------------------------- MODULE AuxPow_proofs ----------------------------
(***************************************************************************)
(* Lemmas about the arithmetic of mergedMiningProxy, for integers of any   *)
(* width, bytes of any base, and trees and branches of any height:         *)
(*                                                                         *)
(*  - a path through a tree leads from the leaf of a slot to the root, and *)
(*    its bits are the slot (PathLeads, PathMask);                         *)
(*  - a branch that is expanded by a path leads where the branch leads     *)
(*    from the end of the path (RootOfExpanded);                           *)
(*  - whether two chains conflict does not depend on the nonce: the size   *)
(*    of a tree divides the modulus (ConflictForAll);                      *)
(*  - compact bits match the target they are made of (BigToCompactMatches). *)
(*                                                                         *)
(* From these, what makeAuxJob makes is right (MakeJobVerifies,            *)
(* MakeJobSmallest, MakeJobBits).                                          *)
(*                                                                         *)
(* The functions of AuxPow are defined by recursion over the naturals.     *)
(* Induction is over a set of naturals that has 0 and the successor of     *)
(* each of its elements (SetInduction), which follows from the well-       *)
(* foundedness of <; that a recursive definition has a solution, from a    *)
(* solution on every beginning of the naturals (Recursion).                *)
(***************************************************************************)
EXTENDS AuxPow, WellFoundedInduction, TLAPS

-----------------------------------------------------------------------------
(* Induction over sets, and recursion by functions *)

LEMMA SetInduction ==
    ASSUME NEW S, 0 \in S, \A n \in Nat : n \in S => n + 1 \in S
    PROVE  Nat \subseteq S
<1> DEFINE T == Nat \ S
<1>1. SUFFICES ASSUME T # {} PROVE FALSE
  OBVIOUS
<1>2. PICK x \in T : \A y \in T : ~ (<<y, x>> \in OpToRel(<, Nat))
  <2>1. T \subseteq Nat
    OBVIOUS
  <2> HIDE DEF T
  <2> QED
    BY <1>1, <2>1, NatLessThanWellFounded, WFMin
<1>3. \A y \in T : ~(y < x)
  BY <1>2 DEF OpToRel
<1>4. x # 0 /\ x \in Nat /\ x - 1 \in Nat /\ x - 1 < x
  BY <1>1
<1>5. x - 1 \in S
  BY <1>3, <1>4
<1> QED
  BY <1>4, <1>5

\* A finite beginning of a sequence of values.
Starts(f, n, x, step) ==
    f = [k \in 0 .. n |-> IF k = 0 THEN x ELSE step[k - 1][f[k - 1]]]

LEMMA StartsExist ==
    ASSUME NEW V, NEW x \in V, NEW step \in [Nat -> [V -> V]], NEW n \in Nat
    PROVE  \E f \in [0 .. n -> V] : Starts(f, n, x, step)
<1> DEFINE S == {m \in Nat : \E f \in [0 .. m -> V] : Starts(f, m, x, step)}
<1>1. 0 \in S
  <2> DEFINE f == [k \in 0 .. 0 |-> x]
  <2>1. f \in [0 .. 0 -> V] /\ Starts(f, 0, x, step)
    BY DEF Starts
  <2> QED
    BY <2>1
<1>2. ASSUME NEW m \in Nat, m \in S
      PROVE  m + 1 \in S
  <2>1. PICK f \in [0 .. m -> V] : Starts(f, m, x, step)
    BY <1>2
  <2> DEFINE g == [k \in 0 .. m + 1 |-> IF k <= m THEN f[k] ELSE step[m][f[m]]]
  <2>2. f[m] \in V /\ step[m][f[m]] \in V
    BY <2>1
  <2>3. g \in [0 .. m + 1 -> V]
    BY <2>1, <2>2
  <2>4. ASSUME NEW k \in 0 .. m + 1
        PROVE  g[k] = IF k = 0 THEN x ELSE step[k - 1][g[k - 1]]
    <3>1. k \in 1 .. m => g[k] = f[k] /\ g[k - 1] = f[k - 1] /\ f[k] = step[k - 1][f[k - 1]]
      BY <2>1 DEF Starts
    <3>2. g[0] = x
      BY <2>1 DEF Starts
    <3>3. g[m + 1] = step[m][f[m]] /\ g[m] = f[m]
      OBVIOUS
    <3> QED
      BY <3>1, <3>2, <3>3
  <2>5. Starts(g, m + 1, x, step)
    BY <2>4 DEF Starts
  <2> QED
    BY <2>3, <2>5
<1> HIDE DEF S
<1>3. n \in S
  BY <1>1, <1>2, SetInduction
<1> QED
  BY <1>3 DEF S

LEMMA StartsAgree ==
    ASSUME NEW x, NEW step, NEW m \in Nat, NEW n \in Nat, NEW f, NEW g,
           Starts(f, m, x, step), Starts(g, n, x, step)
    PROVE  \A k \in Nat : k <= m /\ k <= n => f[k] = g[k]
<1> DEFINE S == {k \in Nat : k <= m /\ k <= n => f[k] = g[k]}
<1>1. 0 \in S
  BY DEF Starts
<1>2. ASSUME NEW k \in Nat, k \in S
      PROVE  k + 1 \in S
  <2>1. CASE k + 1 <= m /\ k + 1 <= n
    <3>1. f[k] = g[k]
      BY <1>2, <2>1
    <3>2. f[k + 1] = step[k][f[k]] /\ g[k + 1] = step[k][g[k]]
      BY <2>1 DEF Starts
    <3> QED
      BY <3>1, <3>2
  <2> QED
    BY <2>1
<1> HIDE DEF S
<1>3. Nat \subseteq S
  BY <1>1, <1>2, SetInduction
<1> QED
  BY <1>3 DEF S

\* The sequence of all its values.
Iterates(f, V, x, step) ==
    f \in [Nat -> V] /\ f[0] = x /\ \A k \in Nat : f[k + 1] = step[k][f[k]]

LEMMA Recursion ==
    ASSUME NEW V, NEW x \in V, NEW step \in [Nat -> [V -> V]]
    PROVE  \E f : Iterates(f, V, x, step)
<1> DEFINE Is(n, h) == h \in [0 .. n -> V] /\ Starts(h, n, x, step)
           start(n) == CHOOSE h : Is(n, h)
           f == [k \in Nat |-> start(k)[k]]
<1>1. \A n \in Nat : Is(n, start(n))
  <2> SUFFICES ASSUME NEW n \in Nat PROVE \E h : Is(n, h)
    OBVIOUS
  <2> QED
    BY StartsExist
<1> HIDE DEF start
<1>2. f \in [Nat -> V]
  BY <1>1
<1>3. ASSUME NEW k \in Nat
      PROVE  f[k + 1] = step[k][f[k]]
  <2>1. Is(k, start(k)) /\ Is(k + 1, start(k + 1))
    BY <1>1
  <2>2. start(k + 1)[k] = start(k)[k]
    BY <2>1, StartsAgree
  <2>3. start(k + 1)[k + 1] = step[k][start(k + 1)[k]]
    BY <2>1 DEF Starts
  <2> QED
    BY <2>2, <2>3
<1>4. f[0] = x
  BY <1>1 DEF Starts
<1> QED
  BY <1>2, <1>3, <1>4 DEF Iterates

-----------------------------------------------------------------------------
(* Powers and shifts *)

LEMMA PowersFit ==
    ASSUME NEW b \in Nat
    PROVE  /\ Powers(b)[0] = 1
           /\ \A k \in Nat : /\ Powers(b)[k] \in Nat
                             /\ Powers(b)[k + 1] = b * Powers(b)[k]
<1> DEFINE Is(p) == p = [k \in Nat |-> IF k = 0 THEN 1 ELSE b * p[k - 1]]
           step == [k \in Nat |-> [v \in Nat |-> b * v]]
<1>1. step \in [Nat -> [Nat -> Nat]] /\ \A k, v \in Nat : step[k][v] = b * v
  OBVIOUS
<1> HIDE DEF step
<1>2. PICK p : Iterates(p, Nat, 1, step)
  BY <1>1, Recursion, 1 \in Nat
<1>3. Is(p)
  <2>1. p \in [Nat -> Nat] /\ \A k \in Nat : p[k + 1] = b * p[k]
    BY <1>1, <1>2 DEF Iterates
  <2>2. ASSUME NEW k \in Nat
        PROVE  p[k] = IF k = 0 THEN 1 ELSE b * p[k - 1]
    BY <1>2, <2>1, k = 0 \/ k - 1 \in Nat DEF Iterates
  <2> QED
    BY <2>1, <2>2
<1>4. Powers(b) = CHOOSE q : Is(q)
  BY DEF Powers
<1>5. Is(Powers(b))
  BY <1>3, <1>4
<1>6. Powers(b)[0] = 1 /\ \A k \in Nat : Powers(b)[k + 1] = b * Powers(b)[k]
  BY <1>5
<1> DEFINE S == {k \in Nat : Powers(b)[k] \in Nat}
<1>7. 0 \in S /\ \A k \in Nat : k \in S => k + 1 \in S
  BY <1>6
<1> HIDE DEF S
<1>8. Nat \subseteq S
  BY <1>7, SetInduction
<1> QED
  BY <1>6, <1>8 DEF S

LEMMA PowerStep ==
    ASSUME NEW b \in Nat
    PROVE  /\ Power(b, 0) = 1
           /\ \A k \in Nat : Power(b, k) \in Nat /\ Power(b, k + 1) = b * Power(b, k)
BY PowersFit DEF Power

LEMMA PowerPositive ==
    ASSUME NEW b \in Nat \ {0}, NEW k \in Nat
    PROVE  Power(b, k) \in Nat \ {0}
<1> DEFINE S == {n \in Nat : Power(b, n) > 0}
<1>1. 0 \in S
  BY PowerStep
<1>2. ASSUME NEW n \in Nat, n \in S PROVE n + 1 \in S
  <2>1. Power(b, n + 1) = b * Power(b, n) /\ Power(b, n) \in Nat /\ Power(b, n) > 0
    BY <1>2, PowerStep
  <2>2. \A x, y \in Nat : x > 0 /\ y > 0 => x * y > 0
    OBVIOUS
  <2> QED
    BY <2>1, <2>2
<1> HIDE DEF S
<1>3. k \in S
  BY <1>1, <1>2, SetInduction
<1> QED
  BY <1>3, PowerStep DEF S

LEMMA HalvingsFit ==
    ASSUME NEW n \in Nat
    PROVE  /\ Halvings(n)[0] = n
           /\ \A k \in Nat : /\ Halvings(n)[k] \in Nat
                             /\ Halvings(n)[k + 1] = Halvings(n)[k] \div 2
<1> DEFINE Is(h) == h = [k \in Nat |-> IF k = 0 THEN n ELSE h[k - 1] \div 2]
           step == [k \in Nat |-> [v \in Nat |-> v \div 2]]
<1>1. step \in [Nat -> [Nat -> Nat]] /\ \A k, v \in Nat : step[k][v] = v \div 2
  OBVIOUS
<1> HIDE DEF step
<1>2. PICK h : Iterates(h, Nat, n, step)
  BY <1>1, Recursion, 1 \in Nat
<1>3. Is(h)
  <2>1. h \in [Nat -> Nat] /\ \A k \in Nat : h[k + 1] = h[k] \div 2
    BY <1>1, <1>2 DEF Iterates
  <2>2. ASSUME NEW k \in Nat
        PROVE  h[k] = IF k = 0 THEN n ELSE h[k - 1] \div 2
    BY <1>2, <2>1, k = 0 \/ k - 1 \in Nat DEF Iterates
  <2> QED
    BY <2>1, <2>2
<1>4. Halvings(n) = CHOOSE q : Is(q)
  BY DEF Halvings
<1>5. Is(Halvings(n))
  BY <1>3, <1>4
<1>6. Halvings(n)[0] = n /\ \A k \in Nat : Halvings(n)[k + 1] = Halvings(n)[k] \div 2
  BY <1>5
<1> DEFINE S == {k \in Nat : Halvings(n)[k] \in Nat}
<1>7. 0 \in S /\ \A k \in Nat : k \in S => k + 1 \in S
  BY <1>6
<1> HIDE DEF S
<1>8. Nat \subseteq S
  BY <1>7, SetInduction
<1> QED
  BY <1>6, <1>8 DEF S

LEMMA Division ==
    ASSUME NEW m \in Nat \ {0}, NEW a \in Int
    PROVE  /\ a % m \in 0 .. m - 1 /\ a \div m \in Int
           /\ a = (m * (a \div m)) + (a % m)
OBVIOUS

LEMMA DivisionUnique ==
    ASSUME NEW m \in Nat \ {0}, NEW q \in Int, NEW r \in 0 .. m - 1
    PROVE  ((m * q) + r) % m = r /\ ((m * q) + r) \div m = q
OBVIOUS

(* The lower bits of a number, and a shift by one. *)
LEMMA ShiftLowBits ==
    ASSUME NEW p \in Nat \ {0}, NEW y \in Nat
    PROVE  /\ (y % (2 * p)) \div 2 = (y \div 2) % p
           /\ (y % (2 * p)) % 2 = y % 2
<1> DEFINE q == y \div (2 * p)
           r == y % (2 * p)
           h == r \div 2
           s == r % 2
<1>1. \A m \in Nat \ {0} : /\ y % m \in 0 .. m - 1 /\ y \div m \in Int
                          /\ y = (m * (y \div m)) + (y % m)
  BY Division
<1>2. q \in Int /\ r \in 0 .. (2 * p) - 1 /\ y = ((2 * p) * q) + r
  <2>1. 2 * p \in Nat \ {0}
    OBVIOUS
  <2> QED
    BY <1>1, <2>1
<1>3. h \in Nat /\ s \in 0 .. 1 /\ r = (2 * h) + s
  BY <1>2
<1> HIDE DEF q, r
<1>4. h \in 0 .. p - 1
  BY <1>2, <1>3
<1> HIDE DEF h, s
<1>5. p * q \in Int /\ (2 * p) * q = 2 * (p * q)
  BY <1>2
<1>6. y = (2 * ((p * q) + h)) + s
  BY <1>2, <1>3, <1>5
<1>7. y \div 2 = (p * q) + h /\ y % 2 = s
  BY <1>3, <1>5, <1>6
<1>8. ((p * q) + h) % p = h
  BY <1>2, <1>4, DivisionUnique
<1> QED
  BY <1>7, <1>8 DEF h, s, r

(* A number of n bits has n - k after k shifts, and at last none. *)
LEMMA HalvingsBelow ==
    ASSUME NEW n \in Nat, NEW x \in Nat, x < Power(2, n), NEW j \in Nat, j <= n
    PROVE  Halvings(x)[j] < Power(2, n - j)
<1> DEFINE S == {k \in Nat : k <= n => Halvings(x)[k] < Power(2, n - k)}
<1>1. 0 \in S
  BY HalvingsFit
<1>2. ASSUME NEW k \in Nat, k \in S PROVE k + 1 \in S
  <2> SUFFICES ASSUME k + 1 <= n PROVE Halvings(x)[k + 1] < Power(2, n - (k + 1))
    OBVIOUS
  <2> DEFINE y == Halvings(x)[k]
             p == Power(2, n - (k + 1))
  <2>1. n - (k + 1) \in Nat /\ (n - (k + 1)) + 1 = n - k
    OBVIOUS
  <2>2. Power(2, n - k) = 2 * p /\ p \in Nat
    BY <2>1, PowerStep
  <2>3. y \in Nat /\ Halvings(x)[k + 1] = y \div 2 /\ y < 2 * p
    BY <1>2, <2>2, HalvingsFit
  <2> HIDE DEF y, p
  <2>4. y \div 2 < p
    BY <2>2, <2>3
  <2> QED
    BY <2>3, <2>4 DEF p
<1> HIDE DEF S
<1>3. j \in S
  BY <1>1, <1>2, SetInduction
<1> QED
  BY <1>3 DEF S

LEMMA HalvingsEnd ==
    ASSUME NEW n \in Nat, NEW x \in Nat, x < Power(2, n)
    PROVE  Halvings(x)[n] = 0
<1>1. Halvings(x)[n] < Power(2, n - n) /\ n - n = 0
  BY HalvingsBelow
<1>2. Power(2, 0) = 1 /\ Halvings(x)[n] \in Nat
  BY PowerStep, HalvingsFit
<1> QED
  BY <1>1, <1>2

(* The lower bits of what is shifted are what is shifted of the lower bits. *)
LEMMA HalvingsOfLowBits ==
    ASSUME NEW n \in Nat, NEW x \in Nat, NEW k \in Nat, k <= n
    PROVE  Halvings(x % Power(2, n))[k] = Halvings(x)[k] % Power(2, n - k)
<1> DEFINE z == x % Power(2, n)
           S == {j \in Nat : j <= n => Halvings(z)[j] = Halvings(x)[j] % Power(2, n - j)}
<1>1. z \in Nat
  BY PowerPositive
<1>2. 0 \in S
  BY <1>1, HalvingsFit
<1> HIDE DEF z
<1>3. ASSUME NEW j \in Nat, j \in S PROVE j + 1 \in S
  <2> SUFFICES ASSUME j + 1 <= n
               PROVE  Halvings(z)[j + 1] = Halvings(x)[j + 1] % Power(2, n - (j + 1))
    OBVIOUS
  <2> DEFINE y == Halvings(x)[j]
             p == Power(2, n - (j + 1))
  <2>1. n - (j + 1) \in Nat /\ (n - (j + 1)) + 1 = n - j
    OBVIOUS
  <2>2. Power(2, n - j) = 2 * p /\ p \in Nat \ {0}
    BY <2>1, PowerStep, PowerPositive
  <2>3. y \in Nat /\ Halvings(x)[j + 1] = y \div 2 /\ Halvings(z)[j + 1] = Halvings(z)[j] \div 2
    BY <1>1, HalvingsFit
  <2>4. Halvings(z)[j] = y % (2 * p)
    BY <1>3, <2>2
  <2> HIDE DEF y, p
  <2>5. (y % (2 * p)) \div 2 = (y \div 2) % p
    BY <2>2, <2>3, ShiftLowBits
  <2> QED
    BY <2>3, <2>4, <2>5 DEF p
<1> HIDE DEF S
<1>4. k \in S
  BY <1>2, <1>3, SetInduction
<1> QED
  BY <1>4 DEF S, z

(* Nothing changes the last bits but what reaches them. *)
LEMMA BitOfLowBits ==
    ASSUME NEW n \in Nat, NEW x \in Nat, NEW k \in Nat, k < n
    PROVE  Halvings(x % Power(2, n))[k] % 2 = Halvings(x)[k] % 2
<1> DEFINE p == Power(2, n - (k + 1))
           y == Halvings(x)[k]
<1>1. n - (k + 1) \in Nat /\ (n - (k + 1)) + 1 = n - k
  OBVIOUS
<1>2. Power(2, n - k) = 2 * p /\ p \in Nat \ {0}
  BY <1>1, PowerStep, PowerPositive
<1>3. y \in Nat
  BY HalvingsFit
<1>4. Halvings(x % Power(2, n))[k] = y % (2 * p)
  <2>1. Halvings(x % Power(2, n))[k] = y % Power(2, n - k)
    BY HalvingsOfLowBits
  <2> QED
    BY <1>2, <2>1
<1> HIDE DEF y, p
<1>5. (y % (2 * p)) % 2 = y % 2
  BY <1>2, <1>3, ShiftLowBits
<1> QED
  BY <1>4, <1>5 DEF y

LEMMA HalvingsAdd ==
    ASSUME NEW x \in Nat, NEW a \in Nat, NEW b \in Nat
    PROVE  Halvings(x)[a + b] = Halvings(Halvings(x)[a])[b]
<1> DEFINE y == Halvings(x)[a]
           S == {k \in Nat : Halvings(x)[a + k] = Halvings(y)[k]}
<1>1. y \in Nat
  BY HalvingsFit
<1>2. 0 \in S
  BY <1>1, HalvingsFit
<1> HIDE DEF y
<1>3. ASSUME NEW k \in Nat, k \in S PROVE k + 1 \in S
  <2>1. Halvings(y)[k + 1] = Halvings(y)[k] \div 2
    BY <1>1, HalvingsFit
  <2>2. a + k \in Nat /\ (a + k) + 1 = a + (k + 1)
    OBVIOUS
  <2>3. Halvings(x)[(a + k) + 1] = Halvings(x)[a + k] \div 2
    BY <2>2, HalvingsFit
  <2> QED
    BY <1>3, <2>1, <2>2, <2>3
<1> HIDE DEF S
<1>4. b \in S
  BY <1>2, <1>3, SetInduction
<1> QED
  BY <1>4 DEF S, y

-----------------------------------------------------------------------------
(* Branches *)

Side(path, k) == IF path[k].useFirst THEN 1 ELSE 0

(* The mask shifts by one for each element of the path, the last one first. *)
LEMMA SideMaskSteps ==
    ASSUME NEW path, Len(path) \in Nat, NEW mask \in Nat
    PROVE  \E m : /\ m[0] = mask /\ SideMask(mask, path) = m[Len(path)]
                  /\ \A i \in 0 .. Len(path) : m[i] \in Nat
                  /\ \A i \in 0 .. Len(path) - 1 :
                       m[i + 1] = (2 * m[i]) + Side(path, Len(path) - i)
<1> DEFINE n == Len(path)
           Is(m) == m = [i \in 0 .. n |-> IF i = 0 THEN mask
                            ELSE 2 * m[i - 1] + (IF path[n - i + 1].useFirst THEN 1 ELSE 0)]
           step == [i \in Nat |-> [v \in Nat |-> (2 * v) + Side(path, n - i)]]
<1>1. step \in [Nat -> [Nat -> Nat]]
      /\ \A i, v \in Nat : step[i][v] = (2 * v) + Side(path, n - i)
  BY DEF Side
<1> HIDE DEF step
<1>2. PICK f : Iterates(f, Nat, mask, step)
  BY <1>1, Recursion
<1> DEFINE g == [i \in 0 .. n |-> f[i]]
<1>3. Is(g)
  <2>1. f \in [Nat -> Nat] /\ f[0] = mask
    BY <1>2 DEF Iterates
  <2>2. ASSUME NEW i \in 0 .. n, i # 0
        PROVE  g[i] = 2 * g[i - 1] + (IF path[n - i + 1].useFirst THEN 1 ELSE 0)
    <3>1. i - 1 \in Nat /\ i - 1 \in 0 .. n /\ (i - 1) + 1 = i /\ n - (i - 1) = n - i + 1
      BY <2>2
    <3>2. f[(i - 1) + 1] = (2 * f[i - 1]) + Side(path, n - (i - 1))
      BY <1>1, <1>2, <2>1, <3>1 DEF Iterates
    <3> QED
      BY <3>1, <3>2 DEF Side
  <2>3. \A i \in 0 .. n : g[i] = IF i = 0 THEN mask
            ELSE 2 * g[i - 1] + (IF path[n - i + 1].useFirst THEN 1 ELSE 0)
    BY <2>1, <2>2
  <2> QED
    BY <2>3
<1> DEFINE m == CHOOSE m : Is(m)
<1>4. Is(m)
  BY <1>3
<1>5. SideMask(mask, path) = m[n]
  BY DEF SideMask
<1> HIDE DEF m
<1>6. m[0] = mask
  BY <1>4
<1>7. ASSUME NEW i \in 0 .. n - 1
      PROVE  m[i + 1] = (2 * m[i]) + Side(path, n - i)
  <2>1. i + 1 \in 0 .. n /\ i + 1 # 0 /\ (i + 1) - 1 = i /\ n - (i + 1) + 1 = n - i
    OBVIOUS
  <2>2. m[i + 1] = 2 * m[(i + 1) - 1] + (IF path[n - (i + 1) + 1].useFirst THEN 1 ELSE 0)
    BY <1>4, <2>1
  <2> QED
    BY <2>1, <2>2 DEF Side
<1> DEFINE S == {i \in Nat : i <= n => m[i] \in Nat}
<1>8. 0 \in S
  BY <1>6
<1>9. ASSUME NEW i \in Nat, i \in S PROVE i + 1 \in S
  BY <1>7, <1>9 DEF Side
<1> HIDE DEF S
<1>10. Nat \subseteq S
  BY <1>8, <1>9, SetInduction
<1>11. \A i \in 0 .. n : m[i] \in Nat
  BY <1>10 DEF S
<1> QED
  BY <1>5, <1>6, <1>7, <1>11

(* The last bits of a mask are the sides of the path, the others the mask. *)
LEMMA SideMaskBits ==
    ASSUME NEW path, Len(path) \in Nat, NEW mask \in Nat
    PROVE  /\ SideMask(mask, path) \in Nat
           /\ Halvings(SideMask(mask, path))[Len(path)] = mask
           /\ \A k \in 1 .. Len(path) : Halvings(SideMask(mask, path))[k - 1] % 2 = Side(path, k)
<1> DEFINE n == Len(path)
           x == SideMask(mask, path)
<1>1. PICK m : /\ m[0] = mask /\ x = m[n]
               /\ \A i \in 0 .. n : m[i] \in Nat
               /\ \A i \in 0 .. n - 1 : m[i + 1] = (2 * m[i]) + Side(path, n - i)
  BY SideMaskSteps
<1>2. x \in Nat
  BY <1>1
<1> HIDE DEF x
<1> DEFINE S == {k \in Nat : k <= n => Halvings(x)[k] = m[n - k]}
<1>3. 0 \in S
  <2>1. Halvings(x)[0] = x
    BY <1>2, HalvingsFit
  <2>2. n - 0 = n
    OBVIOUS
  <2>3. x = m[n - 0]
    BY <1>1, <2>2
  <2> QED
    BY <2>1, <2>3
<1>4. ASSUME NEW k \in 1 .. n, k - 1 \in S
      PROVE  Halvings(x)[k] = m[n - k] /\ Halvings(x)[k - 1] % 2 = Side(path, k)
  <2>1. n - k \in 0 .. n - 1 /\ k - 1 \in Nat /\ n - (n - k) = k /\ (n - k) + 1 = n - (k - 1)
    OBVIOUS
  <2>2. Halvings(x)[k - 1] = (2 * m[n - k]) + Side(path, k) /\ m[n - k] \in Nat
    BY <1>1, <1>4, <2>1
  <2>3. Halvings(x)[k] = Halvings(x)[k - 1] \div 2
    BY <1>2, <2>1, HalvingsFit
  <2>4. \A a \in Nat : \A s \in {0, 1} : ((2 * a) + s) \div 2 = a /\ ((2 * a) + s) % 2 = s
    OBVIOUS
  <2>5. Side(path, k) \in {0, 1}
    BY DEF Side
  <2> QED
    BY <2>2, <2>3, <2>4, <2>5
<1>5. ASSUME NEW k \in Nat, k \in S PROVE k + 1 \in S
  <2>1. k + 1 <= n => k + 1 \in 1 .. n /\ (k + 1) - 1 = k
    OBVIOUS
  <2>2. k + 1 <= n => Halvings(x)[k + 1] = m[n - (k + 1)]
    BY <1>4, <1>5, <2>1
  <2> QED
    BY <2>2
<1>6. Nat \subseteq S
  <2> HIDE DEF S
  <2> QED
    BY <1>3, <1>5, SetInduction
<1>7. n \in S /\ n - n = 0
  BY <1>6
<1>8. Halvings(x)[n] = mask
  BY <1>1, <1>7
<1>9. \A k \in 1 .. n : Halvings(x)[k - 1] % 2 = Side(path, k)
  BY <1>4, <1>6
<1> QED
  BY <1>2, <1>8, <1>9 DEF x

\* A step along a branch: the bit says on which side the next hash is.
Joined(branch, k, hash) ==
    IF Halvings(branch.sideMask)[k - 1] % 2 = 0 THEN <<hash, branch.branchs[k]>>
    ELSE <<branch.branchs[k], hash>>

Climbs(up, n, leaf, branch) ==
    up = [i \in 0 .. n |-> IF i = 0 THEN leaf ELSE Joined(branch, i, up[i - 1])]

LEMMA ClimbsExist ==
    ASSUME NEW leaf, NEW branch, NEW n \in Nat
    PROVE  \E up : Climbs(up, n, leaf, branch)
<1> DEFINE S == {m \in Nat : \E up : Climbs(up, m, leaf, branch)}
<1>1. 0 \in S
  <2> DEFINE up == [i \in 0 .. 0 |-> leaf]
  <2>1. Climbs(up, 0, leaf, branch)
    BY DEF Climbs
  <2> QED
    BY <2>1
<1>2. ASSUME NEW m \in Nat, m \in S
      PROVE  m + 1 \in S
  <2>1. PICK up : Climbs(up, m, leaf, branch)
    BY <1>2
  <2> DEFINE g == [i \in 0 .. m + 1 |-> IF i <= m THEN up[i] ELSE Joined(branch, m + 1, up[m])]
  <2>2. ASSUME NEW i \in 0 .. m + 1
        PROVE  g[i] = IF i = 0 THEN leaf ELSE Joined(branch, i, g[i - 1])
    <3>1. i \in 1 .. m => /\ g[i] = up[i] /\ g[i - 1] = up[i - 1]
                          /\ up[i] = Joined(branch, i, up[i - 1])
      BY <2>1 DEF Climbs
    <3>2. g[0] = leaf
      BY <2>1 DEF Climbs
    <3>3. g[m + 1] = Joined(branch, m + 1, up[m]) /\ g[m] = up[m]
      OBVIOUS
    <3> QED
      BY <3>1, <3>2, <3>3
  <2>3. Climbs(g, m + 1, leaf, branch)
    BY <2>2 DEF Climbs
  <2> QED
    BY <2>3
<1> HIDE DEF S
<1>3. n \in S
  BY <1>1, <1>2, SetInduction
<1> QED
  BY <1>3 DEF S

\* The hashes on the way up.
Leads(up, n, leaf, branch) ==
    /\ up[0] = leaf /\ RootOf(leaf, branch) = up[n]
    /\ \A k \in 1 .. n : up[k] = Joined(branch, k, up[k - 1])

LEMMA RootOfSteps ==
    ASSUME NEW leaf, NEW branch, NEW n \in Nat, Len(branch.branchs) = n
    PROVE  \E up : Leads(up, n, leaf, branch)
<1> DEFINE Is(up) == up = [i \in 0 .. n |->
                        IF i = 0 THEN leaf
                        ELSE IF Halvings(branch.sideMask)[i - 1] % 2 = 0
                             THEN <<up[i - 1], branch.branchs[i]>>
                             ELSE <<branch.branchs[i], up[i - 1]>>]
           up == CHOOSE up : Is(up)
<1>1. PICK f : Climbs(f, n, leaf, branch)
  BY ClimbsExist
<1>2. Is(f)
  BY <1>1 DEF Climbs, Joined
<1>3. Is(up)
  BY <1>2
<1>4. RootOf(leaf, branch) = up[n]
  BY DEF RootOf
<1> HIDE DEF up
<1>5. up[0] = leaf /\ \A k \in 1 .. n : up[k] = Joined(branch, k, up[k - 1])
  <2>1. up[0] = leaf
    BY <1>3
  <2>2. ASSUME NEW k \in 1 .. n
        PROVE  up[k] = Joined(branch, k, up[k - 1])
    <3>1. k \in 0 .. n /\ k # 0
      OBVIOUS
    <3> QED
      BY <1>3, <3>1 DEF Joined
  <2> QED
    BY <2>1, <2>2
<1> QED
  BY <1>4, <1>5 DEF Leads

LEMMA ConcatParts ==
    ASSUME NEW T, NEW h \in Seq(T), NEW c \in Seq(T)
    PROVE  /\ Len(h \o c) = Len(h) + Len(c) /\ \A k \in 1 .. Len(h) : (h \o c)[k] = h[k]
           /\ \A k \in 1 .. Len(c) : (h \o c)[Len(h) + k] = c[k]
OBVIOUS

HashesFollow(b, ext, after) ==
    /\ Len(b) = Len(ext) + Len(after)
    /\ \A k \in 1 .. Len(ext) : b[k] = ext[k].hash
    /\ \A k \in 1 .. Len(after) : b[Len(ext) + k] = after[k]

(* The hashes of the path come first. *)
LEMMA ExpandedBranchs ==
    ASSUME NEW E, NEW ext \in Seq(E), NEW H, NEW branch, branch.branchs \in Seq(H)
    PROVE  HashesFollow(ExpandingBlockchainBranch(branch, ext).branchs, ext, branch.branchs)
<1> DEFINE T == H \cup {ext[i].hash : i \in 1 .. Len(ext)}
           h == [i \in 1 .. Len(ext) |-> ext[i].hash]
<1>1. DOMAIN ext = 1 .. Len(ext) /\ Len(ext) \in Nat
  OBVIOUS
<1>2. h \in Seq(T) /\ Len(h) = Len(ext) /\ \A i \in 1 .. Len(ext) : h[i] = ext[i].hash
  <2>1. h \in [1 .. Len(ext) -> T]
    OBVIOUS
  <2> HIDE DEF T, h
  <2>2. h \in Seq(T) /\ Len(h) = Len(ext)
    BY <1>1, <2>1
  <2> QED
    BY <2>2 DEF h
<1>3. branch.branchs \in Seq(T) /\ Len(branch.branchs) \in Nat
  OBVIOUS
<1>4. ExpandingBlockchainBranch(branch, ext).branchs = h \o branch.branchs
  BY <1>1 DEF ExpandingBlockchainBranch
<1> HIDE DEF T, h
<1> DEFINE c == branch.branchs
<1> HIDE DEF c
<1>5. /\ Len(h \o c) = Len(h) + Len(c) /\ \A k \in 1 .. Len(h) : (h \o c)[k] = h[k]
      /\ \A k \in 1 .. Len(c) : (h \o c)[Len(h) + k] = c[k]
  <2>1. h \in Seq(T) /\ c \in Seq(T)
    BY <1>2, <1>3 DEF c
  <2> QED
    BY <2>1, ConcatParts
<1> QED
  BY <1>2, <1>4, <1>5 DEF c, HashesFollow

BitsFollow(x, ext, mask) ==
    /\ \A k \in 1 .. Len(ext) : k <= Width => Halvings(x)[k - 1] % 2 = Side(ext, k)
    /\ \A k \in Nat : Len(ext) + k < Width =>
          Halvings(x)[Len(ext) + k] % 2 = Halvings(mask)[k] % 2

(* The bits of the path come first, as far as the mask has room. *)
LEMMA ExpandedBits ==
    ASSUME NEW E, NEW ext \in Seq(E), NEW branch, branch.sideMask \in Nat
    PROVE  BitsFollow(ExpandingBlockchainBranch(branch, ext).sideMask, ext, branch.sideMask)
<1> DEFINE y == SideMask(branch.sideMask, ext)
           x == ExpandingBlockchainBranch(branch, ext).sideMask
<1>1. Len(ext) \in Nat /\ Width \in Nat
  BY ArithmeticAssumption
<1>2. x = y % Power(2, Width)
  BY DEF ExpandingBlockchainBranch, Modulus
<1>3. /\ y \in Nat /\ Halvings(y)[Len(ext)] = branch.sideMask
      /\ \A k \in 1 .. Len(ext) : Halvings(y)[k - 1] % 2 = Side(ext, k)
  BY <1>1, SideMaskBits
<1> HIDE DEF x, y
<1>4. ASSUME NEW k \in 1 .. Len(ext), k <= Width
      PROVE  Halvings(x)[k - 1] % 2 = Side(ext, k)
  <2>1. k - 1 \in Nat /\ k - 1 < Width
    BY <1>1, <1>4
  <2>2. Halvings(x)[k - 1] % 2 = Halvings(y)[k - 1] % 2
    BY <1>1, <1>2, <1>3, <2>1, BitOfLowBits
  <2> QED
    BY <1>3, <2>2
<1>5. ASSUME NEW k \in Nat, Len(ext) + k < Width
      PROVE  Halvings(x)[Len(ext) + k] % 2 = Halvings(branch.sideMask)[k] % 2
  <2>1. Len(ext) + k \in Nat
    BY <1>1
  <2>2. Halvings(x)[Len(ext) + k] % 2 = Halvings(y)[Len(ext) + k] % 2
    BY <1>1, <1>2, <1>3, <1>5, <2>1, BitOfLowBits
  <2>3. Halvings(y)[Len(ext) + k] = Halvings(Halvings(y)[Len(ext)])[k]
    BY <1>1, <1>3, HalvingsAdd
  <2>4. Halvings(y)[Len(ext)] = branch.sideMask
    BY <1>3
  <2> QED
    BY <2>2, <2>3, <2>4
<1> QED
  BY <1>4, <1>5 DEF x, BitsFollow

(* An expanded branch leads where the branch leads from the end of the path. *)
LEMMA RootOfExpanded ==
    ASSUME NEW leaf, NEW E, NEW ext \in Seq(E), NEW H, NEW branch,
           branch.branchs \in Seq(H), branch.sideMask \in Nat,
           Len(ext) + Len(branch.branchs) <= Width
    PROVE  RootOf(leaf, ExpandingBlockchainBranch(branch, ext))
             = RootOf(RootOf(leaf, PathBranch(ext)), branch)
<1> DEFINE whole == ExpandingBlockchainBranch(branch, ext)
           inner == PathBranch(ext)
           n == Len(ext)
           m == Len(branch.branchs)
<1>1. n \in Nat /\ m \in Nat /\ Width \in Nat /\ n + m <= Width
  BY ArithmeticAssumption
<1>2. /\ Len(whole.branchs) = n + m
      /\ \A k \in 1 .. n : whole.branchs[k] = ext[k].hash
      /\ \A k \in 1 .. m : whole.branchs[n + k] = branch.branchs[k]
  BY ExpandedBranchs DEF HashesFollow
<1>3. EmptyBranch.branchs \in Seq(H) /\ Len(EmptyBranch.branchs) = 0 /\ EmptyBranch.sideMask \in Nat
  BY DEF EmptyBranch
<1>4. Len(inner.branchs) = n /\ \A k \in 1 .. n : inner.branchs[k] = ext[k].hash
  <2>1. HashesFollow(inner.branchs, ext, EmptyBranch.branchs)
    BY <1>3, ExpandedBranchs DEF PathBranch
  <2> HIDE DEF inner
  <2> QED
    BY <1>1, <1>3, <2>1 DEF HashesFollow
<1>5. \A k \in 1 .. n : /\ Halvings(whole.sideMask)[k - 1] % 2 = Side(ext, k)
                        /\ Halvings(inner.sideMask)[k - 1] % 2 = Side(ext, k)
  <2>1. \A k \in 1 .. n : k <= Width
    BY <1>1
  <2>2. \A k \in 1 .. n : Halvings(whole.sideMask)[k - 1] % 2 = Side(ext, k)
    BY <2>1, ExpandedBits DEF BitsFollow
  <2>3. \A k \in 1 .. n : Halvings(inner.sideMask)[k - 1] % 2 = Side(ext, k)
    BY <1>3, <2>1, ExpandedBits DEF BitsFollow, PathBranch
  <2> QED
    BY <2>2, <2>3
<1>6. \A k \in Nat : n + k < Width =>
          Halvings(whole.sideMask)[n + k] % 2 = Halvings(branch.sideMask)[k] % 2
  BY ExpandedBits DEF BitsFollow
<1> HIDE DEF whole, inner
<1>7. PICK up : Leads(up, n + m, leaf, whole)
  BY <1>1, <1>2, RootOfSteps, n + m \in Nat
<1>8. PICK low : Leads(low, n, leaf, inner)
  BY <1>1, <1>4, RootOfSteps
<1>9. PICK high : Leads(high, m, low[n], branch)
  BY <1>1, RootOfSteps
<1>10. up[n] = low[n]
  <2> DEFINE S == {k \in Nat : k <= n => up[k] = low[k]}
  <2>1. 0 \in S
    BY <1>7, <1>8 DEF Leads
  <2>2. ASSUME NEW k \in Nat, k \in S PROVE k + 1 \in S
    <3> SUFFICES ASSUME k + 1 <= n PROVE up[k + 1] = low[k + 1]
      OBVIOUS
    <3>1. k + 1 \in 1 .. n /\ k + 1 \in 1 .. n + m /\ (k + 1) - 1 = k /\ up[k] = low[k]
      BY <1>1, <2>2
    <3>2. up[k + 1] = Joined(whole, k + 1, up[k]) /\ low[k + 1] = Joined(inner, k + 1, low[k])
      BY <1>7, <1>8, <3>1 DEF Leads
    <3>3. Joined(whole, k + 1, up[k]) = Joined(inner, k + 1, up[k])
      BY <1>2, <1>4, <1>5, <3>1 DEF Joined
    <3> QED
      BY <3>1, <3>2, <3>3
  <2> HIDE DEF S
  <2>3. n \in S
    BY <1>1, <2>1, <2>2, SetInduction
  <2> QED
    BY <1>1, <2>3 DEF S
<1>11. up[n + m] = high[m]
  <2> DEFINE S == {k \in Nat : k <= m => up[n + k] = high[k]}
  <2>1. 0 \in S
    BY <1>1, <1>9, <1>10 DEF Leads
  <2>2. ASSUME NEW k \in Nat, k \in S PROVE k + 1 \in S
    <3> SUFFICES ASSUME k + 1 <= m PROVE up[n + (k + 1)] = high[k + 1]
      OBVIOUS
    <3>1. /\ k + 1 \in 1 .. m /\ n + (k + 1) \in 1 .. n + m /\ (k + 1) - 1 = k
          /\ (n + (k + 1)) - 1 = n + k /\ n + k < Width /\ up[n + k] = high[k]
      BY <1>1, <2>2
    <3>2. /\ up[n + (k + 1)] = Joined(whole, n + (k + 1), up[n + k])
          /\ high[k + 1] = Joined(branch, k + 1, high[k])
      BY <1>7, <1>9, <3>1 DEF Leads
    <3>3. Joined(whole, n + (k + 1), up[n + k]) = Joined(branch, k + 1, up[n + k])
      BY <1>2, <1>6, <3>1 DEF Joined
    <3> QED
      BY <3>1, <3>2, <3>3
  <2> HIDE DEF S
  <2>3. m \in S
    BY <1>1, <2>1, <2>2, SetInduction
  <2> QED
    BY <1>1, <2>3 DEF S
<1> QED
  BY <1>7, <1>8, <1>9, <1>11 DEF whole, inner, Leads

-----------------------------------------------------------------------------
(* Merkle trees *)

(* The bits of a number, and what is left after them, determine it. *)
LEMMA BitsDetermine ==
    ASSUME NEW x \in Nat, NEW y \in Nat, NEW n \in Nat, Halvings(x)[n] = Halvings(y)[n],
           \A k \in 1 .. n : Halvings(x)[k - 1] % 2 = Halvings(y)[k - 1] % 2
    PROVE  x = y
<1> DEFINE S == {k \in Nat : k <= n => Halvings(x)[n - k] = Halvings(y)[n - k]}
<1>1. 0 \in S
  BY n - 0 = n
<1>2. ASSUME NEW k \in Nat, k \in S PROVE k + 1 \in S
  <2> SUFFICES ASSUME k + 1 <= n
               PROVE  Halvings(x)[n - (k + 1)] = Halvings(y)[n - (k + 1)]
    OBVIOUS
  <2> DEFINE a == Halvings(x)[n - (k + 1)]
             b == Halvings(y)[n - (k + 1)]
  <2>1. /\ n - (k + 1) \in Nat /\ (n - (k + 1)) + 1 = n - k
        /\ n - k \in 1 .. n /\ (n - k) - 1 = n - (k + 1)
    OBVIOUS
  <2>2. a \in Nat /\ b \in Nat
    BY <2>1, HalvingsFit
  <2>3. Halvings(x)[n - k] = a \div 2 /\ Halvings(y)[n - k] = b \div 2
    BY <2>1, HalvingsFit
  <2>4. a % 2 = b % 2
    BY <2>1
  <2>5. a \div 2 = b \div 2
    BY <1>2, <2>3
  <2> HIDE DEF a, b
  <2>6. a = b
    BY <2>2, <2>4, <2>5
  <2> QED
    BY <2>6 DEF a, b
<1> HIDE DEF S
<1>3. n \in S
  BY <1>1, <1>2, SetInduction
<1>4. Halvings(x)[0] = Halvings(y)[0]
  BY <1>3, n - n = 0 DEF S
<1> QED
  BY <1>4, HalvingsFit

\* The row above one of twice as many hashes.
Above(row, n) == [i \in 0 .. n - 1 |-> <<row[2 * i], row[2 * i + 1]>>]

Grows(rows, n, leaves, h) ==
    rows = [l \in 0 .. n |-> IF l = 0 THEN leaves ELSE Above(rows[l - 1], Power(2, h - l))]

LEMMA GrowsExist ==
    ASSUME NEW leaves, NEW h, NEW n \in Nat
    PROVE  \E rows : Grows(rows, n, leaves, h)
<1> DEFINE S == {m \in Nat : \E rows : Grows(rows, m, leaves, h)}
<1>1. 0 \in S
  <2> DEFINE rows == [l \in 0 .. 0 |-> leaves]
  <2>1. Grows(rows, 0, leaves, h)
    BY DEF Grows
  <2> QED
    BY <2>1
<1>2. ASSUME NEW m \in Nat, m \in S
      PROVE  m + 1 \in S
  <2>1. PICK rows : Grows(rows, m, leaves, h)
    BY <1>2
  <2> DEFINE top == Above(rows[m], Power(2, h - (m + 1)))
             g == [l \in 0 .. m + 1 |-> IF l <= m THEN rows[l] ELSE top]
  <2>2. ASSUME NEW l \in 0 .. m + 1
        PROVE  g[l] = IF l = 0 THEN leaves ELSE Above(g[l - 1], Power(2, h - l))
    <3>1. l \in 1 .. m => /\ g[l] = rows[l] /\ g[l - 1] = rows[l - 1]
                          /\ rows[l] = Above(rows[l - 1], Power(2, h - l))
      BY <2>1 DEF Grows
    <3>2. g[0] = leaves
      BY <2>1 DEF Grows
    <3>3. g[m + 1] = top /\ g[m] = rows[m]
      OBVIOUS
    <3> QED
      BY <3>1, <3>2, <3>3
  <2>3. Grows(g, m + 1, leaves, h)
    BY <2>2 DEF Grows
  <2> QED
    BY <2>3
<1> HIDE DEF S
<1>3. n \in S
  BY <1>1, <1>2, SetInduction
<1> QED
  BY <1>3 DEF S

\* A tree of so many rows above its leaves.
IsTree(rows, leaves, h) ==
    /\ DOMAIN rows = 0 .. h /\ rows[0] = leaves
    /\ \A l \in 1 .. h : \A i \in 0 .. Power(2, h - l) - 1 :
         rows[l][i] = <<rows[l - 1][2 * i], rows[l - 1][2 * i + 1]>>

LEMMA MerkleRowsTree ==
    ASSUME NEW leaves, NEW k \in 0 .. Width
    PROVE  \E h \in 0 .. Width : /\ Power(2, h) = Power(2, k)
                                 /\ IsTree(MerkleRows(leaves, Power(2, k)), leaves, h)
<1> DEFINE size == Power(2, k)
           h == Log2(size)
           Is(rows) == rows = [l \in 0 .. h |->
                         IF l = 0 THEN leaves
                         ELSE [i \in 0 .. Power(2, h - l) - 1 |->
                                 <<rows[l - 1][2 * i], rows[l - 1][2 * i + 1]>>]]
           rows == CHOOSE rows : Is(rows)
<1>1. h \in 0 .. Width /\ Power(2, h) = size
  BY DEF Log2
<1>2. MerkleRows(leaves, size) = rows
  BY DEF MerkleRows
<1> HIDE DEF h, size
<1>3. PICK f : Grows(f, h, leaves, h)
  BY <1>1, GrowsExist
<1>4. Is(f)
  BY <1>3 DEF Grows, Above
<1>5. Is(rows)
  BY <1>4
<1> HIDE DEF rows
<1>6. IsTree(rows, leaves, h)
  <2>1. DOMAIN rows = 0 .. h /\ rows[0] = leaves
    BY <1>1, <1>5
  <2>2. ASSUME NEW l \in 1 .. h, NEW i \in 0 .. Power(2, h - l) - 1
        PROVE  rows[l][i] = <<rows[l - 1][2 * i], rows[l - 1][2 * i + 1]>>
    <3>1. l \in 0 .. h /\ l # 0
      BY <1>1
    <3>2. rows[l] = [j \in 0 .. Power(2, h - l) - 1 |->
                        <<rows[l - 1][2 * j], rows[l - 1][2 * j + 1]>>]
      BY <1>5, <3>1
    <3> QED
      BY <3>2
  <2> QED
    BY <2>1, <2>2 DEF IsTree
<1> QED
  BY <1>1, <1>2, <1>6 DEF size

LEMMA TopRow ==
    ASSUME NEW rows, NEW h \in Nat, DOMAIN rows = 0 .. h
    PROVE  Max(DOMAIN rows) = h
<1>1. \E x \in 0 .. h : \A y \in 0 .. h : x >= y
  <2>1. h \in 0 .. h /\ \A y \in 0 .. h : h >= y
    OBVIOUS
  <2> QED
    BY <2>1
<1>2. /\ Max(DOMAIN rows) \in 0 .. h
      /\ \A y \in 0 .. h : Max(DOMAIN rows) >= y
  BY <1>1 DEF Max
<1> QED
  BY <1>2, h \in 0 .. h

(* The path takes at each row the neighbour of where the leaf has got to. *)
LEMMA PathElements ==
    ASSUME NEW rows, NEW h \in Nat, DOMAIN rows = 0 .. h, NEW slot \in Nat
    PROVE  LET path == MerklePathForLeaf(rows, slot)
           IN /\ path \in Seq(Range(path)) /\ Len(path) = h
              /\ \A l \in 1 .. h :
                   /\ Side(path, l) = Halvings(slot)[l - 1] % 2
                   /\ path[l].hash = rows[l - 1][IF Halvings(slot)[l - 1] % 2 = 1
                                                 THEN Halvings(slot)[l - 1] - 1
                                                 ELSE Halvings(slot)[l - 1] + 1]
<1> DEFINE path == MerklePathForLeaf(rows, slot)
           at(l) == Halvings(slot)[l - 1]
           element(l) == [hash |-> rows[l - 1][IF at(l) % 2 = 1 THEN at(l) - 1 ELSE at(l) + 1],
                          useFirst |-> at(l) % 2 = 1]
<1>1. path = [l \in 1 .. h |-> element(l)]
  BY TopRow DEF MerklePathForLeaf
<1>2. path \in Seq(Range(path)) /\ Len(path) = h
  <2>1. path \in [1 .. h -> Range(path)]
    BY <1>1 DEF Range
  <2> HIDE DEF path
  <2> QED
    BY <2>1
<1>3. ASSUME NEW l \in 1 .. h
      PROVE  /\ Side(path, l) = at(l) % 2
             /\ path[l].hash = rows[l - 1][IF at(l) % 2 = 1 THEN at(l) - 1 ELSE at(l) + 1]
  <2>1. path[l] = element(l)
    BY <1>1
  <2>2. at(l) \in Nat
    BY HalvingsFit
  <2> HIDE DEF path, at
  <2>3. path[l].useFirst = (at(l) % 2 = 1)
    BY <2>1
  <2>4. at(l) % 2 \in {0, 1}
    BY <2>2
  <2>5. path[l].hash = rows[l - 1][IF at(l) % 2 = 1 THEN at(l) - 1 ELSE at(l) + 1]
    BY <2>1
  <2> QED
    BY <2>3, <2>4, <2>5 DEF Side
<1> QED
  BY <1>2, <1>3

LEMMA SlotBits ==
    ASSUME NEW h \in 0 .. Width, NEW slot \in 0 .. Power(2, h) - 1
    PROVE  /\ h \in Nat /\ h <= Width /\ Power(2, h) \in Nat
           /\ slot \in Nat /\ slot < Power(2, h)
<1>1. h \in Nat /\ h <= Width
  BY ArithmeticAssumption
<1>2. Power(2, h) \in Nat
  BY <1>1, PowerStep
<1> QED
  BY <1>1, <1>2

(* Its mask is the number of the leaf. *)
LEMMA PathMask ==
    ASSUME NEW path, NEW h \in 0 .. Width, Len(path) = h,
           NEW slot \in 0 .. Power(2, h) - 1, Power(2, h) <= Modulus,
           \A l \in 1 .. h : Side(path, l) = Halvings(slot)[l - 1] % 2
    PROVE  PathBranch(path).sideMask = slot
<1> DEFINE x == SideMask(0, path)
<1>1. h \in Nat /\ slot \in Nat /\ slot < Power(2, h) /\ Power(2, h) \in Nat
  BY SlotBits
<1>2. /\ x \in Nat /\ Halvings(x)[h] = 0
      /\ \A l \in 1 .. h : Halvings(x)[l - 1] % 2 = Side(path, l)
  BY <1>1, SideMaskBits
<1>3. Halvings(slot)[h] = 0
  BY <1>1, HalvingsEnd
<1>4. PathBranch(path).sideMask = x % Modulus
  BY DEF PathBranch, EmptyBranch, ExpandingBlockchainBranch
<1> HIDE DEF x
<1>5. x = slot
  <2>1. slot \in Nat /\ Halvings(x)[h] = Halvings(slot)[h]
    BY <1>1, <1>2, <1>3
  <2>2. \A l \in 1 .. h : Halvings(x)[l - 1] % 2 = Halvings(slot)[l - 1] % 2
    BY <1>2
  <2> QED
    BY <1>1, <1>2, <2>1, <2>2, BitsDetermine
<1>6. Modulus \in Nat /\ slot < Modulus
  <2>1. Width \in Nat
    BY ArithmeticAssumption
  <2>2. Modulus \in Nat
    BY <2>1, PowerStep DEF Modulus
  <2> QED
    BY <1>1, <2>2
<1> QED
  BY <1>1, <1>4, <1>5, <1>6

(* The path of a leaf leads from it to the root of its tree. *)
LEMMA PathLeads ==
    ASSUME NEW leaves, NEW h \in 0 .. Width, NEW rows, IsTree(rows, leaves, h),
           NEW slot \in 0 .. Power(2, h) - 1
    PROVE  RootOf(leaves[slot], PathBranch(MerklePathForLeaf(rows, slot))) = MerkleRoot(rows)
<1> DEFINE path == MerklePathForLeaf(rows, slot)
           branch == PathBranch(path)
           at(k) == Halvings(slot)[k]
<1>1. h \in Nat /\ h <= Width /\ slot \in Nat /\ slot < Power(2, h) /\ DOMAIN rows = 0 .. h
  BY SlotBits DEF IsTree
<1>2. /\ path \in Seq(Range(path)) /\ Len(path) = h
      /\ \A l \in 1 .. h : /\ Side(path, l) = at(l - 1) % 2
                           /\ path[l].hash = rows[l - 1][IF at(l - 1) % 2 = 1 THEN at(l - 1) - 1
                                                                              ELSE at(l - 1) + 1]
  BY <1>1, PathElements
<1> HIDE DEF path
<1>3. EmptyBranch.branchs \in Seq({}) /\ Len(EmptyBranch.branchs) = 0 /\ EmptyBranch.sideMask \in Nat
  BY DEF EmptyBranch
<1>4. HashesFollow(branch.branchs, path, EmptyBranch.branchs)
      /\ BitsFollow(branch.sideMask, path, EmptyBranch.sideMask)
  <2> DEFINE E == Range(path)
  <2>1. path \in Seq(E)
    BY <1>2
  <2> HIDE DEF E
  <2> QED
    BY <1>3, <2>1, ExpandedBranchs, ExpandedBits DEF PathBranch
<1> HIDE DEF branch
<1>5. /\ Len(branch.branchs) = h
      /\ \A k \in 1 .. h : /\ branch.branchs[k] = path[k].hash
                           /\ Halvings(branch.sideMask)[k - 1] % 2 = Side(path, k)
  BY <1>1, <1>2, <1>3, <1>4, ArithmeticAssumption DEF HashesFollow, BitsFollow
<1>6. PICK up : Leads(up, h, leaves[slot], branch)
  BY <1>1, <1>5, RootOfSteps
<1> DEFINE S == {k \in Nat : k <= h => up[k] = rows[k][at(k)]}
<1>7. 0 \in S
  BY <1>1, <1>6, HalvingsFit DEF Leads, IsTree
<1>8. ASSUME NEW k \in Nat, k \in S PROVE k + 1 \in S
  <2> SUFFICES ASSUME k + 1 <= h PROVE up[k + 1] = rows[k + 1][at(k + 1)]
    OBVIOUS
  <2> DEFINE j == at(k)
             p == Power(2, h - (k + 1))
  <2>1. /\ k + 1 \in 1 .. h /\ (k + 1) - 1 = k /\ k <= h
        /\ h - (k + 1) \in Nat /\ (h - (k + 1)) + 1 = h - k
    BY <1>1
  <2>2. j \in Nat /\ at(k + 1) = j \div 2
    BY <1>1, HalvingsFit
  <2>3. j < Power(2, h - k)
    BY <1>1, <2>1, HalvingsBelow
  <2>4. Power(2, h - k) = 2 * p /\ p \in Nat
    BY <2>1, PowerStep
  <2>5. up[k + 1] = Joined(branch, k + 1, up[k]) /\ up[k] = rows[k][j]
    BY <1>6, <1>8, <2>1 DEF Leads
  <2>6. /\ branch.branchs[k + 1] = rows[k][IF j % 2 = 1 THEN j - 1 ELSE j + 1]
        /\ Halvings(branch.sideMask)[k] % 2 = j % 2
    BY <1>2, <1>5, <2>1
  <2>7. \A i \in 0 .. p - 1 : rows[k + 1][i] = <<rows[k][2 * i], rows[k][2 * i + 1]>>
    BY <2>1 DEF IsTree
  <2> HIDE DEF j, p, at
  <2>8. j \div 2 \in 0 .. p - 1
    BY <2>2, <2>3, <2>4
  <2>9. rows[k + 1][j \div 2] = <<rows[k][2 * (j \div 2)], rows[k][2 * (j \div 2) + 1]>>
    BY <2>7, <2>8
  <2>10. CASE j % 2 = 0
    <3>1. 2 * (j \div 2) = j
      BY <2>2, <2>10
    <3>2. Joined(branch, k + 1, up[k]) = <<rows[k][j], rows[k][j + 1]>>
      BY <2>1, <2>5, <2>6, <2>10 DEF Joined
    <3> QED
      BY <2>2, <2>5, <2>9, <3>1, <3>2
  <2>11. CASE j % 2 = 1
    <3>1. 2 * (j \div 2) = j - 1 /\ (j - 1) + 1 = j
      BY <2>2, <2>11
    <3>2. Joined(branch, k + 1, up[k]) = <<rows[k][j - 1], rows[k][j]>>
      BY <2>1, <2>5, <2>6, <2>11 DEF Joined
    <3> QED
      BY <2>2, <2>5, <2>9, <3>1, <3>2
  <2> QED
    BY <2>2, <2>10, <2>11
<1> HIDE DEF S
<1>9. h \in S
  BY <1>1, <1>7, <1>8, SetInduction
<1>10. up[h] = rows[h][0]
  BY <1>1, <1>9, HalvingsEnd DEF S
<1>11. MerkleRoot(rows) = rows[h][0]
  BY <1>1, TopRow DEF MerkleRoot
<1> QED
  BY <1>6, <1>10, <1>11 DEF Leads, branch, path

-----------------------------------------------------------------------------
(* Slots *)

LEMMA PowerAdd ==
    ASSUME NEW b \in Nat, NEW j \in Nat, NEW k \in Nat
    PROVE  Power(b, j + k) = Power(b, j) * Power(b, k)
<1> DEFINE S == {i \in Nat : Power(b, j + i) = Power(b, j) * Power(b, i)}
<1>1. Power(b, j) \in Nat
  BY PowerStep
<1>2. 0 \in S
  <2>1. Power(b, 0) = 1 /\ j + 0 = j
    BY PowerStep
  <2>2. Power(b, j) * 1 = Power(b, j)
    BY <1>1
  <2> QED
    BY <2>1, <2>2
<1>3. ASSUME NEW i \in Nat, i \in S PROVE i + 1 \in S
  <2>1. Power(b, i) \in Nat /\ Power(b, i + 1) = b * Power(b, i)
    BY PowerStep
  <2>2. j + i \in Nat /\ (j + i) + 1 = j + (i + 1)
    OBVIOUS
  <2>3. Power(b, (j + i) + 1) = b * Power(b, j + i)
    BY <2>2, PowerStep
  <2>4. Power(b, j + i) = Power(b, j) * Power(b, i)
    BY <1>3
  <2>5. \A x, y \in Nat : b * (x * y) = x * (b * y)
    OBVIOUS
  <2> QED
    BY <1>1, <2>1, <2>2, <2>3, <2>4, <2>5
<1> HIDE DEF S
<1>4. k \in S
  BY <1>2, <1>3, SetInduction
<1> QED
  BY <1>4 DEF S

LEMMA ModOfMultiple ==
    ASSUME NEW s \in Nat \ {0}, NEW y \in Int, NEW z \in Int
    PROVE  (y + (s * z)) % s = y % s
<1> DEFINE q == y \div s
           r == y % s
<1>1. q \in Int /\ r \in 0 .. s - 1 /\ y = (s * q) + r
  BY Division
<1> HIDE DEF q, r
<1>2. y + (s * z) = (s * (q + z)) + r /\ q + z \in Int
  BY <1>1
<1>3. ((s * (q + z)) + r) % s = r
  BY <1>1, <1>2, DivisionUnique
<1> QED
  BY <1>2, <1>3 DEF r

(* Two numbers leave the same rest when they are a multiple apart. *)
LEMMA SameRest ==
    ASSUME NEW s \in Nat \ {0}, NEW x \in Int, NEW y \in Int
    PROVE  x % s = y % s <=> \E z \in Int : x - y = s * z
<1>1. ASSUME x % s = y % s PROVE \E z \in Int : x - y = s * z
  <2> DEFINE p == x \div s
             q == y \div s
             r == x % s
  <2>1. p \in Int /\ q \in Int /\ r \in Int /\ x = (s * p) + r /\ y = (s * q) + r
    BY <1>1, Division
  <2> HIDE DEF p, q, r
  <2>2. x - y = s * (p - q) /\ p - q \in Int
    BY <2>1
  <2> QED
    BY <2>2
<1>2. ASSUME NEW z \in Int, x - y = s * z PROVE x % s = y % s
  <2>1. x = y + (s * z) /\ s * z \in Int
    BY <1>2
  <2> QED
    BY <2>1, ModOfMultiple
<1> QED
  BY <1>1, <1>2

LEMMA RestOfRest ==
    ASSUME NEW s \in Nat \ {0}, NEW t \in Nat \ {0}, NEW y \in Int
    PROVE  (y % (s * t)) % s = y % s
<1> DEFINE m == s * t
           q == y \div m
           r == y % m
<1>1. m \in Nat \ {0}
  OBVIOUS
<1>2. q \in Int /\ r \in Int /\ y = (m * q) + r
  <2> HIDE DEF m
  <2> QED
    BY <1>1, Division
<1> HIDE DEF q, r
<1>3. t * q \in Int /\ m * q = s * (t * q)
  BY <1>2
<1>4. y = r + (s * (t * q))
  BY <1>2, <1>3
<1>5. (r + (s * (t * q))) % s = r % s
  BY <1>2, <1>3, ModOfMultiple
<1> QED
  BY <1>4, <1>5 DEF r

LEMMA ScrambleFits ==
    /\ Modulus \in Nat \ {0} /\ Multiplier \in Nat /\ Increment \in Nat
    /\ \A x \in Nat : Scramble(x) \in Nat
<1>1. Width \in Nat
  BY ArithmeticAssumption
<1>2. Modulus \in Nat \ {0}
  BY <1>1, PowerPositive DEF Modulus
<1>3. Multiplier \in Nat /\ Increment \in Nat
  BY <1>2 DEF Multiplier, Increment
<1>4. ASSUME NEW x \in Nat PROVE Scramble(x) \in Nat
  <2>1. (x * Multiplier) + Increment \in Nat
    BY <1>3
  <2> QED
    BY <1>2, <2>1 DEF Scramble
<1> QED
  BY <1>2, <1>3, <1>4

\* The sizes of the trees: powers of two that divide the modulus.
IsSize(s) == \E k \in 0 .. Width - 1 : s = Power(2, k)

LEMMA SizeDivides ==
    ASSUME NEW s, IsSize(s)
    PROVE  s \in Nat \ {0} /\ \E t \in Nat \ {0} : Modulus = s * t
<1>1. PICK k \in 0 .. Width - 1 : s = Power(2, k)
  BY DEF IsSize
<1>2. k \in Nat /\ Width - k \in Nat /\ k + (Width - k) = Width
  BY ArithmeticAssumption
<1>3. Modulus = Power(2, k) * Power(2, Width - k)
  BY <1>2, PowerAdd DEF Modulus
<1>4. Power(2, k) \in Nat \ {0} /\ Power(2, Width - k) \in Nat \ {0}
  BY <1>2, PowerPositive
<1> QED
  BY <1>1, <1>3, <1>4

LEMMA SlotInTree ==
    ASSUME NEW s, IsSize(s), NEW id \in Nat, NEW n \in Nat
    PROVE  getChainSlot(id, s, n) \in 0 .. s - 1
<1>1. s \in Nat \ {0} /\ Modulus \in Nat \ {0}
  BY SizeDivides, ScrambleFits
<1>2. Scramble(n) + id \in Nat
  BY ScrambleFits
<1>3. (Scramble(n) + id) % Modulus \in Nat
  BY <1>1, <1>2
<1>4. Scramble((Scramble(n) + id) % Modulus) \in Nat
  BY <1>3, ScrambleFits
<1> QED
  BY <1>1, <1>4 DEF getChainSlot

(* Neither modulus nor nonce tell two chains apart that the size does not. *)
LEMMA SlotOfSum ==
    ASSUME NEW s, IsSize(s), NEW id \in Nat, NEW n \in Nat
    PROVE  getChainSlot(id, s, n) = (((Scramble(n) + id) * Multiplier) + Increment) % s
<1>1. PICK t \in Nat \ {0} : Modulus = s * t
  BY SizeDivides
<1>2. s \in Nat \ {0} /\ Modulus \in Nat \ {0} /\ Multiplier \in Nat /\ Increment \in Nat
  BY SizeDivides, ScrambleFits
<1> DEFINE x == Scramble(n) + id
           u == x % Modulus
           q == x \div Modulus
<1>3. x \in Nat
  BY ScrambleFits
<1> HIDE DEF x
<1>4. u \in Int /\ q \in Int /\ x = (Modulus * q) + u
  BY <1>2, <1>3, Division
<1> HIDE DEF u, q
<1> DEFINE v == (u * Multiplier) + Increment
<1>5. v \in Int
  BY <1>2, <1>4
<1>6. (v % (s * t)) % s = v % s
  <2> HIDE DEF v
  <2> QED
    BY <1>2, <1>5, RestOfRest
<1>7. getChainSlot(id, s, n) = (v % Modulus) % s
  BY DEF getChainSlot, Scramble, u, x
<1> DEFINE w == (x * Multiplier) + Increment
           z == (t * q) * Multiplier
<1>8. z \in Int /\ w = v + (s * z)
  <2>1. z \in Int /\ (Modulus * q) * Multiplier = s * z
    BY <1>1, <1>2, <1>4
  <2>2. x * Multiplier = ((Modulus * q) * Multiplier) + (u * Multiplier)
    BY <1>2, <1>4
  <2>3. u * Multiplier \in Int /\ s * z \in Int
    BY <1>2, <1>4, <2>1
  <2> HIDE DEF z
  <2> QED
    BY <1>2, <2>1, <2>2, <2>3
<1> HIDE DEF v, z
<1>9. (v + (s * z)) % s = v % s
  BY <1>2, <1>5, <1>8, ModOfMultiple
<1> HIDE DEF w
<1>10. w % s = getChainSlot(id, s, n)
  BY <1>1, <1>6, <1>7, <1>8, <1>9
<1> QED
  BY <1>10 DEF w, x

LEMMA SlotsApart ==
    ASSUME NEW s, IsSize(s), NEW a \in Nat, NEW b \in Nat, NEW n \in Nat
    PROVE  getChainSlot(a, s, n) = getChainSlot(b, s, n)
             <=> \E z \in Int : (a - b) * Multiplier = s * z
<1>1. s \in Nat \ {0} /\ Scramble(n) \in Nat /\ Multiplier \in Nat /\ Increment \in Nat
  BY SizeDivides, ScrambleFits
<1> DEFINE x == ((Scramble(n) + a) * Multiplier) + Increment
           y == ((Scramble(n) + b) * Multiplier) + Increment
<1>2. x \in Int /\ y \in Int
  BY <1>1
<1>3. x - y = (a - b) * Multiplier
  BY <1>1
<1>4. getChainSlot(a, s, n) = x % s /\ getChainSlot(b, s, n) = y % s
  BY SlotOfSum
<1> HIDE DEF x, y
<1>5. x % s = y % s <=> \E z \in Int : x - y = s * z
  BY <1>1, <1>2, SameRest
<1> QED
  BY <1>3, <1>4, <1>5

(* A conflict does not go away with another nonce. *)
LEMMA ConflictForAll ==
    ASSUME NEW ids, \A c \in DOMAIN ids : ids[c] \in Nat, NEW s, IsSize(s),
           NEW n \in Nat, NEW m \in Nat
    PROVE  Conflict(ids, s, n) <=> Conflict(ids, s, m)
<1>1. ASSUME NEW c \in DOMAIN ids, NEW d \in DOMAIN ids
      PROVE  getChainSlot(ids[c], s, n) = getChainSlot(ids[d], s, n)
               <=> getChainSlot(ids[c], s, m) = getChainSlot(ids[d], s, m)
  BY SlotsApart
<1> QED
  BY <1>1 DEF Conflict

\* What the search may return for the IDs.
Assigned(s, ids) ==
    /\ s.merkleSize \in Sizes(Cardinality(DOMAIN ids)) /\ s.merkleNonce \in Nonces
    /\ ~Conflict(ids, s.merkleSize, s.merkleNonce)
    /\ \A t \in Sizes(Cardinality(DOMAIN ids)) :
         t < s.merkleSize => \E n \in Nonces : Conflict(ids, t, n)
    /\ s.slots = [id \in Range(ids) |-> getChainSlot(id, s.merkleSize, s.merkleNonce)]

LEMMA SlotsAssigned ==
    ASSUME NEW ids, NEW s \in assignChainSlots(ids)
    PROVE  Assigned(s, ids)
<1> DEFINE sizes == Sizes(Cardinality(DOMAIN ids))
           tried == {t \in sizes : \A u \in sizes :
                        u < t => \E n \in Nonces : Conflict(ids, u, n)}
           fitting(t) == {n \in Nonces : ~Conflict(ids, t, n)}
           result(t, n) == [merkleSize |-> t, merkleNonce |-> n,
                            slots |-> [id \in Range(ids) |-> getChainSlot(id, t, n)]]
<1>1. assignChainSlots(ids) = UNION {{result(t, n) : n \in fitting(t)} : t \in tried}
  BY DEF assignChainSlots
<1>2. PICK t \in tried : s \in {result(t, n) : n \in fitting(t)}
  BY <1>1
<1>3. PICK n \in fitting(t) : s = result(t, n)
  BY <1>2
<1>4. /\ s.merkleSize = t /\ s.merkleNonce = n
      /\ s.slots = [id \in Range(ids) |-> getChainSlot(id, t, n)]
  BY <1>3
<1> QED
  BY <1>2, <1>3, <1>4 DEF Assigned

LEMMA SizesFit == \A n : \A s \in Sizes(n) : IsSize(s)
BY DEF Sizes, IsSize

LEMMA NoncesFit == Nonces \subseteq Nat
<1>1. Modulus \in Nat
  BY ScrambleFits
<1> QED
  BY <1>1, ArithmeticAssumption

LEMMA AssignedFits ==
    ASSUME NEW s, NEW ids, Assigned(s, ids)
    PROVE  IsSize(s.merkleSize) /\ s.merkleNonce \in Nat
<1>1. s.merkleSize \in Sizes(Cardinality(DOMAIN ids)) /\ s.merkleNonce \in Nonces
  BY DEF Assigned
<1> QED
  BY <1>1, SizesFit, NoncesFit

-----------------------------------------------------------------------------
(* Largest and smallest *)

LEMMA MaxOfTwo ==
    ASSUME NEW a \in Int, NEW b \in Int
    PROVE  Max({a, b}) \in {a, b} /\ Max({a, b}) >= a /\ Max({a, b}) >= b
<1>1. \E x \in {a, b} : \A y \in {a, b} : x >= y
  OBVIOUS
<1> QED
  BY <1>1 DEF Max

LEMMA MinOfTwo ==
    ASSUME NEW a \in Int, NEW b \in Int
    PROVE  Min({a, b}) \in {a, b} /\ Min({a, b}) <= a /\ Min({a, b}) <= b
<1>1. \E x \in {a, b} : \A y \in {a, b} : x =< y
  OBVIOUS
<1> QED
  BY <1>1 DEF Min

(* Among any number of chains one has the largest value. *)
LEMMA LargestOfMany ==
    ASSUME NEW N \in Nat, NEW K, K \subseteq 0 .. N - 1, K # {},
           NEW f, \A c \in K : f[c] \in Nat
    PROVE  \E c \in K : \A d \in K : f[d] <= f[c]
<1> DEFINE Largest(c, n) == c \in K /\ c < n /\ \A d \in K : d < n => f[d] <= f[c]
           S == {n \in Nat : (\E d \in K : d < n) => \E c \in K : Largest(c, n)}
<1>1. 0 \in S
  OBVIOUS
<1>2. ASSUME NEW n \in Nat, n \in S PROVE n + 1 \in S
  <2>1. \A d \in K : d < n + 1 <=> d < n \/ d = n
    OBVIOUS
  <2>2. CASE n \notin K
    BY <1>2, <2>1, <2>2
  <2>3. CASE n \in K /\ ~\E d \in K : d < n
    <3>1. Largest(n, n + 1)
      BY <2>1, <2>3
    <3> QED
      BY <2>3, <3>1
  <2>4. CASE n \in K /\ \E d \in K : d < n
    <3>1. PICK c \in K : Largest(c, n)
      BY <1>2, <2>4
    <3>2. f[c] \in Nat /\ f[n] \in Nat
      BY <2>4
    <3>3. CASE f[n] <= f[c]
      <4>1. Largest(c, n + 1)
        BY <2>1, <3>1, <3>3
      <4> QED
        BY <4>1
    <3>4. CASE ~(f[n] <= f[c])
      <4>1. Largest(n, n + 1)
        BY <2>1, <2>4, <3>1, <3>2, <3>4
      <4> QED
        BY <2>4, <4>1
    <3> QED
      BY <3>3, <3>4
  <2> QED
    BY <2>2, <2>3, <2>4
<1> HIDE DEF S
<1>3. N \in S
  BY <1>1, <1>2, SetInduction
<1>4. \A d \in K : d < N
  OBVIOUS
<1> QED
  BY <1>3, <1>4 DEF S

-----------------------------------------------------------------------------
(* Compact difficulty *)

LEMMA BasePowers ==
    /\ Base \in Nat /\ Base >= 2
    /\ Power(Base, 0) = 1 /\ Power(Base, 1) = Base
    /\ Power(Base, 2) = Base * Base /\ Power(Base, 3) = Base * (Base * Base)
    /\ \A k \in Nat : Power(Base, k) \in Nat \ {0}
<1>1. Base \in Nat /\ Base >= 2
  BY ArithmeticAssumption
<1>2. Power(Base, 0) = 1 /\ \A k \in Nat : Power(Base, k + 1) = Base * Power(Base, k)
  BY <1>1, PowerStep
<1>3. /\ Power(Base, 0 + 1) = Base * Power(Base, 0)
      /\ Power(Base, 1 + 1) = Base * Power(Base, 1)
      /\ Power(Base, 2 + 1) = Base * Power(Base, 2)
  BY <1>2
<1>4. Power(Base, 1) = Base * 1 /\ Power(Base, 2) = Base * Power(Base, 1)
      /\ Power(Base, 3) = Base * Power(Base, 2)
  BY <1>2, <1>3
<1>5. \A k \in Nat : Power(Base, k) \in Nat \ {0}
  BY <1>1, PowerPositive
<1> QED
  BY <1>1, <1>2, <1>4, <1>5

(* The bit of the sign leaves room for a number of two digits. *)
LEMMA SignBitFits == SignBit \in Nat /\ SignBit >= Base * Base /\ SignBit > 0
<1>1. Base \in Nat /\ Base >= 2 /\ Power(Base, 3) = Base * (Base * Base)
  BY BasePowers
<1> DEFINE sq == Base * Base
<1>2. sq \in Nat /\ sq > 0
  BY <1>1
<1> HIDE DEF sq
<1>3. Base * sq >= 2 * sq /\ Base * sq \in Nat
  BY <1>1, <1>2
<1>4. SignBit = (Base * sq) \div 2
  BY <1>1 DEF SignBit, sq
<1>5. SignBit \in Nat /\ SignBit >= sq
  BY <1>2, <1>3, <1>4
<1> QED
  BY <1>2, <1>5 DEF sq

(* A number has as many digits as it needs. *)
LEMMA NumBytesFits ==
    ASSUME NEW n \in Nat \ {0}, n < Power(Base, Bytes)
    PROVE  /\ NumBytes(n) \in Nat \ {0}
           /\ n < Power(Base, NumBytes(n)) /\ n >= Power(Base, NumBytes(n) - 1)
<1> DEFINE Digits(e) == n < Power(Base, e) /\ (e = 0 \/ n >= Power(Base, e - 1))
           S == {k \in Nat : k <= Bytes => Power(Base, k) <= n}
<1>1. Bytes \in Nat /\ Power(Base, 0) = 1 /\ \A k \in Nat : Power(Base, k) \in Nat
  BY BasePowers, ArithmeticAssumption
<1>2. \E e \in 0 .. Bytes : Digits(e)
  <2> SUFFICES ASSUME \A e \in 0 .. Bytes : ~Digits(e) PROVE FALSE
    OBVIOUS
  <2>1. 0 \in S
    BY <1>1
  <2>2. ASSUME NEW k \in Nat, k \in S PROVE k + 1 \in S
    <3> SUFFICES ASSUME k + 1 <= Bytes PROVE Power(Base, k + 1) <= n
      OBVIOUS
    <3>1. Power(Base, k) <= n /\ k + 1 \in 0 .. Bytes /\ (k + 1) - 1 = k /\ k + 1 \in Nat
      BY <1>1, <2>2
    <3>2. ~Digits(k + 1)
      BY <3>1
    <3> QED
      BY <1>1, <3>1, <3>2
  <2> HIDE DEF S
  <2>3. Nat \subseteq S
    BY <2>1, <2>2, SetInduction
  <2>4. Power(Base, Bytes) <= n
    BY <1>1, <2>3 DEF S
  <2> QED
    BY <1>1, <2>4
<1>3. NumBytes(n) = CHOOSE e \in 0 .. Bytes : Digits(e)
  BY DEF NumBytes
<1>4. NumBytes(n) \in 0 .. Bytes /\ Digits(NumBytes(n))
  BY <1>2, <1>3
<1>5. NumBytes(n) # 0
  BY <1>1, <1>4
<1> QED
  BY <1>1, <1>4, <1>5

(* Numbers with the digits that a division by p keeps. *)
LEMMA DivisionKeeps ==
    ASSUME NEW p \in Nat \ {0}, NEW n \in Nat
    PROVE  /\ n \div p \in Nat
           /\ (n \div p) * p <= n /\ n < ((n \div p) + 1) * p
<1> DEFINE q == n \div p
           r == n % p
<1>1. q \in Int /\ r \in 0 .. p - 1 /\ n = (p * q) + r
  BY Division
<1> HIDE DEF q, r
<1>2. q \in Nat
  <2>1. \A a \in Int, b \in Nat \ {0} : a < 0 => b * a <= -b
    OBVIOUS
  <2>2. ~(q < 0)
    BY <1>1, <2>1
  <2> QED
    BY <1>1, <2>2
<1>3. p * q \in Nat /\ q * p = p * q /\ (q + 1) * p = (p * q) + p
  BY <1>2
<1>4. q * p <= n /\ n < (q + 1) * p
  BY <1>1, <1>3
<1> QED
  BY <1>2, <1>4 DEF q

(* Two divisions are one. *)
LEMMA DivisionTwice ==
    ASSUME NEW p \in Nat \ {0}, NEW b \in Nat \ {0}, NEW n \in Nat
    PROVE  (n \div p) \div b = n \div (b * p)
<1> DEFINE q == n \div p
           r == n % p
           t == q \div b
           u == q % b
<1>1. q \in Int /\ r \in 0 .. p - 1 /\ n = (p * q) + r
  BY Division
<1> HIDE DEF q, r
<1>2. t \in Int /\ u \in 0 .. b - 1 /\ q = (b * t) + u
  BY <1>1, Division
<1> HIDE DEF t, u
<1> DEFINE bp == b * p
           v == (p * u) + r
<1>3. bp \in Nat \ {0}
  OBVIOUS
<1>4. v \in 0 .. bp - 1
  <2>1. p * u <= p * (b - 1) /\ p * u \in Nat
    BY <1>2
  <2>2. p * (b - 1) = bp - p
    OBVIOUS
  <2> HIDE DEF bp
  <2> QED
    BY <1>1, <1>3, <2>1, <2>2
<1>5. n = (bp * t) + v
  <2>1. p * q = (p * (b * t)) + (p * u)
    BY <1>2
  <2>2. p * (b * t) = bp * t /\ bp * t \in Int /\ p * u \in Int
    BY <1>2
  <2> HIDE DEF bp
  <2> QED
    BY <1>1, <2>1, <2>2
<1> HIDE DEF bp, v
<1>6. n \div bp = t
  BY <1>2, <1>3, <1>4, <1>5, DivisionUnique
<1> QED
  BY <1>6 DEF bp, t, q

(* A product that is below another: the quotient is below. *)
LEMMA QuotientBelow ==
    ASSUME NEW p \in Nat \ {0}, NEW n \in Nat, NEW m \in Nat, n < m * p
    PROVE  n \div p < m
<1> DEFINE q == n \div p
<1>1. q \in Nat /\ q * p <= n
  BY DivisionKeeps
<1> HIDE DEF q
<1>2. q >= m => q * p >= m * p
  BY <1>1
<1>3. q * p \in Nat /\ m * p \in Nat
  BY <1>1
<1>4. q < m
  BY <1>1, <1>2, <1>3
<1> QED
  BY <1>4 DEF q

\* Bits that can be written down.
GoodBits(bits) == bits \in [exponent : Nat, mantissa : 0 .. SignBit - 1]

(* What the bits of a record, and the next ones, stand for. *)
LEMMA BitsSmall ==
    ASSUME NEW e \in 0 .. 3, NEW m \in Nat
    PROVE  CompactToBig([exponent |-> e, mantissa |-> m]) = m \div Power(Base, 3 - e)
BY DEF CompactToBig

LEMMA BitsLarge ==
    ASSUME NEW e \in Nat, e >= 3, NEW m \in Nat
    PROVE  CompactToBig([exponent |-> e, mantissa |-> m]) = m * Power(Base, e - 3)
<1>1. CASE e = 3
  <2>1. CompactToBig([exponent |-> e, mantissa |-> m]) = m \div Power(Base, 0)
    BY <1>1, 3 - 3 = 0 DEF CompactToBig
  <2>2. Power(Base, 0) = 1 /\ e - 3 = 0
    BY <1>1, BasePowers
  <2>3. m \div 1 = m * 1
    OBVIOUS
  <2> QED
    BY <2>1, <2>2, <2>3
<1>2. CASE e > 3
  BY <1>2 DEF CompactToBig
<1> QED
  BY <1>1, <1>2

(* The leading digits of a target of up to three digits are all of them. *)
LEMMA MatchSmall ==
    ASSUME NEW e \in 0 .. 3, NEW m \in Nat, m < SignBit, NEW n \in Nat,
           m = n * Power(Base, 3 - e)
    PROVE  BitsMatch([exponent |-> e, mantissa |-> m], n)
<1> DEFINE p == Power(Base, 3 - e)
           bits == [exponent |-> e, mantissa |-> m]
<1>1. p \in Nat \ {0}
  BY BasePowers
<1>2. CompactToBig(bits) = n
  <2>1. CompactToBig(bits) = m \div p /\ m = (p * n) + 0
    BY <1>1, BitsSmall
  <2> HIDE DEF p
  <2>2. ((p * n) + 0) \div p = n
    BY <1>1, DivisionUnique
  <2> QED
    BY <2>1, <2>2
<1>3. CASE e < 3
  BY <1>2, <1>3 DEF BitsMatch
<1>4. CASE e = 3
  <2>1. [bits EXCEPT !.mantissa = @ + 1] = [exponent |-> e, mantissa |-> m + 1]
    OBVIOUS
  <2>2. CompactToBig([exponent |-> e, mantissa |-> m + 1]) = (m + 1) * Power(Base, 0)
    BY <1>4, BitsLarge, 3 - 3 = 0
  <2>3. m = n /\ Power(Base, 0) = 1
    BY <1>4, BasePowers, 3 - 3 = 0
  <2>4. n < (m + 1) * 1
    BY <2>3
  <2>5. n < CompactToBig([bits EXCEPT !.mantissa = @ + 1])
    BY <2>1, <2>2, <2>3, <2>4
  <2> QED
    BY <1>2, <2>5 DEF BitsMatch
<1> QED
  BY <1>3, <1>4

(* Of a longer one they are a quotient. *)
LEMMA MatchLarge ==
    ASSUME NEW e \in Nat, e >= 3, NEW n \in Nat, NEW m, m = n \div Power(Base, e - 3),
           m < SignBit
    PROVE  BitsMatch([exponent |-> e, mantissa |-> m], n)
<1> DEFINE p == Power(Base, e - 3)
           bits == [exponent |-> e, mantissa |-> m]
<1>1. p \in Nat \ {0}
  BY BasePowers
<1>2. m \in Nat /\ m * p <= n /\ n < (m + 1) * p
  <2> HIDE DEF p
  <2>1. m = n \div p
    BY DEF p
  <2> QED
    BY <1>1, <2>1, DivisionKeeps
<1>3. [bits EXCEPT !.mantissa = @ + 1] = [exponent |-> e, mantissa |-> m + 1]
  OBVIOUS
<1>4. /\ CompactToBig(bits) = m * p
      /\ CompactToBig([bits EXCEPT !.mantissa = @ + 1]) = (m + 1) * p
  BY <1>2, <1>3, BitsLarge
<1> QED
  BY <1>2, <1>4 DEF BitsMatch

(* The first three digits of a number are less than Base^3. *)
LEMMA LeadingFits ==
    ASSUME NEW n \in Nat, NEW e \in Nat, n < Power(Base, e)
    PROVE  Leading(n, e) \in Nat /\ Leading(n, e) < Power(Base, 3)
<1>1. CASE e <= 3
  <2> DEFINE p == Power(Base, 3 - e)
             r == Power(Base, e)
  <2>1. p \in Nat \ {0} /\ r \in Nat /\ n < r
    BY <1>1, BasePowers
  <2>2. Power(Base, 3) = r * p
    <3>1. Power(Base, e + (3 - e)) = r * p
      BY <1>1, PowerAdd, BasePowers
    <3>2. e + (3 - e) = 3
      BY <1>1
    <3> QED
      BY <3>1, <3>2
  <2>3. Leading(n, e) = n * p
    BY <1>1 DEF Leading
  <2> HIDE DEF p, r
  <2>4. n * p \in Nat /\ n * p < r * p
    BY <2>1
  <2> QED
    BY <2>2, <2>3, <2>4
<1>2. CASE e > 3
  <2> DEFINE p == Power(Base, e - 3)
             r == Power(Base, 3)
  <2>1. p \in Nat \ {0} /\ r \in Nat
    BY <1>2, BasePowers
  <2>2. Power(Base, e) = r * p
    <3>1. Power(Base, 3 + (e - 3)) = r * p
      BY <1>2, PowerAdd, BasePowers
    <3>2. 3 + (e - 3) = e
      BY <1>2
    <3> QED
      BY <3>1, <3>2
  <2>3. Leading(n, e) = n \div p
    BY <1>2 DEF Leading
  <2> HIDE DEF p
  <2>4. n < r * p
    BY <2>2
  <2> HIDE DEF r
  <2>5. n \div p \in Nat /\ n \div p < r
    BY <2>1, <2>4, DivisionKeeps, QuotientBelow
  <2> QED
    BY <2>3, <2>5 DEF r
<1> QED
  BY <1>1, <1>2

(* The bits of a target match it, whether or not it has the bit of the sign. *)
LEMMA BigToCompactMatches ==
    ASSUME NEW n \in Nat, n < Power(Base, Bytes)
    PROVE  BitsMatch(BigToCompact(n), n)
<1> DEFINE e == NumBytes(n)
           m == Leading(n, e)
<1>1. CASE n = 0
  <2>1. BigToCompact(n) = [exponent |-> 0, mantissa |-> 0]
    BY <1>1 DEF BigToCompact
  <2>2. 0 = n * Power(Base, 3 - 0)
    BY <1>1, BasePowers
  <2> QED
    BY <2>1, <2>2, MatchSmall, SignBitFits
<1>2. CASE n # 0 /\ m < SignBit
  <2>1. e \in Nat \ {0} /\ n < Power(Base, e) /\ n \in Nat
    BY <1>2, NumBytesFits
  <2>2. m \in Nat /\ ~(m >= SignBit)
    <3> HIDE DEF e
    <3>1. m \in Nat
      BY <2>1, LeadingFits
    <3> HIDE DEF m
    <3> QED
      BY <1>2, <3>1, SignBitFits
  <2>3. BigToCompact(n) = [exponent |-> e, mantissa |-> m]
    BY <1>2, <2>2 DEF BigToCompact
  <2>4. \/ e <= 3 /\ m = n * Power(Base, 3 - e)
        \/ e > 3 /\ m = n \div Power(Base, e - 3)
    BY <2>1 DEF Leading
  <2> HIDE DEF m, e
  <2> QED
    BY <1>2, <2>1, <2>2, <2>3, <2>4, MatchSmall, MatchLarge
<1>3. CASE n # 0 /\ ~(m < SignBit)
  <2>1. e \in Nat \ {0} /\ n < Power(Base, e) /\ n \in Nat
    BY <1>3, NumBytesFits
  <2>2. m \in Nat /\ m < Power(Base, 3)
    <3> HIDE DEF e
    <3> QED
      BY <2>1, LeadingFits
  <2>3. BigToCompact(n) = [exponent |-> e + 1, mantissa |-> m \div Base]
    <3> HIDE DEF m
    <3>1. m >= SignBit
      BY <1>3, <2>2, SignBitFits
    <3> QED
      BY <1>3, <3>1 DEF BigToCompact, m
  <2>4. \/ e <= 3 /\ m = n * Power(Base, 3 - e)
        \/ e > 3 /\ m = n \div Power(Base, e - 3)
    BY <2>1 DEF Leading
  <2> HIDE DEF m, e
  <2>5. m \div Base \in Nat /\ m \div Base < SignBit
    <3>1. m < (Base * Base) * Base
      BY <2>2, BasePowers
    <3>2. Base \in Nat \ {0} /\ Base * Base \in Nat
      BY BasePowers
    <3>3. m \div Base \in Nat /\ m \div Base < Base * Base
      BY <2>2, <3>1, <3>2, DivisionKeeps, QuotientBelow
    <3> QED
      BY <3>2, <3>3, SignBitFits
  <2>6. CASE e < 3
    <3> DEFINE p == Power(Base, 2 - e)
    <3>1. p \in Nat /\ Power(Base, 3 - e) = Base * p
      <4>1. 2 - e \in Nat /\ (2 - e) + 1 = 3 - e
        BY <2>1, <2>6
      <4> QED
        BY <4>1, PowerStep, BasePowers
    <3> HIDE DEF p
    <3>2. m = (Base * (n * p)) + 0 /\ n * p \in Nat
      BY <2>1, <2>4, <2>6, <3>1, BasePowers
    <3>3. m \div Base = n * p
      BY <3>2, BasePowers, DivisionUnique
    <3>4. e + 1 \in 0 .. 3 /\ 3 - (e + 1) = 2 - e
      BY <2>1, <2>6
    <3>5. m \div Base = n * Power(Base, 3 - (e + 1))
      BY <3>3, <3>4 DEF p
    <3> QED
      BY <2>1, <2>3, <2>5, <3>4, <3>5, MatchSmall
  <2>7. CASE e >= 3
    <3> DEFINE p == Power(Base, e - 3)
    <3>1. m = n \div p
      <4>1. CASE e > 3
        BY <2>1, <2>4, <4>1
      <4>2. CASE e = 3
        <5>1. m = n * Power(Base, 0) /\ p = Power(Base, 0) /\ Power(Base, 0) = 1
          BY <2>4, <4>2, BasePowers, 3 - 3 = 0
        <5>2. n * 1 = n \div 1
          BY <2>1
        <5> QED
          BY <5>1, <5>2
      <4> QED
        BY <2>7, <2>1, <4>1, <4>2
    <3>2. p \in Nat \ {0} /\ Power(Base, (e + 1) - 3) = Base * p
      <4>1. e - 3 \in Nat /\ (e - 3) + 1 = (e + 1) - 3
        BY <2>1, <2>7
      <4> QED
        BY <4>1, PowerStep, BasePowers
    <3> HIDE DEF p
    <3>3. m \div Base = n \div (Base * p)
      BY <2>1, <3>1, <3>2, BasePowers, DivisionTwice
    <3>4. m \div Base = n \div Power(Base, (e + 1) - 3) /\ e + 1 \in Nat /\ e + 1 >= 3
      BY <2>1, <2>7, <3>2, <3>3
    <3> QED
      BY <2>1, <2>3, <2>5, <3>4, MatchLarge
  <2> QED
    BY <2>1, <2>6, <2>7
<1> QED
  BY <1>1, <1>2, <1>3

(* Bits match what they stand for. *)
LEMMA BitsMatchThemselves ==
    ASSUME NEW bits, GoodBits(bits)
    PROVE  CompactToBig(bits) \in Nat /\ BitsMatch(bits, CompactToBig(bits))
<1>1. PICK e \in Nat, m \in Nat : bits = [exponent |-> e, mantissa |-> m] /\ m < SignBit
  BY SignBitFits DEF GoodBits
<1>2. CASE e >= 3
  <2> DEFINE p == Power(Base, e - 3)
  <2>1. p \in Nat \ {0}
    BY <1>2, BasePowers
  <2>2. /\ CompactToBig(bits) = m * p
        /\ CompactToBig([bits EXCEPT !.mantissa = @ + 1]) = (m + 1) * p
    <3>1. [bits EXCEPT !.mantissa = @ + 1] = [exponent |-> e, mantissa |-> m + 1]
      BY <1>1
    <3> QED
      BY <1>1, <1>2, <3>1, BitsLarge
  <2> HIDE DEF p
  <2>3. m * p \in Nat /\ (m + 1) * p = (m * p) + p
    BY <2>1
  <2>4. m * p <= m * p /\ m * p < (m + 1) * p
    BY <2>1, <2>3
  <2> QED
    BY <1>1, <2>2, <2>3, <2>4 DEF BitsMatch
<1>3. CASE e < 3
  <2>1. CompactToBig(bits) = m \div Power(Base, 3 - e)
    BY <1>1, <1>3, BitsSmall
  <2>2. CompactToBig(bits) \in Nat
    BY <1>3, <2>1, BasePowers, DivisionKeeps
  <2> QED
    BY <1>1, <1>3, <2>2 DEF BitsMatch
<1> QED
  BY <1>2, <1>3

-----------------------------------------------------------------------------
(* Jobs *)

\* What WorkVerifies says of a job, and that its branches are sequences.
JobVerifies(job) ==
    /\ LeadsToRoot(job)
    /\ \A c \in DOMAIN job.auxPows :
         PathBranch(job.auxPows[c].branch).sideMask
            = getChainSlot(job.auxPows[c].block.chainID, job.merkleSize, job.merkleNonce)

LEMMA MakeJobVerifies ==
    ASSUME NEW blocks, NEW ids, ids = [c \in DOMAIN blocks |-> blocks[c].chainID],
           \A c \in DOMAIN blocks : ids[c] \in Nat, NEW s, Assigned(s, ids), NEW max
    PROVE  JobVerifies(MakeJob(blocks, s, max))
<1> DEFINE known == DOMAIN blocks
           size == s.merkleSize
           nonce == s.merkleNonce
           slotOf(c) == IF blocks[c].chainID \in DOMAIN s.slots
                        THEN s.slots[blocks[c].chainID] ELSE 0
           leaves == [i \in 0 .. size - 1 |->
                        IF \E c \in known : slotOf(c) = i
                        THEN blocks[CHOOSE c \in known : slotOf(c) = i].hash ELSE Zero]
           rows == MerkleRows(leaves, size)
           job == MakeJob(blocks, s, max)
<1>1. /\ job.merkleRoot = MerkleRoot(rows)
      /\ job.merkleSize = size /\ job.merkleNonce = nonce
      /\ job.auxPows = [c \in known |->
                          [block |-> blocks[c], branch |-> MerklePathForLeaf(rows, slotOf(c))]]
  BY DEF MakeJob
<1>2. /\ IsSize(size) /\ nonce \in Nat
      /\ ~Conflict(ids, size, nonce)
      /\ s.slots = [id \in Range(ids) |-> getChainSlot(id, size, nonce)]
  BY AssignedFits DEF Assigned
<1>3. ASSUME NEW c \in known
      PROVE  /\ blocks[c].chainID = ids[c] /\ ids[c] \in Nat
             /\ slotOf(c) = getChainSlot(ids[c], size, nonce)
  BY <1>2 DEF Range
<1>4. ASSUME NEW c \in known, NEW d \in known, slotOf(c) = slotOf(d)
      PROVE  c = d
  BY <1>2, <1>3, <1>4 DEF Conflict
<1> HIDE DEF slotOf, job
<1>5. PICK k \in 0 .. Width - 1 : size = Power(2, k)
  BY <1>2 DEF IsSize
<1>6. k \in 0 .. Width
  BY ArithmeticAssumption
<1>7. PICK h \in 0 .. Width : Power(2, h) = size /\ IsTree(rows, leaves, h)
  <2> HIDE DEF leaves, size
  <2>1. \E h \in 0 .. Width : /\ Power(2, h) = Power(2, k)
                              /\ IsTree(MerkleRows(leaves, Power(2, k)), leaves, h)
    BY <1>6, MerkleRowsTree
  <2> QED
    BY <1>5, <2>1
<1> HIDE DEF rows
<1>8. ASSUME NEW c \in known
      PROVE  /\ slotOf(c) \in 0 .. Power(2, h) - 1
             /\ leaves[slotOf(c)] = blocks[c].hash
  <2>1. slotOf(c) \in 0 .. size - 1
    <3>1. /\ ids[c] \in Nat /\ IsSize(size) /\ nonce \in Nat
          /\ slotOf(c) = getChainSlot(ids[c], size, nonce)
      BY <1>2, <1>3
    <3> HIDE DEF size, nonce
    <3> QED
      BY <3>1, SlotInTree
  <2>2. (CHOOSE d \in known : slotOf(d) = slotOf(c)) = c
    BY <1>4
  <2> QED
    BY <1>7, <2>1, <2>2
<1> HIDE DEF leaves
<1>9. size <= Modulus
  BY <1>2, SizeDivides
<1>10. ASSUME NEW c \in known
       PROVE  /\ RootOf(blocks[c].hash, PathBranch(MerklePathForLeaf(rows, slotOf(c))))
                   = MerkleRoot(rows)
              /\ PathBranch(MerklePathForLeaf(rows, slotOf(c))).sideMask
                   = getChainSlot(blocks[c].chainID, size, nonce)
              /\ MerklePathForLeaf(rows, slotOf(c))
                   \in Seq(Range(MerklePathForLeaf(rows, slotOf(c))))
  <2> DEFINE slot == slotOf(c)
             path == MerklePathForLeaf(rows, slot)
  <2>1. slot \in 0 .. Power(2, h) - 1 /\ leaves[slot] = blocks[c].hash
    BY <1>8
  <2> HIDE DEF slot
  <2>2. RootOf(leaves[slot], PathBranch(path)) = MerkleRoot(rows)
    BY <1>7, <2>1, PathLeads
  <2>3. h \in Nat /\ slot \in Nat /\ DOMAIN rows = 0 .. h
    BY <1>7, <2>1, SlotBits DEF IsTree
  <2>4. /\ Len(path) = h /\ path \in Seq(Range(path))
        /\ \A l \in 1 .. h : Side(path, l) = Halvings(slot)[l - 1] % 2
    BY <2>3, PathElements
  <2> HIDE DEF path
  <2>5. PathBranch(path).sideMask = slot
    BY <1>7, <1>9, <2>1, <2>4, PathMask
  <2> QED
    BY <1>3, <2>1, <2>2, <2>4, <2>5 DEF path, slot
<1> QED
  BY <1>1, <1>10 DEF JobVerifies, LeadsToRoot, job

\* What SmallestTree says of a job.
JobIsSmallest(job) ==
    LET ids == [c \in DOMAIN job.auxPows |-> job.auxPows[c].block.chainID]
    IN \A s \in Sizes(Cardinality(DOMAIN ids)), n \in 0 .. Modulus - 1 :
         s <= job.merkleSize => (Conflict(ids, s, n) <=> s < job.merkleSize)

LEMMA MakeJobSmallest ==
    ASSUME NEW blocks, NEW ids, ids = [c \in DOMAIN blocks |-> blocks[c].chainID],
           \A c \in DOMAIN blocks : ids[c] \in Nat, NEW s, Assigned(s, ids), NEW max
    PROVE  JobIsSmallest(MakeJob(blocks, s, max))
<1> DEFINE job == MakeJob(blocks, s, max)
           sizes == Sizes(Cardinality(DOMAIN ids))
<1>1. /\ job.merkleSize = s.merkleSize /\ DOMAIN job.auxPows = DOMAIN blocks
      /\ \A c \in DOMAIN blocks : job.auxPows[c].block = blocks[c]
  BY DEF MakeJob
<1> HIDE DEF job
<1>2. ids = [c \in DOMAIN job.auxPows |-> job.auxPows[c].block.chainID]
  BY <1>1
<1>3. ASSUME NEW t \in sizes, NEW n \in 0 .. Modulus - 1, t <= s.merkleSize
      PROVE  Conflict(ids, t, n) <=> t < s.merkleSize
  <2>1. /\ IsSize(t) /\ IsSize(s.merkleSize) /\ n \in Nat /\ s.merkleNonce \in Nat
        /\ Nonces \subseteq Nat
    <3>1. \A u \in sizes : IsSize(u)
      BY SizesFit
    <3>2. Modulus \in Nat
      BY ScrambleFits
    <3> QED
      BY <3>1, <3>2, AssignedFits, NoncesFit
  <2>2. t \in Nat /\ s.merkleSize \in Nat
    BY <2>1, SizeDivides
  <2>3. \A c \in DOMAIN ids : ids[c] \in Nat
    OBVIOUS
  <2>4. CASE t = s.merkleSize
    <3>1. ~Conflict(ids, t, s.merkleNonce)
      BY <2>4 DEF Assigned
    <3> QED
      BY <2>1, <2>2, <2>3, <2>4, <3>1, ConflictForAll
  <2>5. CASE t < s.merkleSize
    <3>1. PICK m \in Nonces : Conflict(ids, t, m)
      BY <2>5 DEF Assigned
    <3>2. m \in Nat
      BY <2>1
    <3> QED
      BY <2>1, <2>3, <2>5, <3>1, <3>2, ConflictForAll
  <2> QED
    BY <1>3, <2>2, <2>4, <2>5
<1> QED
  BY <1>1, <1>2, <1>3 DEF JobIsSmallest, job

\* What BitsMatchTarget says of a job.
JobBitsMatch(job) == BitsMatch(job.minBits, job.maxTarget)

LEMMA MakeJobBits ==
    ASSUME NEW N \in Nat, NEW blocks, DOMAIN blocks \subseteq 0 .. N - 1, DOMAIN blocks # {},
           \A c \in DOMAIN blocks : /\ blocks[c].target \in Nat
                                    /\ BitsMatch(blocks[c].bits, blocks[c].target),
           NEW s, NEW max \in Nat, max < Power(Base, Bytes)
    PROVE  JobBitsMatch(MakeJob(blocks, s, max))
<1> DEFINE job == MakeJob(blocks, s, max)
           known == DOMAIN blocks
           target == Max({blocks[c].target : c \in known})
           largest == CHOOSE c \in known : blocks[c].target = target
<1>1. /\ job.maxTarget = Min({target, max})
      /\ job.minBits = IF target > max THEN BigToCompact(max) ELSE blocks[largest].bits
  BY DEF MakeJob
<1> HIDE DEF job
<1>2. \E c \in known : blocks[c].target = target
  <2> DEFINE f == [c \in known |-> blocks[c].target]
  <2>1. \A c \in known : f[c] = blocks[c].target /\ f[c] \in Nat
    OBVIOUS
  <2> HIDE DEF f
  <2>2. \E c \in known : \A d \in known : f[d] <= f[c]
    BY <2>1, LargestOfMany
  <2>3. PICK c \in known : \A d \in known : blocks[d].target <= blocks[c].target
    BY <2>1, <2>2
  <2>4. \E t \in {blocks[d].target : d \in known} :
            \A u \in {blocks[d].target : d \in known} : t >= u
    BY <2>3
  <2>5. target \in {blocks[d].target : d \in known}
    BY <2>4 DEF Max
  <2> QED
    BY <2>5
<1>3. largest \in known /\ blocks[largest].target = target
  BY <1>2
<1> HIDE DEF target, largest
<1>4. target \in Nat /\ BitsMatch(blocks[largest].bits, target)
  BY <1>3
<1>5. Min({target, max}) \in {target, max} /\ Min({target, max}) <= target
      /\ Min({target, max}) <= max
  <2>1. PICK t \in Int, u \in Int : t = target /\ u = max
    BY <1>4
  <2>2. Min({t, u}) \in {t, u} /\ Min({t, u}) <= t /\ Min({t, u}) <= u
    BY MinOfTwo
  <2> QED
    BY <2>1, <2>2
<1>6. CASE target > max
  <2>1. job.maxTarget = max /\ job.minBits = BigToCompact(max)
    BY <1>1, <1>4, <1>5, <1>6
  <2> QED
    BY <2>1, BigToCompactMatches DEF JobBitsMatch, job
<1>7. CASE ~(target > max)
  <2>1. job.maxTarget = target /\ job.minBits = blocks[largest].bits
    BY <1>1, <1>4, <1>5, <1>7
  <2> QED
    BY <1>4, <2>1 DEF JobBitsMatch, job
<1> QED
  BY <1>6, <1>7

=============================================================================
