------------------------ MODULE ProgressQueueProofs ------------------------
(***************************************************************************)
(* Machine-checked proofs about the progress queue, for any limits and any *)
(* number of blocks, deltas and events.  The loops of _enqueue and          *)
(* _put_delta are recursive functions, so induction on the natural numbers *)
(* comes first.                                                            *)
(***************************************************************************)
EXTENDS ProgressQueue, WellFoundedInduction, TLAPS

LEMMA LeastNat ==
  ASSUME NEW T \in SUBSET Nat, T # {}
  PROVE  \E x \in T : \A y \in T : x <= y
<1> DEFINE R == {ss \in Nat \X Nat : ss[1] < ss[2]}
<1>1. IsWellFoundedOn(R, Nat)  BY NatLessThanWellFounded DEF OpToRel
<1>2. \A x, y \in T : <<y, x>> \in R <=> y < x  OBVIOUS
<1> HIDE DEF R
<1>3. \E x \in T : \A y \in T : ~ (<<y, x>> \in R) BY <1>1, WFMin
<1>4. PICK x \in T : \A y \in T : ~ (<<y, x>> \in R)  BY <1>3
<1>5. ASSUME NEW y \in T PROVE x <= y
  <2>1. ~ (y < x)  BY <1>2, <1>4
  <2>2. x \in Nat /\ y \in Nat  OBVIOUS
  <2> QED BY <2>1, <2>2
<1> QED BY <1>5

LEMMA Induct ==
  ASSUME NEW Holds, 0 \in Holds, \A n \in Nat : n \in Holds => n + 1 \in Holds
  PROVE  Nat \subseteq Holds
<1> DEFINE T == Nat \ Holds
<1>1. SUFFICES ASSUME T # {} PROVE FALSE  OBVIOUS
<1>2. PICK m \in T : \A y \in T : m <= y  BY <1>1, LeastNat
<1>3. m - 1 \in Nat /\ m - 1 \notin T  BY <1>2
<1>4. (m - 1) + 1 = m  BY <1>2
<1> QED BY <1>3, <1>4

(* A loop starts from a and takes the turns of G, within S.                 *)
IsLoop(S, a, G) == a \in S /\ G \in [Nat -> [S -> S]]
Unrolled(S, a, G, f) ==
  f \in [Nat -> S] /\ \A n \in Nat : f[n] = IF n = 0 THEN a ELSE G[n - 1][f[n - 1]]

(* Every loop has its sequence of states, which the recursive function is.  *)
LEMMA LoopUnrolls ==
  \A S, a, G : IsLoop(S, a, G) => \E f : Unrolled(S, a, G, f)
<1> SUFFICES ASSUME NEW S, NEW a \in S, NEW G \in [Nat -> [S -> S]]
             PROVE  \E f : Unrolled(S, a, G, f)
  BY DEF IsLoop
<1> DEFINE Run(n, g) == /\ g \in [0 .. n -> S] /\ g[0] = a
                        /\ \A i \in 0 .. n - 1 : g[i + 1] = G[i][g[i]]
           Some == {n \in Nat : \E g : Run(n, g)}
           One == {n \in Nat : \A g, h : Run(n, g) /\ Run(n, h) => g[n] = h[n]}
<1>1. \A n \in Nat : \A g : Run(n + 1, g) => Run(n, [i \in 0 .. n |-> g[i]])
  OBVIOUS
<1>2. Nat \subseteq Some
  <2>1. 0 \in Some
    <3>1. Run(0, [i \in 0 .. 0 |-> a])  OBVIOUS
    <3> QED BY <3>1
  <2>2. ASSUME NEW n \in Nat, n \in Some PROVE n + 1 \in Some
    <3>1. PICK g : Run(n, g)  BY <2>2
    <3> DEFINE h == [i \in 0 .. n + 1 |-> IF i <= n THEN g[i] ELSE G[n][g[n]]]
    <3>2. g[n] \in S  BY <3>1
    <3>3. h \in [0 .. n + 1 -> S]  BY <3>1, <3>2
    <3>4. h[0] = a  BY <3>1
    <3>5. ASSUME NEW i \in 0 .. (n + 1) - 1 PROVE h[i + 1] = G[i][h[i]]
      <4>1. CASE i < n
        <5>1. i \in 0 .. n - 1 /\ i + 1 <= n /\ i + 1 \in 0 .. n + 1 /\ i \in 0 .. n + 1 /\ i <= n  BY <4>1
        <5>2. h[i + 1] = g[i + 1] /\ h[i] = g[i]  BY <5>1
        <5> QED BY <3>1, <5>1, <5>2
      <4>2. CASE i = n
        <5>1. h[n + 1] = G[n][g[n]] /\ h[n] = g[n]  OBVIOUS
        <5> QED BY <4>2, <5>1
      <4> QED BY <4>1, <4>2
    <3>6. Run(n + 1, h)  BY <3>3, <3>4, <3>5
    <3> HIDE DEF h, Run
    <3> QED BY <3>6
  <2> HIDE DEF Some
  <2> QED BY <2>1, <2>2, Induct
<1>3. Nat \subseteq One
  <2>1. 0 \in One  OBVIOUS
  <2>2. ASSUME NEW n \in Nat, n \in One PROVE n + 1 \in One
    <3> SUFFICES ASSUME NEW g, NEW h, Run(n + 1, g), Run(n + 1, h) PROVE g[n + 1] = h[n + 1]
      OBVIOUS
    <3>1. [i \in 0 .. n |-> g[i]][n] = [i \in 0 .. n |-> h[i]][n]
      <4>1. Run(n, [i \in 0 .. n |-> g[i]]) /\ Run(n, [i \in 0 .. n |-> h[i]])  BY <1>1
      <4> HIDE DEF Run
      <4> QED BY <2>2, <4>1
    <3>2. g[n] = h[n]  BY <3>1
    <3>3. n \in 0 .. (n + 1) - 1  OBVIOUS
    <3> QED BY <3>2, <3>3
  <2> HIDE DEF One
  <2> QED BY <2>1, <2>2, Induct
<1> DEFINE f == [n \in Nat |-> (CHOOSE g : Run(n, g))[n]]
<1>4. \A n \in Nat : Run(n, CHOOSE g : Run(n, g))
  <2> SUFFICES ASSUME NEW n \in Nat PROVE Run(n, CHOOSE g : Run(n, g))  OBVIOUS
  <2>1. \E g : Run(n, g)  BY <1>2
  <2> HIDE DEF Run
  <2> QED BY <2>1
<1>5. f \in [Nat -> S]
  <2> SUFFICES ASSUME NEW n \in Nat PROVE (CHOOSE g : Run(n, g))[n] \in S  OBVIOUS
  <2> DEFINE c == CHOOSE g : Run(n, g)
  <2>1. Run(n, c)  BY <1>4
  <2> HIDE DEF c
  <2> QED BY <2>1
<1>6. f[0] = a
  <2> DEFINE c == CHOOSE g : Run(0, g)
  <2>1. Run(0, c)  BY <1>4
  <2>2. f[0] = c[0]  OBVIOUS
  <2> HIDE DEF c, f
  <2> QED BY <2>1, <2>2
<1>7. ASSUME NEW n \in Nat PROVE f[n + 1] = G[n][f[n]]
  <2> DEFINE c == CHOOSE g : Run(n, g)
             d == CHOOSE g : Run(n + 1, g)
             e == [i \in 0 .. n |-> d[i]]
  <2>1. Run(n, c) /\ Run(n + 1, d)
    <3> HIDE DEF Run
    <3> QED BY <1>4
  <2>2. f[n] = c[n]  OBVIOUS
  <2>e. n + 1 \in Nat /\ f[n + 1] = d[n + 1]  OBVIOUS
  <2> HIDE DEF c, d, f
  <2>3. Run(n, e)  BY <1>1, <2>1
  <2>4. e[n] = c[n]
    <3>1. n \in One  BY <1>3
    <3> HIDE DEF e
    <3> QED BY <2>1, <2>3, <3>1
  <2>5. d[n] = c[n]  BY <2>4
  <2>6. d[n + 1] = G[n][d[n]]
    <3>1. n \in 0 .. (n + 1) - 1  OBVIOUS
    <3> QED BY <2>1, <3>1
  <2> QED BY <2>2, <2>5, <2>6, <2>e
<1> HIDE DEF f
<1>8. ASSUME NEW n \in Nat, n # 0 PROVE f[n] = G[n - 1][f[n - 1]]
  <2>1. n - 1 \in Nat /\ (n - 1) + 1 = n  BY <1>8
  <2>2. f[(n - 1) + 1] = G[n - 1][f[n - 1]]  BY <1>7, <2>1
  <2> QED BY <2>1, <2>2
<1>9. Unrolled(S, a, G, f)  BY <1>5, <1>6, <1>8 DEF Unrolled
<1> QED BY <1>9

(* A property that one turn after another keeps holds after all of them.    *)
LEMMA TurnByTurn ==
  ASSUME NEW S, NEW e, e[0] \in S, \A n \in Nat : e[n] \in S => e[n + 1] \in S
  PROVE  \A n \in Nat : e[n] \in S
<1> DEFINE I == {n \in Nat : e[n] \in S}
<1>1. 0 \in I /\ \A n \in Nat : n \in I => n + 1 \in I  OBVIOUS
<1> HIDE DEF I
<1>2. Nat \subseteq I  BY <1>1, Induct
<1> QED BY <1>2 DEF I

-----------------------------------------------------------------------------
(* The recursive functions of the model.                                   *)

(* The turns of _enqueue's loop, if they stay within S.                     *)
LEMMA EvictionTurns ==
  ASSUME NEW S, NEW q \in S, \A p \in S : EvictsOne(p) \in S
  PROVE  /\ Evictions(q)[0] = q
         /\ \A n \in Nat : Evictions(q)[n] \in S /\ Evictions(q)[n + 1] = EvictsOne(Evictions(q)[n])
<1> DEFINE Is(f) == f = [n \in Nat |-> IF n = 0 THEN q ELSE EvictsOne(f[n - 1])]
           e == Evictions(q)
<1>1. PICK G \in [Nat -> [S -> S]] : \A n \in Nat, p \in S : G[n][p] = EvictsOne(p)
  <2>1. [n \in Nat |-> [p \in S |-> EvictsOne(p)]] \in [Nat -> [S -> S]]  OBVIOUS
  <2> QED BY <2>1
<1>u. PICK f : Unrolled(S, q, G, f)
  <2>1. IsLoop(S, q, G)  BY DEF IsLoop
  <2> QED BY <2>1, LoopUnrolls
<1>2. f \in [Nat -> S] /\ \A n \in Nat : f[n] = IF n = 0 THEN q ELSE G[n - 1][f[n - 1]]
  BY <1>u DEF Unrolled
<1>3. Is(f)
  <2>1. \A n \in Nat : n # 0 => n - 1 \in Nat /\ f[n - 1] \in S  BY <1>2
  <2>2. \A n \in Nat : f[n] = IF n = 0 THEN q ELSE EvictsOne(f[n - 1])  BY <1>1, <1>2, <2>1
  <2> QED BY <1>2, <2>2
<1>4. Is(e)
  <2>1. e = CHOOSE g : Is(g)  BY DEF Evictions
  <2> HIDE DEF Is, e
  <2> QED BY <1>3, <2>1
<1> HIDE DEF e
<1>5. e[0] = q /\ \A n \in Nat : e[n + 1] = EvictsOne(e[n])
  <2>1. \A n \in Nat : n + 1 \in Nat /\ n + 1 # 0 /\ (n + 1) - 1 = n  OBVIOUS
  <2>2. \A n \in Nat : e[n + 1] = EvictsOne(e[(n + 1) - 1])  BY <1>4, <2>1
  <2> QED BY <1>4, <2>1, <2>2
<1>6. \A n \in Nat : e[n] \in S  BY <1>5, TurnByTurn
<1> QED BY <1>5, <1>6 DEF e

(* The turns of _put_delta's loop, if they stay within S.                   *)
LEMMA PieceTurns ==
  ASSUME NEW S, NEW q, NEW key, NEW text, [q |-> q, rest |-> text] \in S,
         \A at \in S : at.rest # <<>> => Piece(at, key) \in S
  PROVE  /\ Pieces(q, key, text)[0] = [q |-> q, rest |-> text]
         /\ \A n \in Nat :
              /\ Pieces(q, key, text)[n] \in S
              /\ Pieces(q, key, text)[n + 1] =
                   IF Pieces(q, key, text)[n].rest = <<>> THEN Pieces(q, key, text)[n]
                   ELSE Piece(Pieces(q, key, text)[n], key)
<1> DEFINE a == [q |-> q, rest |-> text]
           Turn(at) == IF at.rest = <<>> THEN at ELSE Piece(at, key)
           Is(f) == f = [n \in Nat |-> IF n = 0 THEN a ELSE Turn(f[n - 1])]
           e == Pieces(q, key, text)
<1>0. \A at \in S : Turn(at) \in S  OBVIOUS
<1>e. e = CHOOSE g : Is(g)  BY DEF Pieces
<1> HIDE DEF Turn, a, e
<1>1. PICK G \in [Nat -> [S -> S]] : \A n \in Nat, p \in S : G[n][p] = Turn(p)
  <2>1. [n \in Nat |-> [p \in S |-> Turn(p)]] \in [Nat -> [S -> S]]  BY <1>0
  <2> QED BY <2>1
<1>u. PICK f : Unrolled(S, a, G, f)
  <2>1. IsLoop(S, a, G)  BY DEF IsLoop, a
  <2> QED BY <2>1, LoopUnrolls
<1>2. f \in [Nat -> S] /\ \A n \in Nat : f[n] = IF n = 0 THEN a ELSE G[n - 1][f[n - 1]]
  BY <1>u DEF Unrolled
<1>3. Is(f)
  <2>1. \A n \in Nat : n # 0 => n - 1 \in Nat /\ f[n - 1] \in S  BY <1>2
  <2>2. \A n \in Nat : f[n] = IF n = 0 THEN a ELSE Turn(f[n - 1])  BY <1>1, <1>2, <2>1
  <2> QED BY <1>2, <2>2
<1>4. Is(e)
  <2> HIDE DEF Is
  <2> QED BY <1>3, <1>e
<1>5. e[0] = a /\ \A n \in Nat : e[n + 1] = Turn(e[n])
  <2>1. \A n \in Nat : n + 1 \in Nat /\ n + 1 # 0 /\ (n + 1) - 1 = n  OBVIOUS
  <2>2. \A n \in Nat : e[n + 1] = Turn(e[(n + 1) - 1])  BY <1>4, <2>1
  <2> QED BY <1>4, <2>1, <2>2
<1>6. \A n \in Nat : e[n] \in S
  <2>1. e[0] \in S  BY <1>5 DEF a
  <2> QED BY <1>0, <1>5, <2>1, TurnByTurn
<1> QED BY <1>5, <1>6 DEF e, a, Turn

(* The partial sums of the counts a queue carries.                         *)
LEMMA CountTurns ==
  ASSUME NEW queued \in Seq(Items)
  PROVE  /\ Counts(queued)[0] = 0
         /\ \A n \in Nat :
              /\ Counts(queued)[n] \in Nat
              /\ Counts(queued)[n + 1] =
                   Counts(queued)[n] + IF n + 1 \in DOMAIN queued THEN queued[n + 1].count ELSE 0
<1> DEFINE More(n) == IF n \in DOMAIN queued THEN queued[n].count ELSE 0
           Is(f) == f = [n \in Nat |-> IF n = 0 THEN 0 ELSE f[n - 1] + More(n)]
           e == Counts(queued)
<1>0. \A n \in Nat : More(n) \in Nat
  <2>1. \A n \in DOMAIN queued : queued[n] \in Items  OBVIOUS
  <2> QED BY <2>1 DEF Items
<1>e. e = CHOOSE g : Is(g)  BY DEF Counts
<1> HIDE DEF More, e
<1>1. PICK G \in [Nat -> [Nat -> Nat]] : \A n \in Nat, p \in Nat : G[n][p] = p + More(n + 1)
  <2>1. [n \in Nat |-> [p \in Nat |-> p + More(n + 1)]] \in [Nat -> [Nat -> Nat]]
    <3>1. \A n \in Nat : More(n + 1) \in Nat  BY <1>0
    <3> QED BY <3>1
  <2> QED BY <2>1
<1>u. PICK f : Unrolled(Nat, 0, G, f)
  <2>1. IsLoop(Nat, 0, G)  BY DEF IsLoop
  <2> QED BY <2>1, LoopUnrolls
<1>2. f \in [Nat -> Nat] /\ \A n \in Nat : f[n] = IF n = 0 THEN 0 ELSE G[n - 1][f[n - 1]]
  BY <1>u DEF Unrolled
<1>3. Is(f)
  <2>1. ASSUME NEW n \in Nat, n # 0 PROVE f[n] = f[n - 1] + More(n)
    <3>1. n - 1 \in Nat /\ (n - 1) + 1 = n  BY <2>1
    <3>2. f[n - 1] \in Nat  BY <1>2, <3>1
    <3>3. G[n - 1][f[n - 1]] = f[n - 1] + More((n - 1) + 1)  BY <1>1, <3>1, <3>2
    <3> QED BY <1>2, <2>1, <3>1, <3>3
  <2>2. \A n \in Nat : f[n] = IF n = 0 THEN 0 ELSE f[n - 1] + More(n)
    BY <1>2, <2>1
  <2> QED BY <1>2, <2>2
<1>4. Is(e)
  <2> HIDE DEF Is
  <2> QED BY <1>3, <1>e
<1>5. e[0] = 0 /\ \A n \in Nat : e[n + 1] = e[n] + More(n + 1)
  <2>1. \A n \in Nat : n + 1 \in Nat /\ n + 1 # 0 /\ (n + 1) - 1 = n  OBVIOUS
  <2>2. \A n \in Nat : e[n + 1] = e[(n + 1) - 1] + More(n + 1)  BY <1>4, <2>1
  <2> QED BY <1>4, <2>1, <2>2
<1>6. \A n \in Nat : e[n] \in Nat
  <2>1. ASSUME NEW n \in Nat, e[n] \in Nat PROVE e[n + 1] \in Nat
    <3>1. n + 1 \in Nat  OBVIOUS
    <3>2. More(n + 1) \in Nat /\ e[n + 1] = e[n] + More(n + 1)  BY <1>0, <1>5, <3>1
    <3>3. \A x, y \in Nat : x + y \in Nat  OBVIOUS
    <3>4. e[n] + More(n + 1) \in Nat  BY <2>1, <3>2, <3>3
    <3> QED BY <3>2, <3>4
  <2> QED BY <1>5, <2>1, TurnByTurn
<1> QED BY <1>5, <1>6 DEF e, More

(* One item more, or one less, and the counts a queue carries.              *)
LEMMA CountsAppended ==
  ASSUME NEW queued \in Seq(Items), NEW item \in Items
  PROVE  CountsIn(Append(queued, item)) = CountsIn(queued) + item.count
<1> DEFINE longer == Append(queued, item)
           c == Counts(queued)
           d == Counts(longer)
           m == Len(queued)
           I == {n \in Nat : n <= m => d[n] = c[n]}
<1>1. /\ longer \in Seq(Items) /\ m \in Nat /\ DOMAIN queued = 1 .. m
      /\ DOMAIN longer = 1 .. m + 1 /\ Len(longer) = m + 1 /\ longer[m + 1] = item
      /\ \A n \in 1 .. m : longer[n] = queued[n]
  OBVIOUS
<1>2. /\ c[0] = 0 /\ d[0] = 0
      /\ \A n \in Nat : c[n] \in Nat
      /\ \A n \in 0 .. m - 1 : c[n + 1] = c[n] + queued[n + 1].count
      /\ \A n \in 0 .. m : d[n + 1] = d[n] + longer[n + 1].count
  <2>1. /\ c[0] = 0 /\ \A n \in Nat : c[n] \in Nat
        /\ \A n \in Nat : c[n + 1] = c[n] + IF n + 1 \in DOMAIN queued THEN queued[n + 1].count ELSE 0
    BY CountTurns
  <2>2. /\ d[0] = 0
        /\ \A n \in Nat : d[n + 1] = d[n] + IF n + 1 \in DOMAIN longer THEN longer[n + 1].count ELSE 0
    BY <1>1, CountTurns
  <2> HIDE DEF c, d, m, longer
  <2>3. ASSUME NEW n \in 0 .. m - 1 PROVE c[n + 1] = c[n] + queued[n + 1].count
    <3>1. n \in Nat /\ n + 1 \in 1 .. m  BY <1>1
    <3> QED BY <1>1, <2>1, <3>1
  <2>4. ASSUME NEW n \in 0 .. m PROVE d[n + 1] = d[n] + longer[n + 1].count
    <3>1. n \in Nat /\ n + 1 \in 1 .. m + 1  BY <1>1
    <3> QED BY <1>1, <2>2, <3>1
  <2> QED BY <2>1, <2>2, <2>3, <2>4
<1> HIDE DEF c, d, m, longer
<1>3. 0 \in I  BY <1>2
<1>4. ASSUME NEW n \in Nat, n \in I PROVE n + 1 \in I
  <2> SUFFICES ASSUME n + 1 <= m PROVE d[n + 1] = c[n + 1]  OBVIOUS
  <2>1. n \in 0 .. m - 1 /\ n \in 0 .. m /\ n + 1 \in 1 .. m /\ n <= m  BY <1>1
  <2> QED BY <1>1, <1>2, <1>4, <2>1
<1>5. m \in I
  <2> HIDE DEF I
  <2> QED BY <1>1, <1>3, <1>4, Induct
<1>6. d[m + 1] = c[m] + item.count  BY <1>1, <1>2, <1>5
<1> QED BY <1>1, <1>6 DEF c, d, m, longer, CountsIn

LEMMA CountsRemoved ==
  ASSUME NEW queued \in Seq(Items), NEW rest \in Seq(Items), NEW i \in 1 .. Len(queued),
         Len(queued) = Len(rest) + 1,
         \A n \in 1 .. Len(rest) : rest[n] = IF n < i THEN queued[n] ELSE queued[n + 1]
  PROVE  CountsIn(queued) = CountsIn(rest) + queued[i].count
<1> DEFINE c == Counts(queued)
           d == Counts(rest)
           m == Len(rest)
           I == {n \in Nat : n <= m => /\ n < i => c[n] = d[n]
                                       /\ n >= i => c[n + 1] = d[n] + queued[i].count}
<1>1. /\ m \in Nat /\ DOMAIN queued = 1 .. m + 1 /\ DOMAIN rest = 1 .. m /\ i \in 1 .. m + 1
      /\ \A n \in 1 .. m + 1 : queued[n].count \in Nat
  <2>1. \A n \in 1 .. m + 1 : queued[n] \in Items  OBVIOUS
  <2> QED BY <2>1 DEF Items
<1>2. /\ c[0] = 0 /\ d[0] = 0
      /\ \A n \in Nat : c[n] \in Nat /\ d[n] \in Nat
      /\ \A n \in 0 .. m : c[n + 1] = c[n] + queued[n + 1].count
      /\ \A n \in 0 .. m - 1 : d[n + 1] = d[n] + rest[n + 1].count
  <2>1. /\ c[0] = 0 /\ \A n \in Nat : c[n] \in Nat
        /\ \A n \in Nat : c[n + 1] = c[n] + IF n + 1 \in DOMAIN queued THEN queued[n + 1].count ELSE 0
    BY CountTurns
  <2>2. /\ d[0] = 0 /\ \A n \in Nat : d[n] \in Nat
        /\ \A n \in Nat : d[n + 1] = d[n] + IF n + 1 \in DOMAIN rest THEN rest[n + 1].count ELSE 0
    BY CountTurns
  <2> HIDE DEF c, d, m
  <2>3. ASSUME NEW n \in 0 .. m PROVE c[n + 1] = c[n] + queued[n + 1].count
    <3>1. n \in Nat /\ n + 1 \in 1 .. m + 1  BY <1>1
    <3> QED BY <1>1, <2>1, <3>1
  <2>4. ASSUME NEW n \in 0 .. m - 1 PROVE d[n + 1] = d[n] + rest[n + 1].count
    <3>1. n \in Nat /\ n + 1 \in 1 .. m  BY <1>1
    <3> QED BY <1>1, <2>2, <3>1
  <2> QED BY <2>1, <2>2, <2>3, <2>4
<1>3. \A n \in 1 .. m : rest[n] = IF n < i THEN queued[n] ELSE queued[n + 1]  OBVIOUS
<1> HIDE DEF c, d, m
<1>4. 0 \in I  BY <1>1, <1>2
<1>5. ASSUME NEW n \in Nat, n \in I PROVE n + 1 \in I
  <2> SUFFICES ASSUME n + 1 <= m
               PROVE  /\ n + 1 < i => c[n + 1] = d[n + 1]
                      /\ n + 1 >= i => c[(n + 1) + 1] = d[n + 1] + queued[i].count
    OBVIOUS
  <2>1. n \in 0 .. m - 1 /\ n \in 0 .. m /\ n + 1 \in 0 .. m /\ n + 1 \in 1 .. m /\ n <= m
    BY <1>1
  <2>2. /\ c[n + 1] = c[n] + queued[n + 1].count
        /\ c[(n + 1) + 1] = c[n + 1] + queued[(n + 1) + 1].count
        /\ d[n + 1] = d[n] + rest[n + 1].count
    BY <1>2, <2>1
  <2>3. rest[n + 1] = IF n + 1 < i THEN queued[n + 1] ELSE queued[(n + 1) + 1]  BY <1>3, <2>1
  <2>4. /\ n < i => c[n] = d[n]
        /\ n >= i => c[n + 1] = d[n] + queued[i].count
    BY <1>5, <2>1
  <2>5. /\ c[n] \in Nat /\ d[n] \in Nat /\ queued[i].count \in Nat /\ i \in Nat
        /\ queued[n + 1].count \in Nat /\ queued[(n + 1) + 1].count \in Nat
    BY <1>1, <1>2, <2>1
  <2>6. CASE n + 1 < i  BY <2>2, <2>3, <2>4, <2>5, <2>6
  <2>7. CASE n + 1 = i
    <3>1. queued[n + 1] = queued[i]  BY <2>7
    <3> QED BY <2>2, <2>3, <2>4, <2>5, <2>7, <3>1
  <2>8. CASE n >= i
    <3>1. ~ n + 1 < i  BY <2>5, <2>8
    <3> QED BY <2>2, <2>3, <2>4, <2>5, <2>8, <3>1
  <2> QED BY <2>5, <2>6, <2>7, <2>8
<1>6. m \in I
  <2> HIDE DEF I
  <2> QED BY <1>1, <1>4, <1>5, Induct
<1>7. c[m + 1] = d[m] + queued[i].count
  <2>1. CASE m >= i  BY <1>1, <1>6, <2>1
  <2>2. CASE m < i
    <3>1. m + 1 = i /\ m \in 0 .. m  BY <1>1, <2>2
    <3>2. c[m] = d[m] /\ c[m + 1] = c[m] + queued[m + 1].count  BY <1>1, <1>2, <1>6, <2>2, <3>1
    <3> QED BY <3>1, <3>2
  <2> QED BY <1>1, <2>1, <2>2
<1> QED BY <1>7 DEF c, d, m, CountsIn

(* Two sequences, joined.                                                  *)
LEMMA Joined ==
  ASSUME NEW S, NEW s \in Seq(S), NEW u \in Seq(S)
  PROVE  /\ s \o u \in Seq(S) /\ Len(s \o u) = Len(s) + Len(u)
         /\ \A n \in 1 .. Len(s) : (s \o u)[n] = s[n]
         /\ \A n \in Len(s) + 1 .. Len(s) + Len(u) : (s \o u)[n] = u[n - Len(s)]
  OBVIOUS

(* A sequence without its i-th element.                                    *)
LEMMA Removed ==
  ASSUME NEW S, NEW s \in Seq(S), NEW i \in 1 .. Len(s)
  PROVE  /\ RemoveAt(s, i) \in Seq(S) /\ Len(s) = Len(RemoveAt(s, i)) + 1
         /\ \A n \in 1 .. Len(RemoveAt(s, i)) :
              RemoveAt(s, i)[n] = IF n < i THEN s[n] ELSE s[n + 1]
<1> DEFINE a == SubSeq(s, 1, i - 1)
           b == SubSeq(s, i + 1, Len(s))
<1>1. a \in Seq(S) /\ Len(a) = i - 1 /\ \A n \in 1 .. i - 1 : a[n] = s[n]
  OBVIOUS
<1>2. b \in Seq(S) /\ Len(b) = Len(s) - i /\ \A n \in 1 .. Len(s) - i : b[n] = s[i + n]
  OBVIOUS
<1> HIDE DEF a, b
<1>c. RemoveAt(s, i) = a \o b  BY DEF RemoveAt, a, b
<1>3. a \o b \in Seq(S) /\ Len(a \o b) = Len(s) - 1
  <2>1. a \o b \in Seq(S) /\ Len(a \o b) = Len(a) + Len(b)  BY <1>1, <1>2, Joined
  <2> QED BY <1>1, <1>2, <2>1
<1>4. ASSUME NEW n \in 1 .. Len(s) - 1 PROVE (a \o b)[n] = IF n < i THEN s[n] ELSE s[n + 1]
  <2>1. CASE n < i  BY <1>1, <1>2, <2>1
  <2>2. CASE ~ n < i
    <3>1. (a \o b)[n] = b[n - (i - 1)]  BY <1>1, <1>2, <2>2
    <3>2. n - (i - 1) \in 1 .. Len(s) - i /\ i + (n - (i - 1)) = n + 1  BY <2>2
    <3> QED BY <1>2, <2>2, <3>1, <3>2
  <2> QED BY <2>1, <2>2
<1>5. Len(s) \in Nat  OBVIOUS
<1> QED BY <1>c, <1>3, <1>4, <1>5

-----------------------------------------------------------------------------
(* The queue.                                                              *)

FieldSet == [items : Seq(Items), pending : Pendings \cup {NoItem}, dropped : Nat, lost : Nat]

(* What the methods below put_nowait keep, of the kinds of what was put.    *)
Tells(q) ==
  LET known == told + CountsIn(q.items) + q.dropped
  IN  known <= q.lost /\ (q.lost > 0 => known > 0)
Fits(item, kinds) == Len(item.text) <= MaxDeltaChars /\ Whole(item, kinds)
Good(q, kinds) ==
  /\ q \in FieldSet
  /\ \A i \in 1 .. Len(q.items) : Fits(q.items[i], kinds) /\ Precedes(q.items[i], q.pending)
  /\ \A i, j \in 1 .. Len(q.items) : i < j => Precedes(q.items[i], q.items[j])
  /\ Fits(q.pending, kinds)
  /\ Len(q.items) > MaxItems => \A i \in 1 .. Len(q.items) : ~ IsDelta(q.items[i])
  /\ told \in Nat /\ Tells(q)

(* How they leave it: what is gone is deltas, and went from a full queue.   *)
Loses(q, r, new, kinds) ==
  /\ Carried(r) \subseteq Carried(q) \cup new
  /\ \A n \in (Carried(q) \cup new) \ Carried(r) : kinds[n] = "delta"
Changes(q, r, new, kinds) ==
  /\ Loses(q, r, new, kinds)
  /\ r.lost # q.lost => Len(r.items) >= MaxItems
  /\ Len(q.items) >= MaxItems => Len(r.items) >= MaxItems

(* A text that comes after all that is carried.                            *)
Above(q, text) == \A n \in Carried(q), k \in DOMAIN text : n < text[k]

(* One change after another.                                               *)
LEMMA ChangesFollow ==
  ASSUME NEW q, NEW r, NEW s, NEW new, NEW more, NEW kinds,
         Changes(q, r, new, kinds), Changes(r, s, more, kinds)
  PROVE  Changes(q, s, new \cup more, kinds)
  BY DEF Changes, Loses

(* What is carried by one item.                                            *)
LEMMA CarriedItem ==
  ASSUME NEW q, q.items \in Seq(Items)
  PROVE  /\ \A n : n \in Carried(q) <=>
              \/ \E i \in 1 .. Len(q.items) : \E k \in DOMAIN q.items[i].text : n = q.items[i].text[k]
              \/ \E k \in DOMAIN q.pending.text : n = q.pending.text[k]
         /\ \A i \in 1 .. Len(q.items) : ToSet(q.items[i].text) \subseteq Carried(q)
         /\ ToSet(q.pending.text) \subseteq Carried(q)
<1>1. DOMAIN q.items = 1 .. Len(q.items)  OBVIOUS
<1>2. \A text, n : n \in ToSet(text) <=> \E k \in DOMAIN text : n = text[k]  BY DEF ToSet
<1>3. \A n : n \in Carried(q) <=>
        \/ \E i \in 1 .. Len(q.items) : n \in ToSet(q.items[i].text)
        \/ n \in ToSet(q.pending.text)
  <2> DEFINE T == {ToSet(q.items[i].text) : i \in DOMAIN q.items}
  <2>1. \A n : n \in UNION T <=> \E i \in DOMAIN q.items : n \in ToSet(q.items[i].text)
    OBVIOUS
  <2>2. Carried(q) = (UNION T) \cup ToSet(q.pending.text)  BY DEF Carried
  <2> HIDE DEF T
  <2>3. \A n : n \in Carried(q) <=> (n \in UNION T) \/ n \in ToSet(q.pending.text)  BY <2>2
  <2>4. \A n : n \in UNION T <=> \E i \in 1 .. Len(q.items) : n \in ToSet(q.items[i].text)
    BY <1>1, <2>1
  <2> QED BY <2>3, <2>4
<1>4. \A n : n \in Carried(q) <=>
        \/ \E i \in 1 .. Len(q.items) : \E k \in DOMAIN q.items[i].text : n = q.items[i].text[k]
        \/ \E k \in DOMAIN q.pending.text : n = q.pending.text[k]
  BY <1>2, <1>3
<1>5. /\ \A i \in 1 .. Len(q.items) : ToSet(q.items[i].text) \subseteq Carried(q)
      /\ ToSet(q.pending.text) \subseteq Carried(q)
  BY <1>3
<1> QED BY <1>4, <1>5

(* Items and what is put after them.                                       *)
LEMMA AboveItems ==
  ASSUME NEW q, q.items \in Seq(Items), NEW item, Above(q, item.text)
  PROVE  \A i \in 1 .. Len(q.items) : Precedes(q.items[i], item)
<1> SUFFICES ASSUME NEW i \in 1 .. Len(q.items), NEW j \in DOMAIN q.items[i].text,
                    NEW k \in DOMAIN item.text
             PROVE  q.items[i].text[j] < item.text[k]
  BY DEF Precedes
<1>1. q.items[i].text[j] \in Carried(q)  BY CarriedItem
<1> QED BY <1>1 DEF Above

(* What is above a queue is above what is left of it.                       *)
LEMMA AboveStays ==
  ASSUME NEW q, NEW r, NEW text, Above(q, text), Carried(r) \subseteq Carried(q)
  PROVE  Above(r, text)
  BY DEF Above

-----------------------------------------------------------------------------
(* _enqueue.                                                               *)

Stuck(p) == ~ (Crowded(p.items) /\ Deltas(p.items) # {})

LEMMA OldestIsThere ==
  ASSUME NEW queued \in Seq(Items), Deltas(queued) # {}
  PROVE  Oldest(queued) \in 1 .. Len(queued) /\ IsDelta(queued[Oldest(queued)])
<1>1. DOMAIN queued = 1 .. Len(queued) /\ Len(queued) \in Nat  OBVIOUS
<1>2. Deltas(queued) \in SUBSET Nat  BY <1>1 DEF Deltas
<1>3. \E i \in Deltas(queued) : \A j \in Deltas(queued) : i <= j  BY <1>2, LeastNat
<1>4. Oldest(queued) \in Deltas(queued)  BY <1>3 DEF Oldest
<1> QED BY <1>1, <1>4 DEF Deltas

(* One turn of its loop takes one delta away.                              *)
LEMMA EvictsGood ==
  ASSUME NEW p, NEW kinds, Good(p, kinds), ~ Stuck(p)
  PROVE  LET r == EvictsOne(p)
         IN  /\ Good(r, kinds) /\ Loses(p, r, {}, kinds) /\ r.pending = p.pending
             /\ Len(r.items) + 1 = Len(p.items) /\ Len(r.items) + 1 >= MaxItems
<1> DEFINE k == Oldest(p.items)
           rest == RemoveAt(p.items, k)
           r == EvictsOne(p)
           At(n) == IF n < k THEN n ELSE n + 1
<1>1. p \in FieldSet /\ p.items \in Seq(Items) /\ p.pending \in Pendings \cup {NoItem}
        /\ p.dropped \in Nat /\ p.lost \in Nat
  BY DEF Good, FieldSet
<1>2. k \in 1 .. Len(p.items) /\ IsDelta(p.items[k])
  BY <1>1, OldestIsThere DEF Stuck
<1>3. /\ r.items = rest /\ r.pending = p.pending
      /\ r.dropped = p.dropped + 1 /\ r.lost = p.lost + 1
      /\ r = [items |-> rest, pending |-> p.pending, dropped |-> p.dropped + 1, lost |-> p.lost + 1]
  BY DEF EvictsOne, Stuck
<1> HIDE DEF k
<1>4. /\ rest \in Seq(Items) /\ Len(p.items) = Len(rest) + 1
      /\ \A n \in 1 .. Len(rest) : rest[n] = IF n < k THEN p.items[n] ELSE p.items[n + 1]
  BY <1>1, <1>2, Removed
<1>5. Len(rest) \in Nat  BY <1>4
<1> HIDE DEF rest, r
<1>6. /\ \A n \in 1 .. Len(rest) : At(n) \in 1 .. Len(p.items) /\ rest[n] = p.items[At(n)]
      /\ \A m, n \in 1 .. Len(rest) : m < n => At(m) < At(n)
  BY <1>2, <1>4, <1>5
<1> HIDE DEF At
<1>7. Len(p.items) >= MaxItems /\ ~ Len(p.items) > MaxItems /\ MaxItems \in Nat
  <2>1. Len(p.items) >= MaxItems  BY DEF Stuck, Crowded
  <2> QED BY <1>2, <2>1, QueueAssumption DEF Good
<1>8. r \in FieldSet  BY <1>1, <1>3, <1>4 DEF FieldSet
<1>9. Tells(r)
  <2>1. CountsIn(p.items) = CountsIn(rest) + p.items[k].count
    BY <1>1, <1>2, <1>4, CountsRemoved
  <2>2. p.items[k].count \in Nat
    <3>1. p.items[k] \in Items  BY <1>1, <1>2
    <3> QED BY <3>1 DEF Items
  <2>3. CountsIn(rest) \in Nat  BY <1>4, <1>5, CountTurns DEF CountsIn
  <2>4. Tells(p)  BY DEF Good
  <2>5. told \in Nat  BY DEF Good
  <2> DEFINE a == CountsIn(rest)
             b == p.items[k].count
  <2>6. told + (a + b) + p.dropped <= p.lost /\ (p.lost > 0 => told + (a + b) + p.dropped > 0)
    BY <2>1, <2>4 DEF Tells
  <2>7. a \in Nat /\ b \in Nat  BY <2>2, <2>3
  <2> HIDE DEF a, b
  <2>8. told + a + (p.dropped + 1) <= p.lost + 1 /\ told + a + (p.dropped + 1) > 0
    BY <1>1, <2>5, <2>6, <2>7
  <2> QED BY <1>3, <2>8 DEF Tells, a
<1>10. Good(r, kinds)
  <2>1. \A i \in 1 .. Len(rest) : Fits(rest[i], kinds) /\ Precedes(rest[i], p.pending)
    BY <1>6 DEF Good
  <2>2. \A i, j \in 1 .. Len(rest) : i < j => Precedes(rest[i], rest[j])
    BY <1>6 DEF Good
  <2>3. Fits(p.pending, kinds)  BY DEF Good
  <2>4. ~ Len(rest) > MaxItems  BY <1>4, <1>5, <1>7
  <2> QED BY <1>3, <1>8, <1>9, <2>1, <2>2, <2>3, <2>4 DEF Good
<1>11. Loses(p, r, {}, kinds)
  <2>1. Carried(r) \subseteq Carried(p)
    <3>1. \A i \in 1 .. Len(rest) : \E j \in 1 .. Len(p.items) : rest[i] = p.items[j]
      BY <1>6
    <3> QED BY <1>1, <1>3, <1>4, <3>1, CarriedItem
  <2>2. ASSUME NEW n \in Carried(p), n \notin Carried(r) PROVE kinds[n] = "delta"
    <3>1. PICK i \in 1 .. Len(p.items) : \E j \in DOMAIN p.items[i].text : n = p.items[i].text[j]
      BY <1>1, <1>3, <1>4, <2>2, CarriedItem
    <3>2. i = k
      <4> SUFFICES ASSUME i # k PROVE FALSE  OBVIOUS
      <4>1. PICK m \in 1 .. Len(rest) : rest[m] = p.items[i]
        <5>1. CASE i < k
          <6>1. i \in 1 .. Len(rest)  BY <1>2, <1>4, <1>5, <5>1
          <6> QED BY <1>4, <5>1, <6>1
        <5>2. CASE i > k
          <6>1. i - 1 \in 1 .. Len(rest) /\ ~ (i - 1 < k) /\ (i - 1) + 1 = i
            BY <1>2, <1>4, <1>5, <5>2
          <6> QED BY <1>4, <6>1
        <5> QED BY <1>2, <5>1, <5>2
      <4> QED BY <1>3, <1>4, <2>2, <3>1, <4>1, CarriedItem
    <3>3. Whole(p.items[k], kinds) /\ p.items[k].type = "delta"
      BY <1>2 DEF Good, Fits, IsDelta
    <3> QED BY <3>1, <3>2, <3>3 DEF Whole
  <2> QED BY <2>1, <2>2 DEF Loses
<1> QED BY <1>3, <1>4, <1>5, <1>7, <1>10, <1>11 DEF r

(* All its turns: nothing is dropped but by a queue that stays full.        *)
LEMMA RoomMade ==
  ASSUME NEW q, NEW kinds, Good(q, kinds)
  PROVE  LET r == MakesRoom(q)
         IN  /\ Good(r, kinds) /\ Stuck(r) /\ Loses(q, r, {}, kinds) /\ r.pending = q.pending
             /\ Len(q.items) >= MaxItems => Len(r.items) + 1 >= MaxItems
             /\ Len(q.items) < MaxItems => r = q
<1> DEFINE e == Evictions(q)
           m == Len(q.items)
           S == {p \in FieldSet : /\ Good(p, kinds) /\ Loses(q, p, {}, kinds)
                                  /\ p.pending = q.pending
                                  /\ Len(q.items) >= MaxItems => Len(p.items) + 1 >= MaxItems
                                  /\ Len(q.items) < MaxItems => p = q}
           I == {n \in Nat : Stuck(e[n]) \/ Len(e[n].items) + n = m}
<1>1. q \in FieldSet /\ q.items \in Seq(Items) /\ m \in Nat /\ MaxItems \in Nat
  BY QueueAssumption DEF Good, FieldSet
<1>2. q \in S
  <2>1. Loses(q, q, {}, kinds)  BY DEF Loses
  <2> QED BY <1>1, <2>1
<1>3. ASSUME NEW p \in S PROVE EvictsOne(p) \in S
  <2>1. CASE Stuck(p)
    <3>1. EvictsOne(p) = p  BY <2>1 DEF Stuck, EvictsOne
    <3> QED BY <3>1
  <2>2. CASE ~ Stuck(p)
    <3> DEFINE r == EvictsOne(p)
    <3>1. /\ Good(p, kinds) /\ Loses(q, p, {}, kinds) /\ p.pending = q.pending
          /\ Len(q.items) < MaxItems => p = q
      OBVIOUS
    <3>2. /\ Good(r, kinds) /\ Loses(p, r, {}, kinds) /\ r.pending = p.pending
          /\ Len(r.items) + 1 >= MaxItems
      BY <2>2, <3>1, EvictsGood
    <3>3. r \in FieldSet  BY <3>2 DEF Good
    <3>4. Loses(q, r, {}, kinds)  BY <3>1, <3>2 DEF Loses
    <3>5. ~ (Len(q.items) < MaxItems)
      <4>1. Len(p.items) >= MaxItems  BY <2>2 DEF Stuck, Crowded
      <4> QED BY <1>1, <3>1, <4>1
    <3> HIDE DEF r
    <3>6. r.pending = q.pending /\ (Len(q.items) >= MaxItems => Len(r.items) + 1 >= MaxItems)
      BY <3>1, <3>2
    <3>7. r \in S  BY <3>2, <3>3, <3>4, <3>5, <3>6
    <3> QED BY <3>7 DEF r
  <2> QED BY <2>1, <2>2
<1> HIDE DEF S
<1>4. e[0] = q /\ \A n \in Nat : e[n] \in S /\ e[n + 1] = EvictsOne(e[n])
  BY <1>2, <1>3, EvictionTurns
<1> HIDE DEF e
<1>5. 0 \in I  BY <1>1, <1>4
<1>6. ASSUME NEW n \in Nat, n \in I PROVE n + 1 \in I
  <2>1. CASE Stuck(e[n])
    <3>1. e[n + 1] = e[n]  BY <1>4, <2>1 DEF Stuck, EvictsOne
    <3> QED BY <2>1, <3>1
  <2>2. CASE ~ Stuck(e[n])
    <3>1. Good(e[n], kinds)  BY <1>4 DEF S
    <3>2. Good(e[n + 1], kinds) /\ Len(e[n + 1].items) + 1 = Len(e[n].items)
      BY <1>4, <2>2, <3>1, EvictsGood
    <3>3. Len(e[n + 1].items) \in Nat  BY <3>2 DEF Good, FieldSet
    <3>4. Len(e[n].items) + n = m  BY <1>6, <2>2
    <3> DEFINE x == Len(e[n + 1].items)
    <3>5. (x + 1) + n = m /\ x \in Nat  BY <3>2, <3>3, <3>4
    <3>6. x + (n + 1) = m /\ n + 1 \in Nat
      <4> HIDE DEF x, m
      <4> QED BY <3>5
    <3> QED BY <3>6
  <2> QED BY <2>1, <2>2
<1>7. Stuck(e[m])
  <2>1. m \in I
    <3> HIDE DEF I
    <3> QED BY <1>1, <1>5, <1>6, Induct
  <2> SUFFICES ASSUME ~ Stuck(e[m]) PROVE FALSE  OBVIOUS
  <2>2. Good(e[m], kinds) /\ e[m].items \in Seq(Items)  BY <1>1, <1>4 DEF S, Good, FieldSet
  <2>3. Len(e[m].items) + m = m  BY <2>1
  <2>4. Len(e[m].items) = 0
    <3> DEFINE x == Len(e[m].items)
    <3>1. x \in Nat  BY <2>2
    <3>2. x + m = m  BY <2>3
    <3>3. m \in Nat  BY <1>1
    <3> HIDE DEF x, m
    <3>4. x = 0  BY <3>1, <3>2, <3>3
    <3> QED BY <3>4 DEF x
  <2>5. Deltas(e[m].items) # {}  BY DEF Stuck
  <2>6. Oldest(e[m].items) \in 1 .. 0  BY <2>2, <2>4, <2>5, OldestIsThere
  <2> QED BY <2>6
<1>8. MakesRoom(q) = e[m]  BY DEF MakesRoom, e
<1>9. e[m] \in S  BY <1>1, <1>4
<1> QED BY <1>7, <1>8, <1>9 DEF S

(* An item is put at the end, with the losses the queue has yet to tell.    *)
LEMMA AppendsGood ==
  ASSUME NEW q, NEW kinds, Good(q, kinds), q.pending = NoItem,
         Len(q.items) >= MaxItems => ~ \E i \in 1 .. Len(q.items) : IsDelta(q.items[i]),
         NEW item \in Items, item.count = 0, Fits(item, kinds), Above(q, item.text),
         Len(q.items) >= MaxItems => ~ IsDelta(item)
  PROVE  LET r == AppendCounted(q, item)
         IN  /\ Good(r, kinds) /\ r.pending = NoItem /\ r.lost = q.lost
             /\ Len(r.items) = Len(q.items) + 1
             /\ Carried(r) = Carried(q) \cup ToSet(item.text)
<1> DEFINE new == Counted(q, item)
           r == AppendCounted(q, item)
           longer == Append(q.items, new)
           m == Len(q.items)
<1>1. q \in FieldSet /\ q.items \in Seq(Items) /\ m \in Nat /\ MaxItems \in Nat
        /\ q.dropped \in Nat /\ q.lost \in Nat
  BY QueueAssumption DEF Good, FieldSet
<1>2. /\ new \in Items /\ new.text = item.text /\ new.type = item.type
      /\ new.count = q.dropped
  <2>1. item \in [type : {"delta", "event"}, key : Keys \cup {"none"}, text : Seq(Nat), count : Nat]
    BY DEF Items
  <2>2. new = [item EXCEPT !.count = IF q.dropped > 0 THEN q.dropped ELSE item.count]
    BY DEF Counted
  <2>3. new.count = IF q.dropped > 0 THEN q.dropped ELSE item.count  BY <2>1, <2>2
  <2>4. new.count = q.dropped  BY <1>1, <2>3
  <2>5. new.text = item.text /\ new.type = item.type  BY <2>1, <2>2
  <2>6. new \in Items  BY <1>1, <2>1, <2>2 DEF Items
  <2> QED BY <2>4, <2>5, <2>6
<1>3. /\ r.items = longer /\ r.pending = q.pending /\ r.dropped = 0 /\ r.lost = q.lost
      /\ r \in FieldSet
  <2>1. longer \in Seq(Items)  BY <1>1, <1>2
  <2>2. r = [q EXCEPT !.items = longer, !.dropped = 0]  BY DEF AppendCounted
  <2> HIDE DEF longer, r
  <2> QED BY <1>1, <2>1, <2>2 DEF FieldSet
<1> HIDE DEF new, r
<1>4. /\ longer \in Seq(Items) /\ Len(longer) = m + 1 /\ longer[m + 1] = new
      /\ \A i \in 1 .. m : longer[i] = q.items[i]
  BY <1>1, <1>2
<1>5. CountsIn(longer) = CountsIn(q.items) + q.dropped
  BY <1>1, <1>2, CountsAppended
<1> HIDE DEF longer, m
<1>6. Tells(r)
  <2>1. CountsIn(q.items) \in Nat  BY <1>1, CountTurns DEF CountsIn, m
  <2>2. told \in Nat /\ Tells(q)  BY DEF Good
  <2> DEFINE a == CountsIn(q.items)
  <2>3. told + a + q.dropped <= q.lost /\ (q.lost > 0 => told + a + q.dropped > 0)
    BY <2>2 DEF Tells
  <2>4. a \in Nat  BY <2>1
  <2> HIDE DEF a
  <2>5. told + (a + q.dropped) + 0 = told + a + q.dropped  BY <1>1, <2>2, <2>4
  <2> QED BY <1>3, <1>5, <2>3, <2>5 DEF Tells, a
<1>7. \A i \in 1 .. m + 1 : i \in 1 .. m \/ i = m + 1  BY <1>1 DEF m
<1>8. \A i \in 1 .. m : Precedes(q.items[i], item)  BY <1>1, AboveItems DEF m
<1>9. Fits(new, kinds) /\ (IsDelta(new) <=> IsDelta(item))
        /\ (\A a : Precedes(a, new) <=> Precedes(a, item))
  BY <1>2 DEF Fits, Whole, IsDelta, Precedes
<1>10. \A a : Precedes(a, NoItem)  BY DEF Precedes, NoItem, Item
<1>11. Good(r, kinds)
  <2>1. \A i \in 1 .. m + 1 : Fits(longer[i], kinds) /\ Precedes(longer[i], q.pending)
    BY <1>4, <1>7, <1>9, <1>10 DEF Good, m
  <2>2. ASSUME NEW i \in 1 .. m + 1, NEW j \in 1 .. m + 1, i < j
        PROVE  Precedes(longer[i], longer[j])
    <3>1. i \in 1 .. m  BY <1>1, <2>2 DEF m
    <3>2. CASE j \in 1 .. m
      <4>1. longer[i] = q.items[i] /\ longer[j] = q.items[j]  BY <1>4, <3>1, <3>2
      <4> QED BY <2>2, <3>1, <3>2, <4>1 DEF Good, m
    <3>3. CASE j = m + 1  BY <1>4, <1>8, <1>9, <3>1, <3>3
    <3> QED BY <1>7, <3>2, <3>3
  <2>3. m + 1 > MaxItems => \A i \in 1 .. m + 1 : ~ IsDelta(longer[i])
    <3> SUFFICES ASSUME m + 1 > MaxItems, NEW i \in 1 .. m + 1 PROVE ~ IsDelta(longer[i])
      OBVIOUS
    <3>1. Len(q.items) >= MaxItems  BY <1>1 DEF m
    <3>2. \A n \in 1 .. m : ~ IsDelta(q.items[n])  BY <3>1 DEF m
    <3> QED BY <1>4, <1>7, <1>9, <3>1, <3>2
  <2>4. Fits(q.pending, kinds) /\ told \in Nat  BY DEF Good
  <2> QED BY <1>3, <1>4, <1>6, <2>1, <2>2, <2>3, <2>4 DEF Good
<1>12. Carried(r) = Carried(q) \cup ToSet(item.text)
  <2>1. \A n : n \in ToSet(item.text) <=> \E k \in DOMAIN item.text : n = item.text[k]
    BY DEF ToSet
  <2>2. \A n : n \in Carried(r) <=>
          \/ \E i \in 1 .. m + 1 : \E k \in DOMAIN longer[i].text : n = longer[i].text[k]
          \/ \E k \in DOMAIN q.pending.text : n = q.pending.text[k]
    BY <1>3, <1>4, CarriedItem
  <2>3. \A n : n \in Carried(q) <=>
          \/ \E i \in 1 .. m : \E k \in DOMAIN q.items[i].text : n = q.items[i].text[k]
          \/ \E k \in DOMAIN q.pending.text : n = q.pending.text[k]
    BY <1>1, CarriedItem DEF m
  <2>4. m \in Nat /\ m + 1 \in 1 .. m + 1 /\ 1 .. m \subseteq 1 .. m + 1  BY <1>1 DEF m
  <2>5. ASSUME NEW n \in Carried(r) PROVE n \in Carried(q) \cup ToSet(item.text)
    <3>1. CASE \E k \in DOMAIN q.pending.text : n = q.pending.text[k]  BY <2>3, <3>1
    <3>2. CASE \E i \in 1 .. m + 1 : \E k \in DOMAIN longer[i].text : n = longer[i].text[k]
      <4>1. PICK i \in 1 .. m + 1 : \E k \in DOMAIN longer[i].text : n = longer[i].text[k]
        BY <3>2
      <4>2. CASE i \in 1 .. m  BY <1>4, <2>3, <4>1, <4>2
      <4>3. CASE i = m + 1  BY <1>2, <1>4, <2>1, <4>1, <4>3
      <4> QED BY <1>7, <4>2, <4>3
    <3> QED BY <2>2, <3>1, <3>2
  <2>6. ASSUME NEW n \in Carried(q) \cup ToSet(item.text) PROVE n \in Carried(r)
    <3>1. CASE n \in Carried(q)  BY <1>4, <2>2, <2>3, <2>4, <3>1
    <3>2. CASE n \in ToSet(item.text)  BY <1>2, <1>4, <2>1, <2>2, <2>4, <3>2
    <3> QED BY <3>1, <3>2
  <2> QED BY <2>5, <2>6
<1> QED BY <1>3, <1>4, <1>11, <1>12 DEF r, m

(* _enqueue, of an item that comes after all that is queued.               *)
LEMMA EnqueueGood ==
  ASSUME NEW q, NEW kinds, Good(q, kinds), q.pending = NoItem,
         NEW item \in Items, item.count = 0, Fits(item, kinds), Above(q, item.text)
  PROVE  LET r == Enqueue(q, item)
         IN  /\ Good(r, kinds) /\ r.pending = NoItem
             /\ Changes(q, r, ToSet(item.text), kinds)
<1>1. q \in FieldSet /\ q.items \in Seq(Items) /\ Len(q.items) \in Nat /\ MaxItems \in Nat
        /\ q.dropped \in Nat /\ q.lost \in Nat
  BY QueueAssumption DEF Good, FieldSet
<1>2. CASE Refuses(q, item)
  <2> DEFINE r == [q EXCEPT !.dropped = @ + 1, !.lost = @ + 1]
  <2>1. Enqueue(q, item) = r  BY <1>2 DEF Enqueue
  <2>2. Len(q.items) >= MaxItems /\ IsDelta(item)  BY <1>2 DEF Refuses
  <2>3. /\ r.items = q.items /\ r.pending = q.pending /\ r.dropped = q.dropped + 1
        /\ r.lost = q.lost + 1 /\ r \in FieldSet
    <3>1. q \in [items : Seq(Items), pending : Pendings \cup {NoItem}, dropped : Nat, lost : Nat]
      BY <1>1 DEF FieldSet
    <3>2. q.dropped + 1 \in Nat /\ q.lost + 1 \in Nat  BY <1>1
    <3>3. r = [q EXCEPT !.dropped = q.dropped + 1, !.lost = q.lost + 1]  OBVIOUS
    <3> HIDE DEF r
    <3> QED BY <3>1, <3>2, <3>3 DEF FieldSet
  <2> HIDE DEF r
  <2>4. Tells(r)
    <3>1. CountsIn(q.items) \in Nat  BY <1>1, CountTurns DEF CountsIn
    <3>2. told \in Nat /\ Tells(q)  BY DEF Good
    <3> DEFINE a == CountsIn(q.items)
    <3>3. told + a + q.dropped <= q.lost  BY <3>2 DEF Tells
    <3>4. a \in Nat  BY <3>1
    <3> HIDE DEF a
    <3>5. told + a + (q.dropped + 1) <= q.lost + 1 /\ told + a + (q.dropped + 1) > 0
      BY <1>1, <3>2, <3>3, <3>4
    <3> QED BY <2>3, <3>5 DEF Tells, a
  <2>5. Good(r, kinds)  BY <2>3, <2>4 DEF Good
  <2>6. Carried(r) = Carried(q)  BY <2>3 DEF Carried
  <2>7. \A n \in ToSet(item.text) : kinds[n] = "delta"
    <3>1. \A n \in ToSet(item.text) : \E k \in DOMAIN item.text : n = item.text[k]  BY DEF ToSet
    <3> QED BY <2>2, <3>1 DEF Fits, Whole, IsDelta
  <2>8. Changes(q, r, ToSet(item.text), kinds)
    BY <2>2, <2>3, <2>6, <2>7 DEF Changes, Loses
  <2> QED BY <2>1, <2>3, <2>5, <2>8
<1>3. CASE ~ Refuses(q, item)
  <2> DEFINE p == MakesRoom(q)
             r == AppendCounted(p, item)
  <2>1. Enqueue(q, item) = r  BY <1>3 DEF Enqueue
  <2>2. /\ Good(p, kinds) /\ Stuck(p) /\ Loses(q, p, {}, kinds) /\ p.pending = q.pending
        /\ Len(q.items) >= MaxItems => Len(p.items) + 1 >= MaxItems
        /\ Len(q.items) < MaxItems => p = q
    BY RoomMade
  <2> HIDE DEF p
  <2>3. p.items \in Seq(Items) /\ Len(p.items) \in Nat /\ DOMAIN p.items = 1 .. Len(p.items)
    BY <2>2 DEF Good, FieldSet
  <2>4. Len(p.items) >= MaxItems => ~ \E i \in 1 .. Len(p.items) : IsDelta(p.items[i])
    BY <2>2, <2>3 DEF Stuck, Crowded, Deltas
  <2>5. Above(p, item.text)
    <3>1. Carried(p) \subseteq Carried(q)  BY <2>2 DEF Loses
    <3> QED BY <3>1, AboveStays
  <2>6. Len(p.items) >= MaxItems => ~ IsDelta(item)
    <3> SUFFICES ASSUME Len(p.items) >= MaxItems PROVE ~ IsDelta(item)  OBVIOUS
    <3>1. Len(q.items) >= MaxItems  BY <1>1, <2>2
    <3> QED BY <1>3, <3>1 DEF Refuses
  <2>7. /\ Good(r, kinds) /\ r.pending = NoItem /\ r.lost = p.lost
        /\ Len(r.items) = Len(p.items) + 1
        /\ Carried(r) = Carried(p) \cup ToSet(item.text)
    BY <2>2, <2>4, <2>5, <2>6, AppendsGood
  <2> HIDE DEF r
  <2>8. Loses(q, r, ToSet(item.text), kinds)  BY <2>2, <2>7 DEF Loses
  <2>9. Len(q.items) >= MaxItems => Len(r.items) >= MaxItems  BY <1>1, <2>2, <2>3, <2>7
  <2>10. r.lost # q.lost => Len(r.items) >= MaxItems  BY <1>1, <2>2, <2>7, <2>9
  <2>11. Changes(q, r, ToSet(item.text), kinds)  BY <2>8, <2>9, <2>10 DEF Changes
  <2> QED BY <2>1, <2>7, <2>11
<1> QED BY <1>2, <1>3

-----------------------------------------------------------------------------
(* What is held back.                                                      *)

Queued(q) == UNION {ToSet(q.items[i].text) : i \in DOMAIN q.items}

LEMMA InTexts == \A text, n : n \in ToSet(text) <=> \E k \in DOMAIN text : n = text[k]
  BY DEF ToSet

(* Another item is held back.                                              *)
LEMMA HoldsGood ==
  ASSUME NEW q, NEW kinds, Good(q, kinds), NEW item \in Pendings \cup {NoItem},
         Fits(item, kinds), \A i \in 1 .. Len(q.items) : Precedes(q.items[i], item)
  PROVE  LET r == [q EXCEPT !.pending = item]
         IN  /\ Good(r, kinds) /\ r.pending = item /\ r.items = q.items /\ r.lost = q.lost
             /\ Carried(r) = Queued(q) \cup ToSet(item.text)
             /\ Carried(q) = Queued(q) \cup ToSet(q.pending.text)
<1> DEFINE r == [q EXCEPT !.pending = item]
<1>1. q \in [items : Seq(Items), pending : Pendings \cup {NoItem}, dropped : Nat, lost : Nat]
  BY DEF Good, FieldSet
<1>2. /\ r.pending = item /\ r.items = q.items /\ r.lost = q.lost /\ r.dropped = q.dropped
      /\ r \in FieldSet
  BY <1>1 DEF FieldSet
<1> HIDE DEF r
<1>3. Good(r, kinds)
  <2>1. Tells(r)  BY <1>2 DEF Good, Tells
  <2>2. \A i \in 1 .. Len(q.items) : Fits(q.items[i], kinds)  BY DEF Good
  <2>3. \A i, j \in 1 .. Len(q.items) : i < j => Precedes(q.items[i], q.items[j])  BY DEF Good
  <2>4. Len(q.items) > MaxItems => \A i \in 1 .. Len(q.items) : ~ IsDelta(q.items[i])
    BY DEF Good
  <2>5. told \in Nat  BY DEF Good
  <2> QED BY <1>2, <2>1, <2>2, <2>3, <2>4, <2>5 DEF Good
<1>4. Carried(r) = Queued(q) \cup ToSet(item.text)  BY <1>2 DEF Carried, Queued
<1>5. Carried(q) = Queued(q) \cup ToSet(q.pending.text)  BY DEF Carried, Queued
<1> QED BY <1>2, <1>3, <1>4, <1>5 DEF r

LEMMA NothingHeld ==
  /\ NoItem.text = <<>> /\ ToSet(NoItem.text) = {}
  /\ \A kinds : Fits(NoItem, kinds)
  /\ \A a : Precedes(a, NoItem)
<1>1. NoItem.text = <<>>  BY DEF NoItem, Item
<1>2. ToSet(NoItem.text) = {}  BY <1>1, InTexts
<1>3. ASSUME NEW kinds PROVE Fits(NoItem, kinds)
  BY <1>1, QueueAssumption DEF Fits, Whole, Rising
<1>4. \A a : Precedes(a, NoItem)  BY <1>1 DEF Precedes
<1> QED BY <1>1, <1>2, <1>3, <1>4

(* _flush_pending.                                                         *)
LEMMA FlushGood ==
  ASSUME NEW q, NEW kinds, Good(q, kinds)
  PROVE  LET r == FlushPending(q)
         IN  /\ Good(r, kinds) /\ r.pending = NoItem /\ Changes(q, r, {}, kinds)
             /\ q.pending = NoItem => r = q
<1>1. CASE q.pending = NoItem
  BY <1>1 DEF FlushPending, Changes, Loses
<1>2. CASE q.pending # NoItem
  <2> DEFINE p == [q EXCEPT !.pending = NoItem]
             item == q.pending
             r == Enqueue(p, item)
  <2>1. FlushPending(q) = r  BY <1>2 DEF FlushPending
  <2>2. /\ Good(p, kinds) /\ p.pending = NoItem /\ p.items = q.items /\ p.lost = q.lost
        /\ Carried(p) = Queued(q)
        /\ Carried(q) = Queued(q) \cup ToSet(item.text)
    <3>1. NoItem \in Pendings \cup {NoItem}  OBVIOUS
    <3>2. Fits(NoItem, kinds) /\ \A i \in 1 .. Len(q.items) : Precedes(q.items[i], NoItem)
      BY NothingHeld
    <3>3. ToSet(NoItem.text) = {}  BY NothingHeld
    <3> HIDE DEF p
    <3>4. /\ Good(p, kinds) /\ p.pending = NoItem /\ p.items = q.items /\ p.lost = q.lost
          /\ Carried(p) = Queued(q) \cup ToSet(NoItem.text)
          /\ Carried(q) = Queued(q) \cup ToSet(item.text)
      BY <3>1, <3>2, HoldsGood DEF p
    <3> QED BY <3>3, <3>4
  <2> HIDE DEF p
  <2>3. item \in Pendings /\ item \in Items /\ item.count = 0
    <3>1. item \in Pendings  BY <1>2 DEF Good, FieldSet
    <3> HIDE DEF item
    <3>2. item \in [type : {"delta"}, key : Keys, text : Seq(Nat), count : {0}]
      BY <3>1 DEF Pendings
    <3> QED BY <3>1, <3>2 DEF Items
  <2>4. Fits(item, kinds) /\ \A i \in 1 .. Len(q.items) : Precedes(q.items[i], item)
    BY DEF Good
  <2>5. Above(p, item.text)
    <3> SUFFICES ASSUME NEW n \in Carried(p), NEW k \in DOMAIN item.text PROVE n < item.text[k]
      BY DEF Above
    <3>1. p.items \in Seq(Items)  BY <2>2 DEF Good, FieldSet
    <3>2. PICK i \in 1 .. Len(q.items) : \E j \in DOMAIN q.items[i].text : n = q.items[i].text[j]
      <4>1. \E i \in 1 .. Len(q.items) : \E j \in DOMAIN q.items[i].text : n = q.items[i].text[j]
        BY <2>2, <3>1, CarriedItem, NothingHeld
      <4> QED BY <4>1
    <3> QED BY <2>4, <3>2 DEF Precedes
  <2>6. Good(r, kinds) /\ r.pending = NoItem /\ Changes(p, r, ToSet(item.text), kinds)
    BY <2>2, <2>3, <2>4, <2>5, EnqueueGood
  <2> HIDE DEF r, item
  <2>7. Changes(q, r, {}, kinds)
    <3>1. Carried(p) \cup ToSet(item.text) = Carried(q) \cup {}  BY <2>2
    <3> QED BY <2>2, <2>6, <3>1 DEF Changes, Loses
  <2> QED BY <1>2, <2>1, <2>6, <2>7
<1> QED BY <1>1, <1>2

(* _start_pending, of a text that comes after all that is queued.          *)
LEMMA StartGood ==
  ASSUME NEW q, NEW kinds, Good(q, kinds), q.pending = NoItem,
         NEW item \in Pendings, Fits(item, kinds), Above(q, item.text)
  PROVE  LET r == StartPending(q, item)
         IN  Good(r, kinds) /\ Changes(q, r, ToSet(item.text), kinds)
<1> DEFINE p == [q EXCEPT !.pending = item]
           r == StartPending(q, item)
<1>1. \A i \in 1 .. Len(q.items) : Precedes(q.items[i], item)
  <2>1. q.items \in Seq(Items)  BY DEF Good, FieldSet
  <2> QED BY <2>1, AboveItems
<1>2. /\ Good(p, kinds) /\ p.pending = item /\ p.items = q.items /\ p.lost = q.lost
      /\ Carried(p) = Queued(q) \cup ToSet(item.text)
      /\ Carried(q) = Queued(q) \cup ToSet(q.pending.text)
  <2>1. item \in Pendings \cup {NoItem}  OBVIOUS
  <2> QED BY <1>1, <2>1, HoldsGood
<1>3. r = IF coalesces THEN p ELSE FlushPending(p)  BY DEF StartPending
<1> HIDE DEF p, r
<1>4. Changes(q, p, ToSet(item.text), kinds)
  <2>1. Carried(p) = Carried(q) \cup ToSet(item.text)  BY <1>2, NothingHeld
  <2> QED BY <1>2, <2>1 DEF Changes, Loses
<1>5. CASE ~ coalesces
  <2> DEFINE f == FlushPending(p)
  <2>1. Good(f, kinds) /\ Changes(p, f, {}, kinds)  BY <1>2, FlushGood
  <2> HIDE DEF f
  <2>2. Changes(q, f, ToSet(item.text) \cup {}, kinds)  BY <1>4, <2>1, ChangesFollow
  <2>3. ToSet(item.text) \cup {} = ToSet(item.text)  OBVIOUS
  <2>4. r = f  BY <1>3, <1>5 DEF f
  <2> QED BY <2>1, <2>2, <2>3, <2>4 DEF r
<1> QED BY <1>2, <1>3, <1>4, <1>5 DEF r

-----------------------------------------------------------------------------
(* _put_delta.                                                             *)

(* A text of deltas' numbers, for a block.                                 *)
Text(text, kinds) ==
  /\ text \in Seq(Nat)
  /\ Rising(text)
  /\ \A k \in 1 .. Len(text) : text[k] \in 1 .. Len(kinds) /\ kinds[text[k]] = "delta"

LEMMA TextIsHeld ==
  ASSUME NEW kinds, NEW text, Text(text, kinds), NEW key \in Keys, Len(text) <= MaxDeltaChars
  PROVE  LET item == Item("delta", key, text)
         IN  item \in Pendings /\ Fits(item, kinds) /\ item.text = text
<1> DEFINE item == Item("delta", key, text)
<1>1. item = [type |-> "delta", key |-> key, text |-> text, count |-> 0]  BY DEF Item
<1>2. item.type = "delta" /\ item.text = text  BY <1>1
<1>3. item \in Pendings  BY <1>1 DEF Pendings, Text
<1>4. DOMAIN text = 1 .. Len(text)  BY DEF Text
<1> HIDE DEF item
<1>5. Fits(item, kinds)  BY <1>2, <1>4 DEF Fits, Whole, Text
<1> QED BY <1>2, <1>3, <1>5 DEF item

(* A piece of the text.                                                    *)
LEMMA PutPieceGood ==
  ASSUME NEW q, NEW kinds, Good(q, kinds), NEW key \in Keys, NEW text, Text(text, kinds),
         Above(q, text), Len(text) <= Room(q, key)
  PROVE  LET r == PutPiece(q, key, text)
         IN  Good(r, kinds) /\ Changes(q, r, ToSet(text), kinds)
<1> DEFINE r == PutPiece(q, key, text)
<1>1. CASE OtherBlock(q, key) \/ Len(q.pending.text) >= MaxDeltaChars
  <2> DEFINE p == FlushPending(q)
             item == Item("delta", key, text)
  <2>1. r = StartPending(p, item)  BY <1>1 DEF PutPiece
  <2>2. Len(text) <= MaxDeltaChars  BY <1>1 DEF Room
  <2>3. item \in Pendings /\ Fits(item, kinds) /\ item.text = text  BY <2>2, TextIsHeld
  <2>4. Good(p, kinds) /\ p.pending = NoItem /\ Changes(q, p, {}, kinds)  BY FlushGood
  <2> HIDE DEF p, item, r
  <2>5. Above(p, text)
    <3>1. Carried(p) \subseteq Carried(q)  BY <2>4 DEF Changes, Loses
    <3> QED BY <3>1, AboveStays
  <2>6. Good(r, kinds) /\ Changes(p, r, ToSet(text), kinds)
    <3>1. Above(p, item.text)  BY <2>3, <2>5
    <3>2. Good(StartPending(p, item), kinds) /\ Changes(p, StartPending(p, item), ToSet(item.text), kinds)
      BY <2>3, <2>4, <3>1, StartGood
    <3> QED BY <2>1, <2>3, <3>2
  <2>7. Changes(q, r, {} \cup ToSet(text), kinds)  BY <2>4, <2>6, ChangesFollow
  <2>8. {} \cup ToSet(text) = ToSet(text)  OBVIOUS
  <2> QED BY <2>6, <2>7, <2>8 DEF r
<1>2. CASE ~ (OtherBlock(q, key) \/ Len(q.pending.text) >= MaxDeltaChars)
  <2> DEFINE old == q.pending.text
             all == old \o text
             item == [q.pending EXCEPT !.text = all]
             p == [q EXCEPT !.pending = item]
  <2>1. q \in FieldSet /\ q.items \in Seq(Items) /\ q.pending \in Pendings
    BY <1>2 DEF Good, FieldSet, OtherBlock
  <2>2. q.pending \in [type : {"delta"}, key : Keys, text : Seq(Nat), count : {0}]
    BY <2>1 DEF Pendings
  <2>3. old \in Seq(Nat) /\ text \in Seq(Nat) /\ q.pending.type = "delta"  BY <2>2 DEF Text
  <2>4. /\ all \in Seq(Nat) /\ Len(all) = Len(old) + Len(text)
        /\ \A n \in 1 .. Len(old) : all[n] = old[n]
        /\ \A n \in Len(old) + 1 .. Len(old) + Len(text) : all[n] = text[n - Len(old)]
    BY <2>3, Joined
  <2>5. item \in Pendings /\ item.text = all /\ item.type = "delta"
    <3>1. all \in Seq(Nat)  BY <2>4
    <3> HIDE DEF all
    <3> QED BY <2>2, <3>1 DEF Pendings
  <2>6. /\ Len(old) \in Nat /\ Len(text) \in Nat
        /\ DOMAIN old = 1 .. Len(old) /\ DOMAIN text = 1 .. Len(text)
        /\ DOMAIN all = 1 .. Len(old) + Len(text)
    <3>1. all \in Seq(Nat) /\ Len(all) = Len(old) + Len(text)  BY <2>4
    <3>2. DOMAIN all = 1 .. Len(all)  BY <3>1
    <3> QED BY <2>3, <3>1, <3>2
  <2>7. p = [q EXCEPT !.pending.text = @ \o text]
    <3>1. q \in [items : Seq(Items), pending : Pendings \cup {NoItem}, dropped : Nat, lost : Nat]
      BY <2>1 DEF FieldSet
    <3> QED BY <2>2, <3>1
  <2>8. /\ Fits(q.pending, kinds)
        /\ \A i \in 1 .. Len(q.items) : Precedes(q.items[i], q.pending)
    BY DEF Good
  <2>9. Above(q, text) /\ ToSet(old) \subseteq Carried(q)
    BY <2>1, CarriedItem
  <2>10. r = IF Len(p.pending.text) >= MaxDeltaChars THEN FlushPending(p) ELSE p
    <3> HIDE DEF p, item, all, old
    <3> QED BY <1>2, <2>7 DEF PutPiece
  <2>11. \A k \in 1 .. Len(old), l \in 1 .. Len(text) : old[k] < text[l]
    BY <2>6, <2>9, InTexts DEF Above
  <2> HIDE DEF p, r
  <2>12. \A n \in 1 .. Len(old) + Len(text) :
           \/ n \in 1 .. Len(old) /\ all[n] = old[n]
           \/ n - Len(old) \in 1 .. Len(text) /\ all[n] = text[n - Len(old)]
    BY <2>4, <2>6
  <2>13. Fits(item, kinds)
    <3>1. Len(all) <= MaxDeltaChars
      <4>1. Len(text) <= MaxDeltaChars - Len(old)  BY <1>2 DEF Room
      <4>2. MaxDeltaChars \in Nat  BY QueueAssumption
      <4>3. Len(all) = Len(old) + Len(text)  BY <2>4
      <4> HIDE DEF all, old
      <4> QED BY <2>6, <4>1, <4>2, <4>3
    <3>2. Rising(all)
      <4> SUFFICES ASSUME NEW m \in 1 .. Len(old) + Len(text), NEW n \in 1 .. Len(old) + Len(text),
                          m < n
                   PROVE  all[m] < all[n]
        BY <2>6 DEF Rising
      <4>1. Rising(old) /\ Rising(text)  BY <2>8 DEF Fits, Whole, Text
      <4> HIDE DEF old, all
      <4>2. CASE n \in 1 .. Len(old)
        <5>1. m \in 1 .. Len(old)  BY <2>6, <4>2
        <5> QED BY <2>4, <2>6, <4>1, <4>2, <5>1 DEF Rising
      <4>3. CASE n \notin 1 .. Len(old) /\ m \in 1 .. Len(old)
        <5>1. n - Len(old) \in 1 .. Len(text) /\ all[n] = text[n - Len(old)]  BY <2>12, <4>3
        <5> QED BY <2>4, <2>11, <4>3, <5>1
      <4>4. CASE n \notin 1 .. Len(old) /\ m \notin 1 .. Len(old)
        <5>1. n - Len(old) \in 1 .. Len(text) /\ all[n] = text[n - Len(old)]  BY <2>12, <4>4
        <5>2. m - Len(old) \in 1 .. Len(text) /\ all[m] = text[m - Len(old)]  BY <2>12, <4>4
        <5>3. m - Len(old) < n - Len(old)  BY <2>6
        <5> QED BY <2>6, <4>1, <5>1, <5>2, <5>3 DEF Rising
      <4> QED BY <4>2, <4>3, <4>4
    <3>3. \A n \in DOMAIN all : all[n] \in 1 .. Len(kinds) /\ kinds[all[n]] = "delta"
      <4>1. \A k \in 1 .. Len(old) : old[k] \in 1 .. Len(kinds) /\ kinds[old[k]] = "delta"
        BY <2>3, <2>6, <2>8 DEF Fits, Whole
      <4>2. \A k \in 1 .. Len(text) : text[k] \in 1 .. Len(kinds) /\ kinds[text[k]] = "delta"
        BY DEF Text
      <4> HIDE DEF old, all
      <4> QED BY <2>6, <2>12, <4>1, <4>2
    <3> HIDE DEF all, item
    <3> QED BY <2>5, <3>1, <3>2, <3>3 DEF Fits, Whole
  <2>14. \A i \in 1 .. Len(q.items) : Precedes(q.items[i], item)
    <3> SUFFICES ASSUME NEW i \in 1 .. Len(q.items), NEW j \in DOMAIN q.items[i].text,
                        NEW n \in 1 .. Len(old) + Len(text)
                 PROVE  q.items[i].text[j] < all[n]
      BY <2>5, <2>6 DEF Precedes
    <3>1. q.items[i].text[j] \in Carried(q)  BY <2>1, CarriedItem
    <3>2. Precedes(q.items[i], q.pending)  BY <2>8
    <3>3. \A k \in 1 .. Len(old) : q.items[i].text[j] < old[k]  BY <2>6, <3>2 DEF Precedes
    <3>4. \A k \in 1 .. Len(text) : q.items[i].text[j] < text[k]  BY <2>6, <2>9, <3>1 DEF Above
    <3> HIDE DEF old, all
    <3> QED BY <2>12, <3>3, <3>4
  <2>15. /\ Good(p, kinds) /\ p.pending = item /\ p.items = q.items /\ p.lost = q.lost
         /\ Carried(p) = Queued(q) \cup ToSet(item.text)
         /\ Carried(q) = Queued(q) \cup ToSet(q.pending.text)
    <3>1. item \in Pendings \cup {NoItem}  BY <2>5
    <3> HIDE DEF item
    <3> QED BY <2>13, <2>14, <3>1, HoldsGood DEF p
  <2>16. ToSet(all) = ToSet(old) \cup ToSet(text)
    <3>1. \A n \in ToSet(all) : n \in ToSet(old) \cup ToSet(text)
      <4> HIDE DEF old, all
      <4> QED BY <2>6, <2>12, InTexts
    <3>2. \A n \in ToSet(old) : n \in ToSet(all)
      <4> HIDE DEF old, all
      <4>1. 1 .. Len(old) \subseteq 1 .. Len(old) + Len(text)  BY <2>6
      <4> QED BY <2>4, <2>6, <4>1, InTexts
    <3>3. ASSUME NEW n \in ToSet(text) PROVE n \in ToSet(all)
      <4>1. PICK k \in 1 .. Len(text) : n = text[k]  BY <2>6, InTexts
      <4> HIDE DEF old, all
      <4>2. k + Len(old) \in Len(old) + 1 .. Len(old) + Len(text) /\ (k + Len(old)) - Len(old) = k
              /\ k + Len(old) \in 1 .. Len(old) + Len(text)
        BY <2>6
      <4>3. all[k + Len(old)] = text[k]  BY <2>4, <4>2
      <4> QED BY <2>6, <4>1, <4>2, <4>3, InTexts
    <3> QED BY <3>1, <3>2, <3>3
  <2>17. Changes(q, p, ToSet(text), kinds)
    <3>1. Carried(p) = Carried(q) \cup ToSet(text)  BY <2>5, <2>15, <2>16
    <3> QED BY <2>15, <3>1 DEF Changes, Loses
  <2>18. Good(FlushPending(p), kinds) /\ Changes(p, FlushPending(p), {}, kinds)
    BY <2>15, FlushGood
  <2>19. Changes(q, FlushPending(p), ToSet(text), kinds)
    <3> DEFINE f == FlushPending(p)
    <3>1. Changes(p, f, {}, kinds)  BY <2>18
    <3> HIDE DEF f
    <3>2. Changes(q, f, ToSet(text) \cup {}, kinds)  BY <2>17, <3>1, ChangesFollow
    <3>3. ToSet(text) \cup {} = ToSet(text)  OBVIOUS
    <3> QED BY <3>2, <3>3 DEF f
  <2> QED BY <2>10, <2>15, <2>17, <2>18, <2>19 DEF r
<1> QED BY <1>1, <1>2

(* One turn of the loop takes a piece of the rest, and puts it.             *)
LEMMA PieceGood ==
  ASSUME NEW at, NEW kinds, Good(at.q, kinds), NEW key \in Keys, Text(at.rest, kinds),
         Above(at.q, at.rest), at.rest # <<>>
  PROVE  LET next == Piece(at, key)
         IN  /\ Good(next.q, kinds) /\ Text(next.rest, kinds) /\ Above(next.q, next.rest)
             /\ Len(next.rest) < Len(at.rest)
             /\ \E new : /\ Changes(at.q, next.q, new, kinds)
                         /\ new \cup ToSet(next.rest) = ToSet(at.rest)
<1> DEFINE all == at.rest
           m == Len(all)
           size == IF Len(at.rest) < Room(at.q, key) THEN Len(at.rest) ELSE Room(at.q, key)
           first == SubSeq(all, 1, size)
           last == SubSeq(all, size + 1, m)
           next == Piece(at, key)
<1>1. next.q = PutPiece(at.q, key, first) /\ next.rest = last  BY DEF Piece
<1>2. all \in Seq(Nat) /\ m \in Nat /\ DOMAIN all = 1 .. m /\ m > 0  BY DEF Text
<1>3. size \in 1 .. m /\ size <= Room(at.q, key)
  <2>1. Room(at.q, key) \in Nat /\ Room(at.q, key) > 0
    <3>1. MaxDeltaChars \in Nat /\ MaxDeltaChars > 0  BY QueueAssumption
    <3>2. CASE OtherBlock(at.q, key) \/ Len(at.q.pending.text) >= MaxDeltaChars
      BY <3>1, <3>2 DEF Room
    <3>3. CASE ~ (OtherBlock(at.q, key) \/ Len(at.q.pending.text) >= MaxDeltaChars)
      <4>1. at.q.pending \in Pendings  BY <3>3 DEF Good, FieldSet, OtherBlock
      <4>2. Len(at.q.pending.text) \in Nat  BY <4>1 DEF Pendings
      <4>3. Room(at.q, key) = MaxDeltaChars - Len(at.q.pending.text)  BY <3>3 DEF Room
      <4> DEFINE l == Len(at.q.pending.text)
      <4>4. l \in Nat /\ ~ l >= MaxDeltaChars /\ Room(at.q, key) = MaxDeltaChars - l
        BY <3>3, <4>2, <4>3
      <4> HIDE DEF l
      <4> QED BY <3>1, <4>4
    <3> QED BY <3>2, <3>3
  <2> DEFINE room == Room(at.q, key)
  <2>2. room \in Nat /\ room > 0 /\ size = IF m < room THEN m ELSE room  BY <2>1
  <2> HIDE DEF room, m, size
  <2>3. size \in 1 .. m /\ size <= room  BY <1>2, <2>2
  <2> QED BY <2>3 DEF room
<1> HIDE DEF size, next
<1>4. /\ first \in Seq(Nat) /\ Len(first) = size
      /\ \A k \in 1 .. size : first[k] = all[k]
  BY <1>2, <1>3
<1>5. /\ last \in Seq(Nat) /\ Len(last) = m - size
      /\ \A k \in 1 .. m - size : last[k] = all[size + k]
  BY <1>2, <1>3
<1> HIDE DEF first, last
<1>6. DOMAIN first = 1 .. size /\ DOMAIN last = 1 .. m - size /\ size \in Nat /\ m - size \in Nat
        /\ m - size < m
  <2>1. DOMAIN first = 1 .. size  BY <1>4
  <2>2. DOMAIN last = 1 .. m - size  BY <1>5
  <2> HIDE DEF m
  <2> QED BY <1>2, <1>3, <2>1, <2>2
<1>7. /\ \A k \in 1 .. size : k \in 1 .. m
      /\ \A k \in 1 .. m - size : size + k \in 1 .. m /\ size < size + k
      /\ \A k \in 1 .. m : k \in 1 .. size \/ (k - size \in 1 .. m - size /\ size + (k - size) = k)
  <2> HIDE DEF m
  <2> QED BY <1>2, <1>3
<1> HIDE DEF m, all
<1>8. /\ Rising(all)
      /\ \A k \in 1 .. m : all[k] \in 1 .. Len(kinds) /\ kinds[all[k]] = "delta"
  BY DEF Text, all, m
<1>9. Text(first, kinds)
  <2>1. Rising(first)  BY <1>2, <1>4, <1>6, <1>7, <1>8 DEF Rising
  <2> QED BY <1>4, <1>7, <1>8, <2>1 DEF Text
<1>10. Text(last, kinds)
  <2>1. Rising(last)
    <3> SUFFICES ASSUME NEW j \in 1 .. m - size, NEW k \in 1 .. m - size, j < k
                 PROVE  last[j] < last[k]
      BY <1>6 DEF Rising
    <3>1. size + j \in 1 .. m /\ size + k \in 1 .. m /\ size + j < size + k
      BY <1>6, <1>7
    <3>2. last[j] = all[size + j] /\ last[k] = all[size + k]  BY <1>5
    <3> QED BY <1>2, <1>8, <3>1, <3>2 DEF Rising
  <2> QED BY <1>5, <1>7, <1>8, <2>1 DEF Text
<1>11. ToSet(all) = ToSet(first) \cup ToSet(last)
  <2>1. ASSUME NEW n \in ToSet(all) PROVE n \in ToSet(first) \cup ToSet(last)
    <3>1. PICK k \in 1 .. m : n = all[k]  BY <1>2, InTexts
    <3>2. CASE k \in 1 .. size  BY <1>4, <1>6, <3>1, <3>2, InTexts
    <3>3. CASE k \notin 1 .. size
      <4>1. k - size \in 1 .. m - size /\ last[k - size] = all[k]
        <5>1. k - size \in 1 .. m - size /\ size + (k - size) = k  BY <1>7, <3>3
        <5> QED BY <1>5, <5>1
      <4> QED BY <1>6, <3>1, <4>1, InTexts
    <3> QED BY <3>2, <3>3
  <2>2. \A n \in ToSet(first) : n \in ToSet(all)  BY <1>2, <1>4, <1>6, <1>7, InTexts
  <2>3. \A n \in ToSet(last) : n \in ToSet(all)  BY <1>2, <1>5, <1>6, <1>7, InTexts
  <2> QED BY <2>1, <2>2, <2>3
<1>12. Above(at.q, first)
  <2>1. \A k \in 1 .. size : first[k] = all[k] /\ k \in DOMAIN all  BY <1>2, <1>4, <1>7
  <2>2. Above(at.q, all)  BY DEF all
  <2> QED BY <1>6, <2>1, <2>2 DEF Above
<1>13. Good(next.q, kinds) /\ Changes(at.q, next.q, ToSet(first), kinds)
  BY <1>1, <1>3, <1>4, <1>9, <1>12, PutPieceGood
<1>14. Above(next.q, last)
  <2> SUFFICES ASSUME NEW n \in Carried(next.q), NEW k \in 1 .. m - size PROVE n < last[k]
    BY <1>6 DEF Above
  <2>1. last[k] = all[size + k] /\ size + k \in 1 .. m /\ size < size + k  BY <1>5, <1>7
  <2>2. n \in Carried(at.q) \cup ToSet(first)  BY <1>13 DEF Changes, Loses
  <2>3. CASE n \in Carried(at.q)
    <3>1. Above(at.q, all)  BY DEF all
    <3> QED BY <1>2, <2>1, <2>3, <3>1 DEF Above
  <2>4. CASE n \in ToSet(first)
    <3>1. PICK j \in 1 .. size : n = all[j]  BY <1>4, <1>6, <2>4, InTexts
    <3>2. j \in 1 .. m /\ j < size + k  BY <1>6, <1>7
    <3> QED BY <1>2, <1>8, <2>1, <3>1, <3>2 DEF Rising
  <2> QED BY <2>2, <2>3, <2>4
<1> QED BY <1>1, <1>5, <1>6, <1>10, <1>11, <1>13, <1>14 DEF next, all, m

(* The whole loop.                                                         *)
LEMMA PutTextGood ==
  ASSUME NEW q, NEW kinds, Good(q, kinds), NEW key \in Keys, NEW text, Text(text, kinds),
         Above(q, text)
  PROVE  LET r == PutText(q, key, text)
         IN  Good(r, kinds) /\ Changes(q, r, ToSet(text), kinds)
<1> DEFINE e == Pieces(q, key, text)
           m == Len(text)
           S == {at \in [q : FieldSet, rest : Seq(Nat)] :
                   /\ Good(at.q, kinds) /\ Text(at.rest, kinds) /\ Above(at.q, at.rest)
                   /\ \E new : /\ Changes(q, at.q, new, kinds)
                               /\ new \cup ToSet(at.rest) = ToSet(text)}
           I == {n \in Nat : e[n].rest = <<>> \/ Len(e[n].rest) + n <= m}
<1>1. q \in FieldSet /\ text \in Seq(Nat) /\ m \in Nat  BY DEF Good, Text
<1>2. [q |-> q, rest |-> text] \in S
  <2>1. Changes(q, q, {}, kinds)  BY DEF Changes, Loses
  <2>2. {} \cup ToSet(text) = ToSet(text)  OBVIOUS
  <2>3. \E new : Changes(q, q, new, kinds) /\ new \cup ToSet(text) = ToSet(text)
    BY <2>1, <2>2
  <2> QED BY <1>1, <2>3
<1>3. ASSUME NEW at \in S, at.rest # <<>> PROVE Piece(at, key) \in S
  <2> DEFINE next == Piece(at, key)
  <2>1. /\ Good(at.q, kinds) /\ Text(at.rest, kinds) /\ Above(at.q, at.rest)
        /\ \E new : Changes(q, at.q, new, kinds) /\ new \cup ToSet(at.rest) = ToSet(text)
    OBVIOUS
  <2>2. PICK old : Changes(q, at.q, old, kinds) /\ old \cup ToSet(at.rest) = ToSet(text)
    BY <2>1
  <2>3. next = [q |-> next.q, rest |-> next.rest]  BY DEF Piece
  <2> HIDE DEF next
  <2>4. /\ Good(next.q, kinds) /\ Text(next.rest, kinds) /\ Above(next.q, next.rest)
        /\ \E new : /\ Changes(at.q, next.q, new, kinds)
                    /\ new \cup ToSet(next.rest) = ToSet(at.rest)
    BY <1>3, <2>1, PieceGood DEF next
  <2>5. PICK new : Changes(at.q, next.q, new, kinds) /\ new \cup ToSet(next.rest) = ToSet(at.rest)
    BY <2>4
  <2>6. Changes(q, next.q, old \cup new, kinds)  BY <2>2, <2>5, ChangesFollow
  <2>7. (old \cup new) \cup ToSet(next.rest) = ToSet(text)  BY <2>2, <2>5
  <2>8. next \in [q : FieldSet, rest : Seq(Nat)]
    <3>1. next.q \in FieldSet /\ next.rest \in Seq(Nat)  BY <2>4 DEF Good, Text
    <3> QED BY <2>3, <3>1
  <2>9. \E p : Changes(q, next.q, p, kinds) /\ p \cup ToSet(next.rest) = ToSet(text)
    BY <2>6, <2>7
  <2>10. next \in S  BY <2>4, <2>8, <2>9
  <2> QED BY <2>10 DEF next
<1> HIDE DEF S
<1>4. /\ e[0] = [q |-> q, rest |-> text]
      /\ \A n \in Nat : /\ e[n] \in S
                        /\ e[n + 1] = IF e[n].rest = <<>> THEN e[n] ELSE Piece(e[n], key)
  BY <1>2, <1>3, PieceTurns
<1> HIDE DEF e
<1>5. 0 \in I  BY <1>1, <1>4
<1>6. ASSUME NEW n \in Nat, n \in I PROVE n + 1 \in I
  <2>1. CASE e[n].rest = <<>>
    <3>1. e[n + 1] = e[n]  BY <1>4, <2>1
    <3> QED BY <2>1, <3>1
  <2>2. CASE e[n].rest # <<>>
    <3>1. Good(e[n].q, kinds) /\ Text(e[n].rest, kinds) /\ Above(e[n].q, e[n].rest)
      BY <1>4 DEF S
    <3>2. e[n + 1] = Piece(e[n], key)  BY <1>4, <2>2
    <3>3. Text(e[n + 1].rest, kinds) /\ Len(e[n + 1].rest) < Len(e[n].rest)
      BY <2>2, <3>1, <3>2, PieceGood
    <3> DEFINE x == Len(e[n].rest)
               y == Len(e[n + 1].rest)
    <3>4. x \in Nat  BY <3>1 DEF Text
    <3>5. y \in Nat  BY <3>3 DEF Text
    <3>6. y < x  BY <3>3
    <3>7. x + n <= m  BY <1>6, <2>2
    <3>8. y + (n + 1) <= m /\ n + 1 \in Nat
      <4> HIDE DEF x, y, m
      <4> QED BY <1>1, <3>4, <3>5, <3>6, <3>7
    <3> QED BY <3>8
  <2> QED BY <2>1, <2>2
<1>7. e[m].rest = <<>>
  <2>1. m \in I
    <3> HIDE DEF I
    <3> QED BY <1>1, <1>5, <1>6, Induct
  <2> SUFFICES ASSUME e[m].rest # <<>> PROVE FALSE  OBVIOUS
  <2>2. Text(e[m].rest, kinds)  BY <1>1, <1>4 DEF S
  <2>3. e[m].rest \in Seq(Nat)  BY <2>2 DEF Text
  <2> DEFINE x == Len(e[m].rest)
  <2>4. x \in Nat /\ x # 0  BY <2>3
  <2>5. x + m <= m  BY <2>1
  <2> HIDE DEF x, m
  <2> QED BY <1>1, <2>4, <2>5
<1>8. PutText(q, key, text) = e[m].q  BY DEF PutText, e
<1>9. e[m] \in S  BY <1>1, <1>4
<1>10. Good(e[m].q, kinds) /\ \E new : Changes(q, e[m].q, new, kinds) /\ new \cup ToSet(e[m].rest) = ToSet(text)
  BY <1>9 DEF S
<1>11. PICK new : Changes(q, e[m].q, new, kinds) /\ new \cup ToSet(e[m].rest) = ToSet(text)
  BY <1>10
<1>12. ToSet(e[m].rest) = {}  BY <1>7, InTexts
<1>13. new = ToSet(text)  BY <1>11, <1>12
<1> QED BY <1>8, <1>10, <1>11, <1>13

(* A delta without text.                                                   *)
LEMMA PutEmptyGood ==
  ASSUME NEW q, NEW kinds, Good(q, kinds), NEW key \in Keys
  PROVE  LET r == PutEmpty(q, key)
         IN  Good(r, kinds) /\ Changes(q, r, {}, kinds)
<1> DEFINE f == IF OtherBlock(q, key) THEN FlushPending(q) ELSE q
           item == Item("delta", key, <<>>)
           r == PutEmpty(q, key)
<1>1. r = IF f.pending = NoItem THEN StartPending(f, item) ELSE f  BY DEF PutEmpty
<1>2. Good(f, kinds) /\ Changes(q, f, {}, kinds)
  <2>1. CASE OtherBlock(q, key)  BY <2>1, FlushGood
  <2>2. CASE ~ OtherBlock(q, key)  BY <2>2 DEF Changes, Loses
  <2> QED BY <2>1, <2>2
<1> HIDE DEF f, r
<1>3. CASE f.pending = NoItem
  <2>1. Text(<<>>, kinds) /\ Len(<<>>) <= MaxDeltaChars  BY QueueAssumption DEF Text, Rising
  <2>2. item \in Pendings /\ Fits(item, kinds) /\ item.text = <<>>  BY <2>1, TextIsHeld
  <2> HIDE DEF item
  <2>3. Above(f, item.text) /\ ToSet(item.text) = {}  BY <2>2, InTexts DEF Above
  <2> DEFINE s == StartPending(f, item)
  <2>4. Good(s, kinds) /\ Changes(f, s, ToSet(item.text), kinds)
    BY <1>2, <1>3, <2>2, <2>3, StartGood
  <2>5. r = s  BY <1>1, <1>3
  <2> HIDE DEF s
  <2>6. Changes(q, s, {} \cup ToSet(item.text), kinds)  BY <1>2, <2>4, ChangesFollow
  <2>7. {} \cup ToSet(item.text) = {}  BY <2>3
  <2> QED BY <2>4, <2>5, <2>6, <2>7 DEF r
<1> QED BY <1>1, <1>2, <1>3 DEF r

-----------------------------------------------------------------------------
(* The states of the queue.                                                *)

LEMMA QueueIsGood == QueueInv => Good(Fields, sent)
<1> SUFFICES ASSUME QueueInv PROVE Good(Fields, sent)  OBVIOUS
<1> USE DEF QueueInv
<1>1. /\ Fields.items = items /\ Fields.pending = pending /\ Fields.dropped = dropped
      /\ Fields.lost = lost /\ Fields \in FieldSet
  BY DEF Fields, FieldSet, TypeOK
<1>2. items \in Seq(Items) /\ DOMAIN items = 1 .. Len(items)  BY DEF TypeOK
<1>3. \A i \in 1 .. Len(items) : Fits(items[i], sent) /\ Precedes(items[i], pending)
  BY <1>2 DEF TypeOK, InOrder, Fits
<1>4. \A i, j \in 1 .. Len(items) : i < j => Precedes(items[i], items[j])
  BY <1>2 DEF InOrder
<1>5. Fits(pending, sent)  BY DEF TypeOK, InOrder, Fits
<1>6. Len(items) > MaxItems => \A i \in 1 .. Len(items) : ~ IsDelta(items[i])
  BY <1>2 DEF LimitHolds
<1>7. told \in Nat /\ Tells(Fields)  BY <1>1 DEF TypeOK, LossesAreTold, Tells
<1> QED BY <1>1, <1>3, <1>4, <1>5, <1>6, <1>7 DEF Good

(* What the steps of put_nowait, of the timer and of close have in common.  *)
Handles(q) ==
  /\ Becomes(q) /\ Good(q, sent')
  /\ Changes(Fields, q, Len(sent) + 1 .. Len(sent'), sent')
  /\ closed' => q.pending = NoItem
  /\ ready' = TRUE \/ (closed' = closed /\ ready' = (ready \/ Added(q)))
  /\ closed' \in BOOLEAN /\ sent' \in Seq({"event", "delta"})
  /\ UNCHANGED <<coalesces, reader, given, told>>

LEMMA HandlesKeeps ==
  ASSUME QueueInv, NEW q, Handles(q)
  PROVE  QueueInv'
<1>1. /\ items' = q.items /\ pending' = q.pending /\ dropped' = q.dropped /\ lost' = q.lost
      /\ q \in FieldSet /\ told' = told
  BY DEF Handles, Becomes, Good
<1>2. items' \in Seq(Items) /\ DOMAIN items' = 1 .. Len(items')  BY <1>1 DEF FieldSet
<1>3. ready' \in BOOLEAN
  <2>1. ready' = TRUE \/ ready' = (ready \/ Added(q))  BY DEF Handles
  <2>2. (ready \/ Added(q)) \in BOOLEAN  OBVIOUS
  <2> HIDE DEF Added
  <2> QED BY <2>1, <2>2
<1>4. TypeOK'
  <2>1. \A i \in DOMAIN items' : Len(items'[i].text) <= MaxDeltaChars
    BY <1>1, <1>2 DEF Handles, Good, Fits
  <2>2. Len(pending'.text) <= MaxDeltaChars  BY <1>1 DEF Handles, Good, Fits
  <2>3. /\ dropped' \in Nat /\ lost' \in Nat /\ pending' \in Pendings \cup {NoItem}
    BY <1>1 DEF FieldSet
  <2>4. closed' \in BOOLEAN /\ sent' \in Seq({"event", "delta"})  BY DEF Handles
  <2>5. /\ coalesces' \in BOOLEAN /\ reader' \in {"asking", "waiting", "ended"}
        /\ given' \in Seq(Nat) /\ told' \in Nat
    BY DEF Handles, QueueInv, TypeOK
  <2> QED BY <1>2, <1>3, <2>1, <2>2, <2>3, <2>4, <2>5 DEF TypeOK
<1>5. LimitHolds'  BY <1>1, <1>2 DEF Handles, Good, LimitHolds
<1>6. LossesAreTold'
  <2>1. Tells(q)  BY DEF Handles, Good
  <2> QED BY <1>1, <2>1 DEF Tells, LossesAreTold
<1>7. WaiterIsWoken'
  <2> SUFFICES ASSUME reader = "waiting", ~ (ready' = TRUE) PROVE items' = <<>> /\ ~ closed'
    BY <1>3 DEF WaiterIsWoken, Handles
  <2>1. closed' = closed /\ ready' = (ready \/ Added(q))  BY DEF Handles
  <2>2. ready \in BOOLEAN /\ (ready \/ (items = <<>> /\ ~ closed))
    BY DEF QueueInv, TypeOK, WaiterIsWoken
  <2>3. ~ ready /\ ~ Added(q)  BY <2>1
  <2> QED BY <1>1, <2>1, <2>2, <2>3 DEF Added
<1>8. InOrder'
  <2>1. \A i \in DOMAIN items' : Whole(items'[i], sent') /\ Precedes(items'[i], pending')
    BY <1>1, <1>2 DEF Handles, Good, Fits
  <2>2. \A i, j \in DOMAIN items' : i < j => Precedes(items'[i], items'[j])
    BY <1>1, <1>2 DEF Handles, Good
  <2>3. Whole(pending', sent')  BY <1>1 DEF Handles, Good, Fits
  <2>4. closed' => pending' = NoItem  BY <1>1 DEF Handles
  <2> QED BY <2>1, <2>2, <2>3, <2>4 DEF InOrder
<1> QED BY <1>4, <1>5, <1>6, <1>7, <1>8 DEF QueueInv

(* What fits stays so when more is put.                                    *)
LEMMA StillGood ==
  ASSUME NEW q, NEW kinds, NEW more, Good(q, kinds), Len(kinds) \in Nat, Len(more) \in Nat,
         Len(kinds) <= Len(more), \A n \in 1 .. Len(kinds) : more[n] = kinds[n]
  PROVE  Good(q, more)
<1>1. ASSUME NEW item, Fits(item, kinds) PROVE Fits(item, more)
  BY <1>1 DEF Fits, Whole
<1> QED BY <1>1 DEF Good

(* The numbers of what is put come after all that is carried.               *)
LEMMA NumbersAreNew ==
  ASSUME QueueInv, NEW n \in Nat
  PROVE  /\ Numbers(n) \in Seq(Nat) /\ Len(Numbers(n)) = n /\ Rising(Numbers(n))
         /\ \A k \in 1 .. n : Numbers(n)[k] = Len(sent) + k
         /\ ToSet(Numbers(n)) = Len(sent) + 1 .. Len(sent) + n
         /\ Above(Fields, Numbers(n))
<1>1. Len(sent) \in Nat  BY DEF QueueInv, TypeOK
<1>2. /\ Numbers(n) \in Seq(Nat) /\ Len(Numbers(n)) = n /\ DOMAIN Numbers(n) = 1 .. n
      /\ \A k \in 1 .. n : Numbers(n)[k] = Len(sent) + k
  <2> DEFINE l == Len(sent)
  <2>1. Numbers(n) = [i \in 1 .. n |-> l + i]  BY DEF Numbers
  <2>2. l \in Nat  BY <1>1
  <2> HIDE DEF l
  <2>3. [i \in 1 .. n |-> l + i] \in Seq(Nat) /\ Len([i \in 1 .. n |-> l + i]) = n
    BY <2>2
  <2> QED BY <2>1, <2>3 DEF l
<1>3. Rising(Numbers(n))  BY <1>1, <1>2 DEF Rising
<1>4. ToSet(Numbers(n)) = Len(sent) + 1 .. Len(sent) + n
  <2> DEFINE l == Len(sent)
             f == Numbers(n)
  <2>1. l \in Nat /\ DOMAIN f = 1 .. n /\ \A k \in 1 .. n : f[k] = l + k  BY <1>1, <1>2
  <2> HIDE DEF l, f
  <2>2. \A x \in ToSet(f) : x \in l + 1 .. l + n  BY <2>1, InTexts
  <2>3. ASSUME NEW x \in l + 1 .. l + n PROVE x \in ToSet(f)
    <3>1. x - l \in 1 .. n /\ l + (x - l) = x  BY <2>1
    <3>2. f[x - l] = x  BY <2>1, <3>1
    <3> QED BY <2>1, <3>1, <3>2, InTexts
  <2>4. ToSet(f) = l + 1 .. l + n  BY <2>2, <2>3
  <2> QED BY <2>4 DEF l, f
<1>5. Above(Fields, Numbers(n))
  <2> SUFFICES ASSUME NEW x \in Carried(Fields), NEW k \in 1 .. n PROVE x < Len(sent) + k
    BY <1>2 DEF Above
  <2>1. Good(Fields, sent) /\ Fields.items \in Seq(Items)  BY QueueIsGood DEF Good, FieldSet
  <2>2. \A item, j : Fits(item, sent) /\ j \in DOMAIN item.text => item.text[j] \in 1 .. Len(sent)
    BY DEF Fits, Whole
  <2>3. x \in 1 .. Len(sent)
    <3>1. CASE \E k2 \in DOMAIN Fields.pending.text : x = Fields.pending.text[k2]
      BY <2>1, <2>2, <3>1 DEF Good
    <3>2. CASE \E i \in 1 .. Len(Fields.items) : \E k2 \in DOMAIN Fields.items[i].text :
                 x = Fields.items[i].text[k2]
      BY <2>1, <2>2, <3>2 DEF Good
    <3> QED BY <2>1, <3>1, <3>2, CarriedItem
  <2> QED BY <1>1, <2>3
<1> QED BY <1>2, <1>3, <1>4, <1>5

LEMMA PutEventHandles ==
  ASSUME QueueInv, PutEvent
  PROVE  \E q : Handles(q)
<1> DEFINE text == Numbers(1)
           item == Item("event", "none", text)
           f == FlushPending(Fields)
           q == Enqueue(f, item)
<1>1. /\ ~ closed /\ sent' = Append(sent, "event") /\ Becomes(q) /\ ready' = (ready \/ Added(q))
      /\ UNCHANGED <<coalesces, closed, reader, given, told>>
  BY DEF PutEvent
<1>2. sent \in Seq({"event", "delta"}) /\ closed \in BOOLEAN  BY DEF QueueInv, TypeOK
<1>3. /\ Len(sent) \in Nat /\ Len(sent') = Len(sent) + 1 /\ sent' \in Seq({"event", "delta"})
      /\ sent'[Len(sent) + 1] = "event" /\ \A n \in 1 .. Len(sent) : sent'[n] = sent[n]
  BY <1>1, <1>2
<1>4. Good(Fields, sent')
  <2>1. Good(Fields, sent)  BY QueueIsGood
  <2> DEFINE more == sent'
  <2>2. /\ Len(more) \in Nat /\ Len(sent) <= Len(more)
        /\ \A n \in 1 .. Len(sent) : more[n] = sent[n]
    BY <1>3
  <2> HIDE DEF more
  <2>3. Good(Fields, more)  BY <1>3, <2>1, <2>2, StillGood
  <2> QED BY <2>3 DEF more
<1>5. /\ text \in Seq(Nat) /\ Len(text) = 1 /\ Rising(text) /\ text[1] = Len(sent) + 1
      /\ ToSet(text) = Len(sent) + 1 .. Len(sent) + 1 /\ Above(Fields, text)
  <2>1. 1 \in Nat /\ 1 \in 1 .. 1  OBVIOUS
  <2> QED BY <2>1, NumbersAreNew
<1> HIDE DEF text
<1> DEFINE more == sent'
<1>6. /\ item \in Items /\ item.count = 0 /\ item.text = text /\ item.type = "event"
  <2>1. item = [type |-> "event", key |-> "none", text |-> text, count |-> 0]  BY DEF Item
  <2> HIDE DEF item
  <2> QED BY <1>5, <2>1 DEF Items
<1>7. Fits(item, more)
  <2>1. Len(text) <= MaxDeltaChars  BY <1>5, QueueAssumption
  <2>2. DOMAIN text = 1 .. 1  BY <1>5
  <2>3. \A k \in 1 .. 1 : text[k] \in 1 .. Len(more) /\ more[text[k]] = "event"
    BY <1>3, <1>5
  <2> HIDE DEF item, more
  <2> QED BY <1>5, <1>6, <2>1, <2>2, <2>3 DEF Fits, Whole
<1> HIDE DEF item
<1>8. Good(f, more) /\ f.pending = NoItem /\ Changes(Fields, f, {}, more)
  <2>1. Good(Fields, more)  BY <1>4
  <2> HIDE DEF more
  <2> QED BY <2>1, FlushGood
<1>9. Good(q, more) /\ q.pending = NoItem /\ Changes(f, q, ToSet(text), more)
  <2> HIDE DEF more, f
  <2>1. Above(f, item.text)
    <3>1. Carried(f) \subseteq Carried(Fields)  BY <1>8 DEF Changes, Loses
    <3> QED BY <1>5, <1>6, <3>1, AboveStays
  <2>2. Good(q, more) /\ q.pending = NoItem /\ Changes(f, q, ToSet(item.text), more)
    BY <1>6, <1>7, <1>8, <2>1, EnqueueGood
  <2> QED BY <1>6, <2>2
<1>10. Changes(Fields, q, Len(sent) + 1 .. Len(sent'), sent')
  <2>1. {} \cup ToSet(text) = Len(sent) + 1 .. Len(sent')  BY <1>3, <1>5
  <2>2. Changes(Fields, q, {} \cup ToSet(text), more)
    <3> HIDE DEF more, f, q
    <3> QED BY <1>8, <1>9, ChangesFollow
  <2> HIDE DEF q, f
  <2> QED BY <2>1, <2>2
<1> HIDE DEF q, f
<1>11. Handles(q)  BY <1>1, <1>2, <1>3, <1>9, <1>10 DEF Handles
<1> QED BY <1>11

LEMMA PutDeltaHandles ==
  ASSUME QueueInv, NEW key \in Keys, NEW n \in 0 .. MaxText, PutDelta(key, n)
  PROVE  \E q : Handles(q)
<1> DEFINE text == Numbers(n)
           q == IF n = 0 THEN PutEmpty(Fields, key) ELSE PutText(Fields, key, text)
           new == [i \in 1 .. n |-> "delta"]
           more == sent'
<1>1. /\ ~ closed /\ sent' = sent \o new /\ Becomes(q) /\ ready' = (ready \/ Added(q))
      /\ UNCHANGED <<coalesces, closed, reader, given, told>>
  BY DEF PutDelta
<1>2. /\ sent \in Seq({"event", "delta"}) /\ closed \in BOOLEAN /\ n \in Nat
      /\ Len(sent) \in Nat
  BY QueueAssumption DEF QueueInv, TypeOK
<1>3. /\ new \in Seq({"event", "delta"}) /\ Len(new) = n
      /\ \A i \in 1 .. n : new[i] = "delta"
  BY <1>2
<1> HIDE DEF new
<1>4. /\ sent' \in Seq({"event", "delta"}) /\ Len(sent') = Len(sent) + n
      /\ \A i \in 1 .. Len(sent) : sent'[i] = sent[i]
      /\ \A i \in Len(sent) + 1 .. Len(sent) + n : sent'[i] = new[i - Len(sent)]
  BY <1>1, <1>2, <1>3, Joined
<1>5. \A i \in 1 .. n : sent'[Len(sent) + i] = "delta"
  <2>1. \A i \in 1 .. n : Len(sent) + i \in Len(sent) + 1 .. Len(sent) + n
                          /\ (Len(sent) + i) - Len(sent) = i
    BY <1>2
  <2> QED BY <1>3, <1>4, <2>1
<1>6. Good(Fields, more)
  <2>1. Good(Fields, sent)  BY QueueIsGood
  <2>2. /\ Len(more) \in Nat /\ Len(sent) <= Len(more)
        /\ \A i \in 1 .. Len(sent) : more[i] = sent[i]
    BY <1>2, <1>4
  <2> HIDE DEF more
  <2> QED BY <1>2, <2>1, <2>2, StillGood
<1>7. /\ text \in Seq(Nat) /\ Len(text) = n /\ Rising(text)
      /\ \A k \in 1 .. n : text[k] = Len(sent) + k
      /\ ToSet(text) = Len(sent) + 1 .. Len(sent) + n /\ Above(Fields, text)
  BY <1>2, NumbersAreNew
<1> HIDE DEF text
<1>8. Text(text, more)
  <2>1. \A k \in 1 .. n : text[k] \in 1 .. Len(more) /\ more[text[k]] = "delta"
    BY <1>2, <1>4, <1>5, <1>7
  <2> HIDE DEF more
  <2> QED BY <1>7, <2>1 DEF Text
<1>9. Good(q, more) /\ Changes(Fields, q, Len(sent) + 1 .. Len(sent) + n, more)
  <2> HIDE DEF more
  <2>1. CASE n = 0
    <3> DEFINE r == PutEmpty(Fields, key)
    <3>1. Good(r, more) /\ Changes(Fields, r, {}, more)  BY <1>6, PutEmptyGood
    <3>2. Len(sent) + 1 .. Len(sent) + n = {}  BY <1>2, <2>1
    <3>3. q = r  BY <2>1
    <3> HIDE DEF q, r
    <3> QED BY <3>1, <3>2, <3>3
  <2>2. CASE n # 0
    <3> DEFINE r == PutText(Fields, key, text)
    <3>1. Good(r, more) /\ Changes(Fields, r, ToSet(text), more)
      BY <1>6, <1>7, <1>8, PutTextGood
    <3>2. q = r  BY <2>2
    <3> HIDE DEF q, r
    <3> QED BY <1>7, <3>1, <3>2
  <2> QED BY <2>1, <2>2
<1> HIDE DEF q
<1>10. Handles(q)  BY <1>1, <1>2, <1>4, <1>9 DEF Handles
<1> QED BY <1>10

LEMMA FlushHandles ==
  ASSUME QueueInv, TimerFires \/ Close
  PROVE  \E q : Handles(q)
<1> DEFINE q == FlushPending(Fields)
<1>1. Good(q, sent) /\ q.pending = NoItem /\ Changes(Fields, q, {}, sent)
  BY QueueIsGood, FlushGood
<1> HIDE DEF q
<1>2. /\ Becomes(q) /\ UNCHANGED <<coalesces, reader, given, sent, told>>
      /\ \/ closed' = closed /\ ready' = (ready \/ Added(q))
         \/ closed' = TRUE /\ ready' = TRUE
  BY DEF TimerFires, Close, q
<1>3. sent \in Seq({"event", "delta"}) /\ closed \in BOOLEAN  BY DEF QueueInv, TypeOK
<1>4. Len(sent) + 1 .. Len(sent) = {}
  <2>1. Len(sent) \in Nat  BY <1>3
  <2> QED BY <2>1
<1>5. Good(q, sent') /\ Changes(Fields, q, Len(sent) + 1 .. Len(sent'), sent')
  BY <1>1, <1>2, <1>4
<1>6. Handles(q)  BY <1>1, <1>2, <1>3, <1>5 DEF Handles
<1> QED BY <1>6

(* get() gives the oldest item and leaves the others as they are.          *)
LEMMA TailIsLeft ==
  ASSUME NEW queued \in Seq(Items), queued # <<>>
  PROVE  /\ Head(queued) = queued[1] /\ Head(queued) \in Items
         /\ Tail(queued) \in Seq(Items) /\ Len(queued) = Len(Tail(queued)) + 1
         /\ Len(Tail(queued)) \in Nat /\ 1 \in 1 .. Len(queued)
         /\ \A n \in 1 .. Len(Tail(queued)) : Tail(queued)[n] = queued[n + 1]
         /\ \A n \in 1 .. Len(Tail(queued)) : n + 1 \in 1 .. Len(queued) /\ 1 < n + 1
         /\ \A n \in 1 .. Len(queued) : n = 1 \/ (n - 1 \in 1 .. Len(Tail(queued)) /\ (n - 1) + 1 = n)
  OBVIOUS

LEMMA GetItemKeeps ==
  ASSUME QueueInv, GetItem
  PROVE  QueueInv'
<1> DEFINE rest == Tail(items)
           one == Head(items)
<1>1. /\ reader = "asking" /\ items # <<>> /\ items' = rest /\ given' = one.text
      /\ told' = told + one.count /\ ready' = (ready /\ rest # <<>>)
      /\ UNCHANGED <<coalesces, pending, dropped, closed, reader, sent, lost>>
  BY DEF GetItem
<1>2. items \in Seq(Items) /\ DOMAIN items = 1 .. Len(items)  BY DEF QueueInv, TypeOK
<1>3. /\ one = items[1] /\ one \in Items /\ rest \in Seq(Items) /\ Len(items) = Len(rest) + 1
      /\ Len(rest) \in Nat /\ 1 \in 1 .. Len(items)
      /\ \A n \in 1 .. Len(rest) : rest[n] = items[n + 1] /\ n + 1 \in 1 .. Len(items) /\ 1 < n + 1
  BY <1>1, <1>2, TailIsLeft
<1> HIDE DEF rest, one
<1>4. DOMAIN rest = 1 .. Len(rest) /\ one.text \in Seq(Nat) /\ one.count \in Nat
  BY <1>3 DEF Items
<1>5. TypeOK'
  <2>1. told' \in Nat  BY <1>1, <1>4 DEF QueueInv, TypeOK
  <2>2. ready' \in BOOLEAN  BY <1>1 DEF QueueInv, TypeOK
  <2>3. \A i \in 1 .. Len(rest) : Len(rest[i].text) <= MaxDeltaChars
    BY <1>2, <1>3 DEF QueueInv, TypeOK
  <2> QED BY <1>1, <1>3, <1>4, <2>1, <2>2, <2>3 DEF QueueInv, TypeOK
<1>6. LimitHolds'
  <2> SUFFICES ASSUME Len(rest) > MaxItems, NEW i \in 1 .. Len(rest) PROVE ~ IsDelta(rest[i])
    BY <1>1, <1>4 DEF LimitHolds
  <2>1. Len(items) > MaxItems  BY <1>3, QueueAssumption
  <2> QED BY <1>2, <1>3, <2>1 DEF QueueInv, LimitHolds
<1>7. LossesAreTold'
  <2>1. CountsIn(items) = CountsIn(rest) + items[1].count
    <3>1. \A n \in 1 .. Len(rest) : rest[n] = IF n < 1 THEN items[n] ELSE items[n + 1]
      BY <1>3
    <3> QED BY <1>2, <1>3, <3>1, CountsRemoved
  <2>2. CountsIn(rest) \in Nat  BY <1>3, CountTurns DEF CountsIn
  <2>3. told \in Nat /\ dropped \in Nat /\ lost \in Nat  BY DEF QueueInv, TypeOK
  <2>4. LossesAreTold  BY DEF QueueInv
  <2> DEFINE a == CountsIn(rest)
             b == one.count
  <2>5. /\ told + (a + b) + dropped <= lost
        /\ lost > 0 => told + (a + b) + dropped > 0
    BY <1>3, <2>1, <2>4 DEF LossesAreTold
  <2>6. a \in Nat /\ b \in Nat  BY <1>4, <2>2
  <2>7. CountsIn(items') = a /\ told' = told + b /\ dropped' = dropped /\ lost' = lost
    BY <1>1
  <2> HIDE DEF a, b
  <2>8. /\ (told + b) + a + dropped <= lost
        /\ lost > 0 => (told + b) + a + dropped > 0
    BY <2>3, <2>5, <2>6
  <2> QED BY <2>7, <2>8 DEF LossesAreTold
<1>8. WaiterIsWoken'  BY <1>1 DEF WaiterIsWoken
<1>9. InOrder'
  <2>1. \A i \in 1 .. Len(rest) : Whole(rest[i], sent) /\ Precedes(rest[i], pending)
    BY <1>2, <1>3 DEF QueueInv, InOrder
  <2>2. ASSUME NEW i \in 1 .. Len(rest), NEW j \in 1 .. Len(rest), i < j
        PROVE  Precedes(rest[i], rest[j])
    <3>1. i + 1 \in 1 .. Len(items) /\ j + 1 \in 1 .. Len(items) /\ i + 1 < j + 1  BY <1>3, <2>2
    <3>2. Precedes(items[i + 1], items[j + 1])  BY <1>2, <3>1 DEF QueueInv, InOrder
    <3> QED BY <1>3, <3>2
  <2> QED BY <1>1, <1>4, <2>1, <2>2 DEF QueueInv, InOrder
<1> QED BY <1>5, <1>6, <1>7, <1>8, <1>9 DEF QueueInv

LEMMA GetNothingKeeps ==
  ASSUME QueueInv, GetNothing \/ Wakes \/ UNCHANGED vars
  PROVE  QueueInv'
<1>1. UNCHANGED <<coalesces, items, pending, dropped, closed, given, sent, lost, told>>
  BY DEF GetNothing, Wakes, vars, buffers
<1>2. TypeOK'
  <2>1. ready' \in BOOLEAN /\ reader' \in {"asking", "waiting", "ended"}
    BY DEF GetNothing, Wakes, vars, buffers, QueueInv, TypeOK
  <2> QED BY <1>1, <2>1 DEF QueueInv, TypeOK
<1>3. WaiterIsWoken'
  <2>1. CASE GetNothing  BY <2>1 DEF GetNothing, WaiterIsWoken, buffers
  <2>2. CASE Wakes  BY <2>2 DEF Wakes, WaiterIsWoken
  <2>3. CASE UNCHANGED vars  BY <2>3 DEF vars, buffers, QueueInv, WaiterIsWoken
  <2> QED BY <2>1, <2>2, <2>3
<1>4. LimitHolds' /\ LossesAreTold' /\ InOrder'
  BY <1>1 DEF QueueInv, LimitHolds, LossesAreTold, InOrder
<1> QED BY <1>2, <1>3, <1>4 DEF QueueInv

LEMMA Initially == Init => QueueInv
<1> SUFFICES ASSUME Init PROVE QueueInv  OBVIOUS
<1> USE DEF Init
<1>1. TypeOK
  <2>1. NoItem.text = <<>> /\ Len(<<>>) <= MaxDeltaChars  BY NothingHeld, QueueAssumption
  <2>2. items \in Seq(Items) /\ sent \in Seq({"event", "delta"}) /\ given \in Seq(Nat)
    OBVIOUS
  <2>3. DOMAIN items = {}  OBVIOUS
  <2>4. pending \in Pendings \cup {NoItem} /\ Len(pending.text) <= MaxDeltaChars  BY <2>1
  <2> QED BY <2>2, <2>3, <2>4 DEF TypeOK
<1>2. LimitHolds /\ WaiterIsWoken  BY DEF LimitHolds, WaiterIsWoken
<1>3. LossesAreTold
  <2>1. CountsIn(<<>>) = 0
    <3>1. <<>> \in Seq(Items) /\ Len(<<>>) = 0  OBVIOUS
    <3> QED BY <3>1, CountTurns DEF CountsIn
  <2> QED BY <2>1 DEF LossesAreTold
<1>4. InOrder
  <2>1. Whole(NoItem, <<>>)  BY NothingHeld DEF Fits
  <2> QED BY <2>1 DEF InOrder
<1> QED BY <1>1, <1>2, <1>3, <1>4 DEF QueueInv

(* Every step is one of these.                                             *)
LEMMA Steps ==
  ASSUME QueueInv, [Next]_vars
  PROVE  \/ \E q : Handles(q)
         \/ GetItem \/ GetNothing \/ Wakes \/ UNCHANGED vars
<1>1. CASE PutEvent  BY <1>1, PutEventHandles
<1>2. CASE \E key \in Keys, n \in 0 .. MaxText : PutDelta(key, n)  BY <1>2, PutDeltaHandles
<1>3. CASE TimerFires \/ Close  BY <1>3, FlushHandles
<1> QED BY <1>1, <1>2, <1>3 DEF Next, Get

LEMMA Step == QueueInv /\ [Next]_vars => QueueInv'
<1> SUFFICES ASSUME QueueInv, [Next]_vars PROVE QueueInv'  OBVIOUS
<1>1. CASE \E q : Handles(q)  BY <1>1, HandlesKeeps
<1>2. CASE GetItem  BY <1>2, GetItemKeeps
<1>3. CASE GetNothing \/ Wakes \/ UNCHANGED vars  BY <1>3, GetNothingKeeps
<1> QED BY <1>1, <1>2, <1>3, Steps

(* For any limits and any use of the queue: the limit gives way only to    *)
(* structural events, no loss is silent, no wake-up of the reader is lost, *)
(* and what is queued and held back is in the order it was put.            *)
THEOREM Invariant == Spec => []QueueInv
<1>1. Init => QueueInv  BY Initially
<1>2. QueueInv /\ [Next]_vars => QueueInv'  BY Step
<1> QED BY <1>1, <1>2, PTL DEF Spec

(* A delta is dropped only by a queue that is full, whatever is put.       *)
THEOREM DropsAtTheLimit == Spec => DropsOnlyAtTheLimit
<1>1. QueueInv /\ [Next]_vars => [lost' # lost => Len(items') >= MaxItems]_vars
  <2> SUFFICES ASSUME QueueInv, [Next]_vars, lost' # lost PROVE Len(items') >= MaxItems
    OBVIOUS
  <2>1. CASE \E q : Handles(q)
    <3>1. PICK q : Handles(q)  BY <2>1
    <3>2. Fields.lost = lost /\ q.lost = lost' /\ q.items = items'
      BY <3>1 DEF Fields, Handles, Becomes
    <3>3. q.lost # Fields.lost => Len(q.items) >= MaxItems  BY <3>1 DEF Handles, Changes
    <3> QED BY <3>2, <3>3
  <2>2. CASE GetItem \/ GetNothing \/ Wakes \/ UNCHANGED vars
    BY <2>2 DEF GetItem, GetNothing, Wakes, vars, buffers
  <2> QED BY <2>1, <2>2, Steps
<1> QED BY <1>1, Invariant, PTL DEF Spec, DropsOnlyAtTheLimit

-----------------------------------------------------------------------------
(* The contract of LossyFifo.                                              *)

LEMMA EmptyCarriesNothing ==
  ASSUME NEW q, q.items = <<>>, q.pending = NoItem
  PROVE  Carried(q) = {}
<1>1. q.items \in Seq(Items) /\ 1 .. Len(q.items) = {}  OBVIOUS
<1>2. DOMAIN q.pending.text = {}
  <2>1. q.pending.text = <<>>  BY NothingHeld
  <2> QED BY <2>1
<1>3. \A n : n \notin Carried(q)  BY <1>1, <1>2, CarriedItem
<1> QED BY <1>3

LEMMA HandlesCarries ==
  ASSUME QueueInv, NEW q, Handles(q)
  PROVE  /\ Contract!KeepsEvents(Carried(Fields) \cup (Len(sent) + 1 .. Len(sent')))
         /\ UNCHANGED <<given, reader>>
<1>1. Carried(Fields)' = Carried(q)  BY DEF Handles, Becomes, Carried, Fields
<1>2. /\ Carried(q) \subseteq Carried(Fields) \cup (Len(sent) + 1 .. Len(sent'))
      /\ \A n \in (Carried(Fields) \cup (Len(sent) + 1 .. Len(sent'))) \ Carried(q) : sent'[n] = "delta"
  BY DEF Handles, Changes, Loses
<1>3. UNCHANGED <<given, reader>>  BY DEF Handles
<1> DEFINE all == Carried(Fields) \cup (Len(sent) + 1 .. Len(sent'))
<1>4. Carried(Fields)' \subseteq all /\ \A n \in all \ Carried(Fields)' : sent'[n] = "delta"
  BY <1>1, <1>2
<1> HIDE DEF all
<1>5. Contract!KeepsEvents(all)  BY <1>4 DEF Contract!KeepsEvents
<1> QED BY <1>3, <1>5 DEF all

LEMMA PutEventConforms ==
  ASSUME QueueInv, PutEvent
  PROVE  Contract!Put("event")
<1>1. PICK q : Handles(q)  BY PutEventHandles
<1>2. /\ Contract!KeepsEvents(Carried(Fields) \cup (Len(sent) + 1 .. Len(sent')))
      /\ UNCHANGED <<given, reader>>
  BY <1>1, HandlesCarries
<1>3. ~ closed /\ sent' = Append(sent, "event") /\ UNCHANGED closed  BY DEF PutEvent
<1>4. sent' = sent \o [i \in 1 .. 1 |-> "event"]
  <2>1. sent \in Seq({"event", "delta"})  BY DEF QueueInv, TypeOK
  <2>2. [i \in 1 .. 1 |-> "event"] = <<"event">>  OBVIOUS
  <2>3. Append(sent, "event") = sent \o <<"event">>  BY <2>1
  <2> QED BY <1>3, <2>2, <2>3
<1> QED BY <1>2, <1>3, <1>4 DEF Contract!Put

LEMMA PutDeltaConforms ==
  ASSUME QueueInv, NEW key \in Keys, NEW n \in 0 .. MaxText, PutDelta(key, n)
  PROVE  Contract!Put("delta")
<1>1. PICK q : Handles(q)  BY PutDeltaHandles
<1>2. /\ Contract!KeepsEvents(Carried(Fields) \cup (Len(sent) + 1 .. Len(sent')))
      /\ UNCHANGED <<given, reader>>
  BY <1>1, HandlesCarries
<1>3. /\ ~ closed /\ sent' = sent \o [i \in 1 .. n |-> "delta"] /\ UNCHANGED closed
  BY DEF PutDelta
<1>4. n \in 0 .. Len(sent') - Len(sent)
  <2>1. n \in Nat  BY QueueAssumption
  <2>2. sent \in Seq({"event", "delta"})  BY DEF QueueInv, TypeOK
  <2>3. [i \in 1 .. n |-> "delta"] \in Seq({"event", "delta"}) /\ Len([i \in 1 .. n |-> "delta"]) = n
    BY <2>1
  <2>4. Len(sent') = Len(sent) + n /\ Len(sent) \in Nat  BY <1>3, <2>2, <2>3, Joined
  <2> QED BY <2>1, <2>4
<1> QED BY <1>2, <1>3, <1>4 DEF Contract!Put

LEMMA FlushConforms ==
  ASSUME QueueInv, TimerFires \/ Close
  PROVE  Contract!Lose \/ Contract!Shut
<1>1. PICK q : Handles(q)  BY FlushHandles
<1>2. /\ Contract!KeepsEvents(Carried(Fields) \cup (Len(sent) + 1 .. Len(sent')))
      /\ UNCHANGED <<given, reader>>
  BY <1>1, HandlesCarries
<1>3. sent' = sent  BY DEF TimerFires, Close
<1>4. Carried(Fields) \cup (Len(sent) + 1 .. Len(sent')) = Carried(Fields)
  <2>1. Len(sent) \in Nat  BY DEF QueueInv, TypeOK
  <2> QED BY <1>3, <2>1
<1>5. Contract!KeepsEvents(Carried(Fields))  BY <1>2, <1>4
<1>6. CASE TimerFires
  <2>1. ~ closed  BY <1>6 DEF TimerFires, QueueInv, InOrder
  <2>2. UNCHANGED closed  BY <1>6 DEF TimerFires
  <2> QED BY <1>2, <1>3, <1>5, <2>1, <2>2 DEF Contract!Lose
<1>7. CASE Close
  <2>1. ~ closed /\ closed' = TRUE  BY <1>7 DEF Close
  <2> QED BY <1>2, <1>3, <1>5, <2>1 DEF Contract!Shut
<1> QED BY <1>6, <1>7

LEMMA GetItemConforms ==
  ASSUME QueueInv, GetItem
  PROVE  Contract!Take
<1> DEFINE rest == Tail(items)
           one == Head(items)
<1>1. /\ items # <<>> /\ items' = rest /\ given' = one.text
      /\ UNCHANGED <<pending, closed, reader, sent>>
  BY DEF GetItem
<1>2. items \in Seq(Items) /\ DOMAIN items = 1 .. Len(items)  BY DEF QueueInv, TypeOK
<1>3. /\ one = items[1] /\ one \in Items /\ rest \in Seq(Items) /\ 1 \in 1 .. Len(items)
      /\ \A n \in 1 .. Len(rest) : rest[n] = items[n + 1] /\ n + 1 \in 1 .. Len(items) /\ 1 < n + 1
      /\ \A n \in 1 .. Len(items) : n = 1 \/ (n - 1 \in 1 .. Len(rest) /\ (n - 1) + 1 = n)
  BY <1>1, <1>2, TailIsLeft
<1> HIDE DEF rest, one
<1> DEFINE left == [items |-> rest, pending |-> pending, dropped |-> dropped', lost |-> lost']
           In(n, item) == \E k \in DOMAIN item.text : n = item.text[k]
<1>4. Carried(Fields)' = Carried(left)  BY <1>1 DEF Fields, Carried
<1>5. \A n : n \in Carried(left) <=> (\E i \in 1 .. Len(rest) : In(n, rest[i])) \/ In(n, pending)
  <2>1. left.items = rest /\ left.pending = pending  OBVIOUS
  <2> HIDE DEF left
  <2> QED BY <1>3, <2>1, CarriedItem
<1>6. \A n : n \in Carried(Fields) <=> (\E i \in 1 .. Len(items) : In(n, items[i])) \/ In(n, pending)
  <2>1. Fields.items = items /\ Fields.pending = pending  BY DEF Fields
  <2> QED BY <1>2, <2>1, CarriedItem
<1>7. \A n : n \in ToSet(one.text) <=> In(n, one)  BY InTexts
<1>8. /\ \A i \in 1 .. Len(rest) : Precedes(one, rest[i])
      /\ Precedes(one, pending)
  BY <1>2, <1>3 DEF QueueInv, InOrder
<1>9. Whole(one, sent) /\ one.text \in Seq(Nat)
  <2>1. Whole(one, sent)  BY <1>2, <1>3 DEF QueueInv, InOrder
  <2> QED BY <1>3, <2>1 DEF Items
<1>10. \A n \in ToSet(one.text), m \in Carried(left) : n < m
  <2> SUFFICES ASSUME NEW n \in ToSet(one.text), NEW m \in Carried(left) PROVE n < m
    OBVIOUS
  <2>1. In(n, one)  BY <1>7
  <2>2. (\E i \in 1 .. Len(rest) : In(m, rest[i])) \/ In(m, pending)  BY <1>5
  <2> QED BY <1>8, <2>1, <2>2 DEF Precedes
<1>11. \A n \in ToSet(one.text) : n \in Nat  BY <1>7, <1>9
<1>12. Carried(left) = Carried(Fields) \ ToSet(one.text)
  <2>1. ASSUME NEW n \in Carried(left) PROVE n \in Carried(Fields) /\ n \notin ToSet(one.text)
    <3>1. n \in Carried(Fields)
      <4> HIDE DEF In, left
      <4> QED BY <1>3, <1>5, <1>6
    <3>2. n \notin ToSet(one.text)
      <4> HIDE DEF In, left
      <4> SUFFICES ASSUME n \in ToSet(one.text) PROVE FALSE  OBVIOUS
      <4>1. n < n /\ n \in Nat  BY <1>10, <1>11
      <4> QED BY <4>1
    <3> QED BY <3>1, <3>2
  <2>2. ASSUME NEW n \in Carried(Fields), n \notin ToSet(one.text) PROVE n \in Carried(left)
    <3> HIDE DEF In, left
    <3>1. CASE In(n, pending)  BY <1>5, <3>1
    <3>2. CASE \E i \in 1 .. Len(items) : In(n, items[i])
      <4>1. PICK i \in 1 .. Len(items) : In(n, items[i])  BY <3>2
      <4>2. i # 1  BY <1>3, <1>7, <2>2, <4>1
      <4>3. i - 1 \in 1 .. Len(rest) /\ rest[i - 1] = items[i]  BY <1>3, <4>2
      <4> QED BY <1>5, <4>1, <4>3
    <3> QED BY <1>6, <3>1, <3>2
  <2> HIDE DEF left
  <2> QED BY <2>1, <2>2
<1>13. ToSet(one.text) \subseteq Carried(Fields)
  <2> HIDE DEF In, left
  <2> QED BY <1>3, <1>6, <1>7
<1>14. \A j, k \in DOMAIN one.text : j < k => one.text[j] < one.text[k]
  BY <1>9 DEF Whole, Rising
<1> HIDE DEF left, In
<1>15. Contract!Rising(given')  BY <1>1, <1>14 DEF Contract!Rising
<1>16. /\ ToSet(given') \subseteq Carried(Fields)
       /\ Carried(Fields)' = Carried(Fields) \ ToSet(given')
       /\ \A n \in ToSet(given'), m \in Carried(Fields)' : n < m
  <2> DEFINE before == Carried(Fields)
             after == Carried(Fields)'
             text == given'
  <2>1. after = Carried(left) /\ text = one.text  BY <1>1, <1>4
  <2>2. /\ \A n \in ToSet(one.text), m \in Carried(left) : n < m
        /\ Carried(left) = before \ ToSet(one.text)
        /\ ToSet(one.text) \subseteq before
    BY <1>10, <1>12, <1>13
  <2> HIDE DEF before, after, text
  <2>3. /\ ToSet(text) \subseteq before
        /\ after = before \ ToSet(text)
        /\ \A n \in ToSet(text), m \in after : n < m
    BY <2>1, <2>2
  <2> QED BY <2>3 DEF before, after, text
<1>17. UNCHANGED <<sent, closed, reader>>  BY <1>1
<1>18. Contract!ToSet(given') = ToSet(given')  BY DEF Contract!ToSet, ToSet
<1> QED BY <1>15, <1>16, <1>17, <1>18 DEF Contract!Take

LEMMA GetNothingConforms ==
  ASSUME QueueInv, GetNothing \/ Wakes \/ UNCHANGED vars
  PROVE  Contract!TellEnd \/ UNCHANGED Contract!fifoVars
<1>1. UNCHANGED <<items, pending, dropped, closed, given, sent, lost>>
  BY DEF GetNothing, Wakes, vars, buffers
<1>2. Carried(Fields)' = Carried(Fields)  BY <1>1 DEF Fields, Carried
<1>3. CASE (reader' = "ended") <=> (reader = "ended")
  BY <1>1, <1>2, <1>3 DEF Contract!fifoVars
<1>4. CASE ~ ((reader' = "ended") <=> (reader = "ended"))
  <2>1. GetNothing /\ closed /\ reader = "asking" /\ reader' = "ended" /\ items = <<>>
    BY <1>4 DEF GetNothing, Wakes, vars
  <2>2. pending = NoItem  BY <2>1 DEF QueueInv, InOrder
  <2>3. Carried(Fields) = {}
    <3>1. Fields.items = <<>> /\ Fields.pending = NoItem  BY <2>1, <2>2 DEF Fields
    <3> QED BY <3>1, EmptyCarriesNothing
  <2> QED BY <1>1, <1>2, <2>1, <2>3 DEF Contract!TellEnd
<1> QED BY <1>3, <1>4

(* The queue implements the lossy FIFO: whatever the limits and the use,   *)
(* what the reader is given comes in the order it was put, nothing twice,  *)
(* no structural event is lost, and the end is told when nothing is left.  *)
THEOREM MeetsTheContract == Spec => MeetsContract
<1>1. Init => Contract!FifoInit
  <2> SUFFICES ASSUME Init PROVE Contract!FifoInit  OBVIOUS
  <2>1. Carried(Fields) = {}
    <3>1. Fields.items = <<>> /\ Fields.pending = NoItem  BY DEF Fields, Init
    <3> QED BY <3>1, EmptyCarriesNothing
  <2> QED BY <2>1 DEF Init, Contract!FifoInit
<1>2. QueueInv /\ [Next]_vars => [Contract!FifoNext]_(Contract!fifoVars)
  <2> SUFFICES ASSUME QueueInv, [Next]_vars
               PROVE  Contract!FifoNext \/ UNCHANGED Contract!fifoVars
    OBVIOUS
  <2>1. CASE PutEvent
    <3>1. Contract!Put("event")  BY <2>1, PutEventConforms
    <3> QED BY <3>1 DEF Contract!FifoNext, Contract!Kinds
  <2>2. CASE \E key \in Keys, n \in 0 .. MaxText : PutDelta(key, n)
    <3>1. Contract!Put("delta")  BY <2>2, PutDeltaConforms
    <3> QED BY <3>1 DEF Contract!FifoNext, Contract!Kinds
  <2>3. CASE TimerFires \/ Close  BY <2>3, FlushConforms DEF Contract!FifoNext
  <2>4. CASE GetItem  BY <2>4, GetItemConforms DEF Contract!FifoNext
  <2>5. CASE GetNothing \/ Wakes \/ UNCHANGED vars
    BY <2>5, GetNothingConforms DEF Contract!FifoNext
  <2> QED BY <2>1, <2>2, <2>3, <2>4, <2>5 DEF Next, Get
<1> QED BY <1>1, <1>2, Invariant, PTL DEF Spec, MeetsContract, Contract!FifoSpec
=============================================================================
