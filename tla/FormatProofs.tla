---------------------------- MODULE FormatProofs ----------------------------
(***************************************************************************)
(* Proofs about the numbers in the log: the digit loops of klog_dec,       *)
(* klog_prefix (core/klog.c) and console_puthex64 (console.c).             *)
(*                                                                         *)
(* The loops are recursive functions.  That such a function satisfies its  *)
(* own equation, and what it computes for every argument, is shown by      *)
(* induction over sets of numbers: a set that lacks a number lacks a least *)
(* one.                                                                    *)
(***************************************************************************)
EXTENDS Output, SequenceTheorems, WellFoundedInduction, TLAPS

-----------------------------------------------------------------------------
(* Induction and recursion                                                 *)

\* A set of natural numbers that is not empty has a least element.
LEMMA LeastNumber ==
    ASSUME NEW T \in SUBSET Nat, T # {}
    PROVE  \E x \in T : \A y \in T : x <= y
<1> DEFINE R == OpToRel(<, Nat)
<1>1. IsWellFoundedOn(R, Nat)
    BY NatLessThanWellFounded, Zenon
<1>2. \A x, y \in Nat : y < x => <<y, x>> \in R
    BY DEF OpToRel
<1> HIDE DEF R
<1>3. PICK x \in T : \A y \in T : ~ (<<y, x>> \in R)
    BY <1>1, WFMin
<1>4. ASSUME NEW y \in T PROVE x <= y
    <2>1. x \in Nat /\ y \in Nat
        OBVIOUS
    <2>2. ~ (y < x)
        BY <1>2, <1>3, <2>1, Zenon
    <2>3. QED
        BY <2>1, <2>2
<1>5. QED
    BY <1>4

\* A set that has every number all of whose predecessors it has, has all.
LEMMA NumberInduction ==
    ASSUME NEW G,
           \A n \in Nat : (\A k \in Nat : k < n => k \in G) => n \in G
    PROVE  Nat \subseteq G
<1> SUFFICES ASSUME ~ (Nat \subseteq G) PROVE FALSE
    OBVIOUS
<1> DEFINE T == {n \in Nat : n \notin G}
<1>1. T \in SUBSET Nat /\ T # {}
    OBVIOUS
<1>2. PICK x \in T : \A y \in T : x <= y
    BY <1>1, LeastNumber
<1>3. QED
    BY <1>2

\* h follows the recursion up to n: e gives the values on B, and F makes the
\* value at any other k from the one at p[k].
Follows(h, n, S, B, p, e, F) ==
    /\ h \in [0 .. n -> S]
    /\ \A k \in 0 .. n : h[k] = IF k \in B THEN e[k] ELSE F[k][h[p[k]]]

\* Two functions that follow the same recursion agree.
LEMMA FollowsUnique ==
    ASSUME NEW S, NEW B, NEW p, NEW e, NEW F, NEW g, NEW h,
           NEW n \in Nat, NEW m \in Nat,
           Follows(g, n, S, B, p, e, F), Follows(h, m, S, B, p, e, F),
           \A k \in 0 .. n : k \notin B => p[k] \in Nat /\ p[k] < k
    PROVE  \A k \in Nat : k <= n /\ k <= m => g[k] = h[k]
<1> DEFINE G == {k \in Nat : k <= n /\ k <= m => g[k] = h[k]}
<1>1. ASSUME NEW k \in Nat, \A l \in Nat : l < k => l \in G
      PROVE  k \in G
    <2> SUFFICES ASSUME k <= n, k <= m PROVE g[k] = h[k]
        OBVIOUS
    <2>1. k \in 0 .. n /\ k \in 0 .. m
        OBVIOUS
    <2>2. CASE k \in B
        BY <2>1, <2>2 DEF Follows
    <2>3. CASE k \notin B
        <3>1. p[k] \in Nat /\ p[k] < k
            BY <2>1, <2>3
        <3>2. g[p[k]] = h[p[k]]
            BY <1>1, <3>1
        <3>3. QED
            BY <2>1, <2>3, <3>2, Zenon DEF Follows
    <2>4. QED
        BY <2>2, <2>3
<1> HIDE DEF G
<1>2. Nat \subseteq G
    BY <1>1, NumberInduction
<1>3. QED
    BY <1>2 DEF G

\* p goes down from every number of D that is not in B.
Descends(D, B, p) ==
    /\ D \in SUBSET Nat
    /\ \A n \in D : 0 .. n \subseteq D
    /\ \A k \in D : k \notin B => p[k] \in Nat /\ p[k] < k

\* f follows the recursion on all of D.
Computes(f, D, B, p, e, F) ==
    \A n \in D : f[n] = IF n \in B THEN e[n] ELSE F[n][f[p[n]]]

\* A recursion that only goes down defines a function.
LEMMA Recursion ==
    ASSUME NEW D, NEW S, NEW B, NEW p,
           NEW e \in [D -> S], NEW F \in [D -> [S -> S]], Descends(D, B, p)
    PROVE  \E f \in [D -> S] : Computes(f, D, B, p, e, F)
<1> USE DEF Descends
<1> DEFINE Ok(h, n) == Follows(h, n, S, B, p, e, F)
           G == {n \in Nat : n \in D => \E h : Ok(h, n)}
<1>1. ASSUME NEW n \in Nat, \A k \in Nat : k < n => k \in G
      PROVE  n \in G
    <2> SUFFICES ASSUME n \in D PROVE \E h : Ok(h, n)
        OBVIOUS
    <2>1. CASE n = 0
        <3>1. 0 \in B
            BY <2>1
        <3> DEFINE h == [k \in 0 .. 0 |-> e[0]]
        <3>2. Ok(h, n)
            BY <2>1, <3>1 DEF Follows
        <3>3. QED
            BY <3>2
    <2>2. CASE n > 0
        <3>1. n - 1 \in Nat /\ n - 1 < n /\ n - 1 \in D
            BY <2>2
        <3>2. PICK g : Ok(g, n - 1)
            BY <1>1, <3>1
        <3>3. /\ g \in [0 .. n - 1 -> S]
              /\ \A k \in 0 .. n - 1 : g[k] = IF k \in B THEN e[k] ELSE F[k][g[p[k]]]
            BY <3>2 DEF Follows
        <3> DEFINE v == IF n \in B THEN e[n] ELSE F[n][g[p[n]]]
                   h == [k \in 0 .. n |-> IF k = n THEN v ELSE g[k]]
        <3>4. v \in S
            <4>1. n \notin B => p[n] \in 0 .. n - 1
                BY <3>1
            <4>2. n \notin B => g[p[n]] \in S
                BY <3>3, <4>1
            <4>3. QED
                BY <4>2
        <3>5. h \in [0 .. n -> S]
            <4> HIDE DEF v
            <4>1. \A k \in 0 .. n : k # n => k \in 0 .. n - 1
                OBVIOUS
            <4>2. QED
                BY <3>3, <3>4, <4>1
        <3>6. ASSUME NEW k \in 0 .. n
              PROVE  h[k] = IF k \in B THEN e[k] ELSE F[k][h[p[k]]]
            <4>1. k \in D
                OBVIOUS
            <4>2. k \notin B => p[k] \in 0 .. n /\ p[k] # n /\ h[p[k]] = g[p[k]]
                BY <4>1
            <4>3. CASE k = n
                BY <4>2, <4>3
            <4>4. CASE k # n
                BY <3>3, <4>2, <4>4
            <4>5. QED
                BY <4>3, <4>4
        <3>7. Ok(h, n)
            <4> HIDE DEF h
            <4>1. QED
                BY <3>5, <3>6 DEF Follows
        <3>8. QED
            BY <3>7
    <2>3. QED
        BY <2>1, <2>2
<1> HIDE DEF G
<1>2. Nat \subseteq G
    BY <1>1, NumberInduction
<1>3. \A n \in D : \E h : Ok(h, n)
    BY <1>2 DEF G
<1> DEFINE c(n) == CHOOSE h : Ok(h, n)
<1>4. \A n \in D : Ok(c(n), n)
    BY <1>3, Zenon
<1> HIDE DEF Ok, c
<1> DEFINE f == [n \in D |-> c(n)[n]]
<1>5. ASSUME NEW n \in D
      PROVE  /\ f[n] \in S
             /\ f[n] = IF n \in B THEN e[n] ELSE F[n][f[p[n]]]
    <2>1. n \in Nat /\ n \in 0 .. n /\ Follows(c(n), n, S, B, p, e, F)
        BY <1>4 DEF Ok
    <2>2. c(n)[n] \in S /\ c(n)[n] = IF n \in B THEN e[n] ELSE F[n][c(n)[p[n]]]
        BY <2>1 DEF Follows
    <2>3. CASE n \in B
        BY <2>2, <2>3
    <2>4. CASE n \notin B
        <3>1. p[n] \in Nat /\ p[n] < n /\ p[n] \in D
            BY <2>1, <2>4
        <3>2. Follows(c(p[n]), p[n], S, B, p, e, F)
            BY <1>4, <3>1 DEF Ok
        <3>3. \A k \in 0 .. n : k \notin B => p[k] \in Nat /\ p[k] < k
            OBVIOUS
        <3>4. c(n)[p[n]] = c(p[n])[p[n]]
            BY <2>1, <3>1, <3>2, <3>3, FollowsUnique
        <3>5. f[p[n]] = c(p[n])[p[n]] /\ f[n] = c(n)[n]
            BY <3>1
        <3>6. QED
            BY <2>2, <2>4, <3>4, <3>5
    <2>5. QED
        BY <2>3, <2>4
<1>6. f \in [D -> S]
    BY <1>5
<1>7. Computes(f, D, B, p, e, F)
    <2> HIDE DEF f
    <2>1. QED
        BY <1>5 DEF Computes
<1>8. QED
    BY <1>6, <1>7

-----------------------------------------------------------------------------
(* Digits                                                                  *)

Chars == Seq(Int)

\* Two texts of the same length with the same characters are the same.
LEMMA SameChars ==
    ASSUME NEW s \in Chars, NEW t \in Chars, Len(s) = Len(t),
           \A k \in 1 .. Len(s) : s[k] = t[k]
    PROVE  s = t
<1>1. s \in Seq(Int) /\ t \in Seq(Int)
    BY DEF Chars
<1>2. QED
    BY <1>1, SeqEqual, Zenon

\* Where the characters of two joined texts are.
LEMMA Joined ==
    ASSUME NEW s \in Chars, NEW t \in Chars
    PROVE  /\ s \o t \in Chars
           /\ Len(s \o t) = Len(s) + Len(t)
           /\ \A k \in 1 .. Len(s) : (s \o t)[k] = s[k]
           /\ \A k \in 1 .. Len(t) : (s \o t)[Len(s) + k] = t[k]
<1>1. s \in Seq(Int) /\ t \in Seq(Int) /\ Len(s) \in Nat /\ Len(t) \in Nat
    BY DEF Chars
<1>2. /\ s \o t \in Seq(Int)
      /\ Len(s \o t) = Len(s) + Len(t)
      /\ \A k \in 1 .. Len(s) + Len(t) :
             (s \o t)[k] = IF k <= Len(s) THEN s[k] ELSE t[k - Len(s)]
    BY <1>1, ConcatProperties, Zenon
<1> DEFINE u == s \o t
<1> HIDE DEF u
<1>3. /\ \A k \in 1 .. Len(s) : u[k] = s[k]
      /\ \A k \in 1 .. Len(t) : u[Len(s) + k] = t[k]
    <2>1. \A k \in 1 .. Len(s) + Len(t) :
              u[k] = IF k <= Len(s) THEN s[k] ELSE t[k - Len(s)]
        BY <1>2 DEF u
    <2>2. ASSUME NEW k \in 1 .. Len(s) PROVE u[k] = s[k]
        <3>1. k \in 1 .. Len(s) + Len(t) /\ k <= Len(s)
            BY <1>1
        <3>2. QED
            BY <2>1, <3>1
    <2>3. ASSUME NEW k \in 1 .. Len(t) PROVE u[Len(s) + k] = t[k]
        <3>1. /\ Len(s) + k \in 1 .. Len(s) + Len(t) /\ ~ (Len(s) + k <= Len(s))
              /\ (Len(s) + k) - Len(s) = k
            BY <1>1
        <3>2. QED
            BY <2>1, <3>1
    <2>4. QED
        BY <2>2, <2>3
<1>4. QED
    BY <1>2, <1>3 DEF u, Chars

\* What is left of a text without its first character.
LEMMA Behind ==
    ASSUME NEW s \in Chars, NEW t \in Chars, Len(s) = 1
    PROVE  Tail(s \o t) = t
<1> DEFINE u == s \o t
<1>1. /\ u \in Chars /\ Len(u) = 1 + Len(t) /\ Len(t) \in Nat
      /\ \A k \in 1 .. Len(t) : u[1 + k] = t[k]
    <2>1. /\ s \o t \in Chars
          /\ Len(s \o t) = Len(s) + Len(t)
          /\ \A k \in 1 .. Len(t) : (s \o t)[Len(s) + k] = t[k]
        BY Joined, Zenon
    <2>2. Len(t) \in Nat
        BY DEF Chars
    <2>3. QED
        BY <2>1, <2>2, Zenon
<1> HIDE DEF u
<1>2. u \in Seq(Int) /\ u # <<>>
    BY <1>1 DEF Chars
<1>3. /\ Tail(u) \in Seq(Int) /\ Len(Tail(u)) = Len(u) - 1
      /\ \A k \in 1 .. Len(Tail(u)) : Tail(u)[k] = u[k + 1]
    BY <1>2, HeadTailProperties, Zenon
<1>4. Tail(u) \in Chars /\ Len(Tail(u)) = Len(t)
    BY <1>1, <1>3 DEF Chars
<1>5. \A k \in 1 .. Len(Tail(u)) : Tail(u)[k] = t[k]
    BY <1>1, <1>3, <1>4
<1>6. Tail(u) = t
    BY <1>4, <1>5, SameChars
<1>7. QED
    BY <1>6 DEF u

\* The part of a text between two places.
LEMMA Between ==
    ASSUME NEW u \in Chars, NEW s \in Chars, NEW m \in Nat,
           m + Len(s) <= Len(u), \A k \in 1 .. Len(s) : u[m + k] = s[k]
    PROVE  SubSeq(u, m + 1, m + Len(s)) = s
<1>1. PICK n \in Nat : n = Len(s)
    BY DEF Chars
<1>2. PICK a \in Int : a = m + 1
    OBVIOUS
<1>3. PICK b \in Int : b = m + n
    OBVIOUS
<1>4. PICK t : t = SubSeq(u, a, b)
    OBVIOUS
<1>5. ASSUME NEW k \in a .. b PROVE u[k] \in Int
    <2>1. k \in 1 .. Len(u)
        BY <1>1, <1>2, <1>3 DEF Chars
    <2>2. QED
        BY <2>1 DEF Chars
<1>6. /\ t \in Seq(Int)
      /\ Len(t) = IF a <= b THEN b - a + 1 ELSE 0
      /\ \A k \in 1 .. b - a + 1 : t[k] = u[a + k - 1]
    BY <1>4, <1>5, SubSeqProperties
<1>7. t \in Chars /\ Len(t) = n
    BY <1>2, <1>3, <1>6 DEF Chars
<1>8. ASSUME NEW k \in 1 .. n PROVE t[k] = s[k]
    <2>1. k \in 1 .. b - a + 1 /\ a + k - 1 = m + k
        BY <1>2, <1>3
    <2>2. t[k] = u[m + k]
        BY <1>6, <2>1
    <2>3. QED
        BY <1>1, <2>2
<1>9. t = s
    BY <1>1, <1>7, <1>8, SameChars
<1>10. QED
    BY <1>1, <1>2, <1>3, <1>4, <1>9

\* klog_dec: the digits of v / 10, and behind them the last digit.
LEMMA DecimalDigits ==
    ASSUME NEW v \in Nat
    PROVE  /\ Decimal(v) \in Chars
           /\ Decimal(v) = IF v < 10 THEN <<Zero + v>>
                           ELSE Append(Decimal(v \div 10), Zero + (v % 10))
<1> DEFINE Eqn(g) == g = [w \in Nat |->
                            IF w < 10 THEN <<Zero + w>>
                            ELSE Append(g[w \div 10], Zero + (w % 10))]
           d == CHOOSE g : Eqn(g)
<1>1. \A w \in Nat : Decimal(w) = d[w]
    BY DEF Decimal
<1>2. \E g \in [Nat -> Chars] : Eqn(g)
    <2> DEFINE B == 0 .. 9
               p == [w \in Nat |-> w \div 10]
               e == [w \in Nat |-> <<Zero + w>>]
               F == [w \in Nat |-> [s \in Chars |-> Append(s, Zero + (w % 10))]]
    <2>1. e \in [Nat -> Chars]
        BY DEF Zero, Chars
    <2>2. F \in [Nat -> [Chars -> Chars]]
        <3>1. ASSUME NEW w \in Nat, NEW s \in Chars
              PROVE  Append(s, Zero + (w % 10)) \in Chars
            <4>1. Zero + (w % 10) \in Int
                BY DEF Zero
            <4>2. QED
                BY <4>1, AppendProperties DEF Chars
        <3>2. QED
            BY <3>1
    <2>3. Descends(Nat, B, p)
        BY DEF Descends
    <2> HIDE DEF B, p, e, F
    <2>5. PICK f \in [Nat -> Chars] : Computes(f, Nat, B, p, e, F)
        BY <2>1, <2>2, <2>3, Recursion
    <2>6. ASSUME NEW n \in Nat
          PROVE  f[n] = IF n < 10 THEN <<Zero + n>>
                        ELSE Append(f[n \div 10], Zero + (n % 10))
        <3>1. n \in B <=> n < 10
            BY DEF B
        <3>2. e[n] = <<Zero + n>> /\ p[n] = n \div 10 /\ p[n] \in Nat
            BY DEF e, p
        <3>3. f[p[n]] \in Chars
            BY <3>2
        <3>4. F[n][f[p[n]]] = Append(f[p[n]], Zero + (n % 10))
            BY <3>3 DEF F
        <3>5. QED
            BY <2>5, <3>1, <3>2, <3>4 DEF Computes
    <2>7. Eqn(f)
        BY <2>6
    <2>8. QED
        BY <2>7
<1>3. Eqn(d)
    BY <1>2, Zenon
<1> HIDE DEF d
<1>4. \A w \in Nat : d[w] = IF w < 10 THEN <<Zero + w>>
                           ELSE Append(d[w \div 10], Zero + (w % 10))
    BY <1>3
<1>5. Nat \subseteq {w \in Nat : d[w] \in Chars}
    <2> DEFINE G == {w \in Nat : d[w] \in Chars}
    <2>1. ASSUME NEW w \in Nat, \A k \in Nat : k < w => k \in G
          PROVE  w \in G
        <3>1. CASE w < 10
            <4>1. <<Zero + w>> \in Chars
                BY DEF Zero, Chars
            <4>2. QED
                BY <1>4, <3>1, <4>1
        <3>2. CASE ~ (w < 10)
            <4>1. w \div 10 \in Nat /\ w \div 10 < w
                BY <3>2
            <4>2. d[w \div 10] \in Chars
                BY <2>1, <4>1
            <4>3. Zero + (w % 10) \in Int
                BY DEF Zero
            <4>4. Append(d[w \div 10], Zero + (w % 10)) \in Chars
                BY <4>2, <4>3, AppendProperties DEF Chars
            <4>5. QED
                BY <1>4, <3>2, <4>4
        <3>3. QED
            BY <3>1, <3>2
    <2> HIDE DEF G
    <2>2. Nat \subseteq G
        BY <2>1, NumberInduction
    <2>3. QED
        BY <2>2 DEF G
<1>6. v \div 10 \in Nat
    OBVIOUS
<1>7. QED
    BY <1>1, <1>4, <1>5, <1>6

-----------------------------------------------------------------------------
(* Reading digits back                                                     *)

DigitOf(c, base) == CHOOSE d \in 0 .. base - 1 : HexDigit(d) = c

\* s consists of digits of the base.
Digits(s, base) ==
    /\ s \in Chars
    /\ \A k \in 1 .. Len(s) : \E d \in 0 .. base - 1 : HexDigit(d) = s[k]

\* val[k] is what the first k digits of s stand for.
Values(val, s, base) ==
    /\ val \in [0 .. Len(s) -> Nat]
    /\ val[0] = 0
    /\ \A k \in 1 .. Len(s) : val[k] = base * val[k - 1] + DigitOf(s[k], base)

\* No two digits look the same.
LEMMA DigitRead ==
    ASSUME NEW base \in {10, 16}, NEW d \in 0 .. base - 1
    PROVE  DigitOf(HexDigit(d), base) = d
<1>1. \A x \in 0 .. base - 1 : HexDigit(x) = HexDigit(d) => x = d
    BY DEF HexDigit, Zero
<1>2. QED
    BY <1>1 DEF DigitOf

\* Number adds up the digits from the first to the last.
LEMMA NumberReads ==
    ASSUME NEW base \in {10, 16}, NEW s, Digits(s, base)
    PROVE  \E val : Values(val, s, base) /\ Number(s, base) = val[Len(s)]
<1> DEFINE n == Len(s)
           Eqn(g) == g = [k \in 0 .. Len(s) |->
                            IF k = 0 THEN 0
                            ELSE base * g[k - 1]
                                   + (CHOOSE d \in 0 .. base - 1 :
                                          HexDigit(d) = s[k])]
           v == CHOOSE g : Eqn(g)
<1>1. Number(s, base) = v[Len(s)]
    BY DEF Number
<1>2. n \in Nat
    BY DEF Digits, Chars
<1>3. \A k \in 1 .. n : DigitOf(s[k], base) \in Nat
    <2> TAKE k \in 1 .. n
    <2>1. PICK d \in 0 .. base - 1 : HexDigit(d) = s[k]
        BY DEF Digits
    <2>2. DigitOf(HexDigit(d), base) = d
        BY DigitRead
    <2>3. QED
        BY <2>1, <2>2
<1>4. \E f \in [0 .. n -> Nat] :
          /\ f[0] = 0
          /\ \A k \in 1 .. n : f[k] = base * f[k - 1] + DigitOf(s[k], base)
    <2> HIDE DEF n
    <2> DEFINE B == {0}
               D == 0 .. n
               p == [k \in D |-> k - 1]
               e == [k \in D |-> 0]
               F == [k \in D |-> [x \in Nat |->
                        IF k = 0 THEN 0 ELSE base * x + DigitOf(s[k], base)]]
    <2>1. e \in [D -> Nat]
        OBVIOUS
    <2>2. F \in [D -> [Nat -> Nat]]
        <3>1. ASSUME NEW k \in D, NEW x \in Nat
              PROVE  (IF k = 0 THEN 0 ELSE base * x + DigitOf(s[k], base)) \in Nat
            <4>1. CASE k = 0
                BY <4>1
            <4>2. CASE k # 0
                <5>1. DigitOf(s[k], base) \in Nat
                    BY <1>2, <1>3, <4>2
                <5>2. QED
                    BY <4>2, <5>1
            <4>3. QED
                BY <4>1, <4>2
        <3>2. QED
            BY <3>1
    <2>3. Descends(D, B, p)
        BY <1>2 DEF Descends
    <2>4. /\ 0 \in D
          /\ \A k \in 1 .. n : k \in D /\ k - 1 \in D /\ k \notin B
          /\ e[0] = 0
          /\ \A k \in 1 .. n : p[k] = k - 1
          /\ \A k \in 1 .. n, x \in Nat : F[k][x] = base * x + DigitOf(s[k], base)
        BY <1>2
    <2> HIDE DEF p, e, F
    <2>5. PICK f \in [D -> Nat] : Computes(f, D, B, p, e, F)
        BY <2>1, <2>2, <2>3, Recursion
    <2>6. f[0] = 0
        BY <2>4, <2>5 DEF Computes
    <2>7. ASSUME NEW k \in 1 .. n
          PROVE  f[k] = base * f[k - 1] + DigitOf(s[k], base)
        <3>1. f[k] = F[k][f[k - 1]]
            <4>1. k \in D /\ k \notin B /\ p[k] = k - 1
                BY <2>4
            <4>2. f[k] = F[k][f[p[k]]]
                BY <2>5, <4>1 DEF Computes
            <4>3. QED
                BY <4>1, <4>2
        <3>2. f[k - 1] \in Nat
            BY <2>4
        <3>3. QED
            BY <2>4, <3>1, <3>2
    <2>8. QED
        BY <2>6, <2>7
<1>5. PICK f \in [0 .. n -> Nat] :
          /\ f[0] = 0
          /\ \A k \in 1 .. n : f[k] = base * f[k - 1] + DigitOf(s[k], base)
    BY <1>4
<1>6. Eqn(f)
    <2>1. \A k \in 0 .. n : f[k] = IF k = 0 THEN 0
                                   ELSE base * f[k - 1] + DigitOf(s[k], base)
        BY <1>2, <1>5
    <2>2. QED
        BY <2>1 DEF DigitOf
<1>7. Eqn(v)
    BY <1>6, Zenon
<1> HIDE DEF v
<1>8. /\ v = [k \in 0 .. n |-> v[k]]
      /\ \A k \in 0 .. n : v[k] = IF k = 0 THEN 0
                                  ELSE base * v[k - 1] + DigitOf(s[k], base)
    BY <1>7 DEF DigitOf
<1> HIDE DEF Eqn
<1>9. v[0] = 0 /\ \A k \in 1 .. n : v[k] = base * v[k - 1] + DigitOf(s[k], base)
    BY <1>2, <1>8
<1>10. Nat \subseteq {k \in Nat : k <= n => v[k] \in Nat}
    <2> HIDE DEF n
    <2> DEFINE G == {k \in Nat : k <= n => v[k] \in Nat}
    <2>1. ASSUME NEW k \in Nat, \A l \in Nat : l < k => l \in G
          PROVE  k \in G
        <3> SUFFICES ASSUME k <= n PROVE v[k] \in Nat
            OBVIOUS
        <3>1. CASE k = 0
            BY <1>9, <3>1
        <3>2. CASE k # 0
            <4>1. k - 1 \in Nat /\ k - 1 < k /\ k - 1 <= n /\ k \in 1 .. n
                BY <1>2, <3>2
            <4>2. v[k - 1] \in Nat
                BY <2>1, <4>1
            <4>3. DigitOf(s[k], base) \in Nat
                BY <1>3, <4>1
            <4>4. v[k] = base * v[k - 1] + DigitOf(s[k], base)
                BY <1>9, <4>1
            <4>5. QED
                BY <4>2, <4>3, <4>4
        <3>3. QED
            BY <3>1, <3>2
    <2> HIDE DEF G
    <2>2. Nat \subseteq G
        BY <2>1, NumberInduction
    <2>3. QED
        BY <2>2 DEF G
<1>11. Values(v, s, base)
    <2>1. \A k \in 0 .. n : v[k] \in Nat
        BY <1>2, <1>10
    <2>2. v \in [0 .. n -> Nat]
        BY <1>8, <2>1
    <2>3. QED
        BY <1>9, <2>2 DEF Values
<1>12. QED
    BY <1>1, <1>11

\* What the first digits stand for does not depend on the ones behind them.
LEMMA ValuesAgree ==
    ASSUME NEW base, NEW s \in Chars, NEW t \in Chars, NEW f, NEW g,
           Values(f, s, base), Values(g, t, base),
           NEW n \in Nat, n <= Len(s), n <= Len(t),
           \A k \in 1 .. n : s[k] = t[k]
    PROVE  f[n] = g[n]
<1> DEFINE G == {k \in Nat : k <= n => f[k] = g[k]}
<1>1. Len(s) \in Nat /\ Len(t) \in Nat
    BY DEF Chars
<1>2. ASSUME NEW k \in Nat, \A l \in Nat : l < k => l \in G
      PROVE  k \in G
    <2> SUFFICES ASSUME k <= n PROVE f[k] = g[k]
        OBVIOUS
    <2>1. CASE k = 0
        BY <2>1 DEF Values
    <2>2. CASE k # 0
        <3>1. /\ k - 1 \in Nat /\ k - 1 < k /\ k - 1 <= n /\ k \in 1 .. n
              /\ k \in 1 .. Len(s) /\ k \in 1 .. Len(t)
            BY <1>1, <2>2
        <3>2. f[k - 1] = g[k - 1] /\ s[k] = t[k]
            BY <1>2, <3>1
        <3>3. /\ f[k] = base * f[k - 1] + DigitOf(s[k], base)
              /\ g[k] = base * g[k - 1] + DigitOf(t[k], base)
            BY <3>1 DEF Values
        <3>4. QED
            BY <3>2, <3>3, Zenon
    <2>3. QED
        BY <2>1, <2>2
<1> HIDE DEF G
<1>3. Nat \subseteq G
    BY <1>2, NumberInduction
<1>4. QED
    BY <1>3 DEF G

\* One more digit makes base times as much, and the digit.
LEMMA NumberAppend ==
    ASSUME NEW base \in {10, 16}, NEW s, Digits(s, base), NEW d \in 0 .. base - 1
    PROVE  /\ Digits(Append(s, HexDigit(d)), base)
           /\ Number(Append(s, HexDigit(d)), base) = base * Number(s, base) + d
<1> DEFINE t == Append(s, HexDigit(d))
<1>1. s \in Chars /\ Len(s) \in Nat /\ HexDigit(d) \in Int
    BY DEF Digits, Chars, HexDigit, Zero
<1>2. /\ t \in Chars /\ Len(t) = Len(s) + 1
      /\ \A k \in 1 .. Len(s) : t[k] = s[k]
      /\ t[Len(s) + 1] = HexDigit(d)
    BY <1>1, AppendProperties DEF Chars
<1> HIDE DEF t
<1>3. Digits(t, base)
    <2>1. \A k \in 1 .. Len(t) : k \in 1 .. Len(s) \/ k = Len(s) + 1
        BY <1>1, <1>2
    <2>2. ASSUME NEW k \in 1 .. Len(t)
          PROVE  \E x \in 0 .. base - 1 : HexDigit(x) = t[k]
        <3>1. CASE k \in 1 .. Len(s)
            BY <1>2, <3>1 DEF Digits
        <3>2. CASE k = Len(s) + 1
            BY <1>2, <3>2
        <3>3. QED
            BY <2>1, <3>1, <3>2
    <2>3. QED
        BY <1>2, <2>2 DEF Digits
<1>4. PICK f : Values(f, s, base) /\ Number(s, base) = f[Len(s)]
    BY NumberReads
<1>5. PICK g : Values(g, t, base) /\ Number(t, base) = g[Len(t)]
    BY <1>3, NumberReads
<1>6. f[Len(s)] = g[Len(s)]
    BY <1>1, <1>2, <1>4, <1>5, ValuesAgree
<1>7. g[Len(t)] = base * g[Len(s)] + DigitOf(HexDigit(d), base)
    <2>1. Len(t) \in 1 .. Len(t) /\ Len(t) - 1 = Len(s)
        BY <1>1, <1>2
    <2>2. QED
        BY <1>2, <1>5, <2>1 DEF Values
<1>8. QED
    BY <1>3, <1>4, <1>5, <1>6, <1>7, DigitRead DEF t

\* A single digit stands for itself.
LEMMA NumberSingle ==
    ASSUME NEW base \in {10, 16}, NEW d \in 0 .. base - 1
    PROVE  Digits(<<HexDigit(d)>>, base) /\ Number(<<HexDigit(d)>>, base) = d
<1> DEFINE t == <<HexDigit(d)>>
<1>1. t \in Chars /\ Len(t) = 1 /\ t[1] = HexDigit(d)
    BY DEF Chars, HexDigit, Zero
<1> HIDE DEF t
<1>2. Digits(t, base)
    BY <1>1 DEF Digits
<1>3. PICK g : Values(g, t, base) /\ Number(t, base) = g[Len(t)]
    BY <1>2, NumberReads
<1>4. g[0] = 0 /\ g[1] = base * g[0] + DigitOf(HexDigit(d), base)
    BY <1>1, <1>3 DEF Values
<1>5. g[1] = d
    BY <1>4, DigitRead
<1>6. QED
    BY <1>1, <1>2, <1>3, <1>5 DEF t

\* klog_dec and klog_prefix print every number so that it reads back as
\* itself (klog.c:37-46 and 90-107).
THEOREM DecimalReadsBack ==
    \A v \in Nat : Digits(Decimal(v), 10) /\ Number(Decimal(v), 10) = v
<1> DEFINE Ok(v) == Digits(Decimal(v), 10) /\ Number(Decimal(v), 10) = v
           G == {v \in Nat : Ok(v)}
<1>1. ASSUME NEW v \in Nat, \A k \in Nat : k < v => k \in G
      PROVE  v \in G
    <2>1. CASE v < 10
        <3>1. Decimal(v) = <<HexDigit(v)>> /\ v \in 0 .. 10 - 1
            BY <2>1, DecimalDigits DEF HexDigit
        <3>2. QED
            BY <3>1, NumberSingle
    <2>2. CASE ~ (v < 10)
        <3>1. v \div 10 \in Nat /\ v \div 10 < v /\ v % 10 \in 0 .. 10 - 1
            BY <2>2
        <3>2. Ok(v \div 10)
            BY <1>1, <3>1
        <3>3. Decimal(v) = Append(Decimal(v \div 10), HexDigit(v % 10))
            BY <2>2, <3>1, DecimalDigits DEF HexDigit
        <3>4. /\ Digits(Decimal(v), 10)
              /\ Number(Decimal(v), 10) = 10 * Number(Decimal(v \div 10), 10) + (v % 10)
            BY <3>1, <3>2, <3>3, NumberAppend
        <3>5. 10 * (v \div 10) + (v % 10) = v
            OBVIOUS
        <3>6. QED
            BY <3>2, <3>4, <3>5
    <2>3. QED
        BY <2>1, <2>2
<1> HIDE DEF G
<1>2. Nat \subseteq G
    BY <1>1, NumberInduction
<1>3. QED
    BY <1>2 DEF G

\* The numbers below m need at most n digits.
Within(m, n) == \A v \in Nat : v < m => Len(Decimal(v)) <= n

LEMMA OneMoreDigit ==
    ASSUME NEW m \in Nat, m > 0, NEW n \in Nat, n > 0, Within(m, n)
    PROVE  Within(10 * m, n + 1)
<1> SUFFICES ASSUME NEW v \in Nat, v < 10 * m
             PROVE  Len(Decimal(v)) <= n + 1
    BY DEF Within
<1>1. CASE v < 10
    <2>1. Len(Decimal(v)) = 1
        BY <1>1, DecimalDigits
    <2>2. QED
        BY <2>1
<1>2. CASE ~ (v < 10)
    <2>1. v \div 10 \in Nat /\ v \div 10 < m
        OBVIOUS
    <2>2. Decimal(v \div 10) \in Chars /\ Len(Decimal(v \div 10)) <= n
        BY <2>1, DecimalDigits DEF Within
    <2>3. Decimal(v) = Append(Decimal(v \div 10), Zero + (v % 10))
        BY <1>2, DecimalDigits
    <2>4. Len(Decimal(v)) = Len(Decimal(v \div 10)) + 1
        BY <2>2, <2>3 DEF Chars, Zero
    <2>5. Len(Decimal(v \div 10)) \in Nat
        BY <2>2 DEF Chars
    <2>6. QED
        BY <2>2, <2>4, <2>5
<1>3. QED
    BY <1>1, <1>2

LEMMA FiveMoreDigits ==
    ASSUME NEW m \in Nat, m > 0, NEW n \in Nat, n > 0, Within(m, n)
    PROVE  Within(100000 * m, n + 5)
<1>1. Within(10 * m, n + 1)
    BY OneMoreDigit
<1>2. Within(100 * m, n + 2)
    <2>1. Within(10 * (10 * m), (n + 1) + 1)
        BY <1>1, OneMoreDigit
    <2>2. QED
        BY <2>1
<1>3. Within(1000 * m, n + 3)
    <2>1. Within(10 * (100 * m), (n + 2) + 1)
        BY <1>2, OneMoreDigit
    <2>2. QED
        BY <2>1
<1>4. Within(10000 * m, n + 4)
    <2>1. Within(10 * (1000 * m), (n + 3) + 1)
        BY <1>3, OneMoreDigit
    <2>2. QED
        BY <2>1
<1>5. QED
    <2>1. Within(10 * (10000 * m), (n + 4) + 1)
        BY <1>4, OneMoreDigit
    <2>2. QED
        BY <2>1

\* Five digits are enough below 100000.
LEMMA FiveDigits == Within(100000, 5)
<1>1. Within(10, 1)
    <2> SUFFICES ASSUME NEW v \in Nat, v < 10 PROVE Len(Decimal(v)) <= 1
        BY DEF Within
    <2>1. Decimal(v) = <<Zero + v>>
        BY DecimalDigits
    <2>2. QED
        BY <2>1
<1>2. Within(100, 2)
    <2>1. Within(10 * 10, 1 + 1)
        BY <1>1, OneMoreDigit
    <2>2. QED
        BY <2>1
<1>3. Within(1000, 3)
    <2>1. Within(10 * 100, 2 + 1)
        BY <1>2, OneMoreDigit
    <2>2. QED
        BY <2>1
<1>4. Within(10000, 4)
    <2>1. Within(10 * 1000, 3 + 1)
        BY <1>3, OneMoreDigit
    <2>2. QED
        BY <2>1
<1>5. QED
    <2>1. Within(10 * 10000, 4 + 1)
        BY <1>4, OneMoreDigit
    <2>2. QED
        BY <2>1

Wide == 65536 * 65536 * 65536 * 65536           \* 2^64

\* The buffers of klog_dec (20 characters) and klog_prefix (the first 20 of
\* 22) hold every number that a uint64_t can have: the bound of their loops
\* never cuts one short (klog.c:42 and 99).
THEOREM DecimalFitsBuffer ==
    \A v \in Nat : v < Wide => Len(Decimal(v)) <= 20
<1> DEFINE m == 100000 * 100000
<1>1. m \in Nat /\ m > 0
    OBVIOUS
<1>2. Within(m, 10)
    <2>1. Within(100000 * 100000, 5 + 5)
        BY FiveDigits, FiveMoreDigits
    <2>2. QED
        BY <2>1
<1> HIDE DEF m
<1>3. Within(100000 * m, 15)
    <2>1. Within(100000 * m, 10 + 5)
        BY <1>1, <1>2, FiveMoreDigits
    <2>2. QED
        BY <2>1
<1>4. Within(100000 * (100000 * m), 20)
    <2>1. Within(100000 * (100000 * m), 15 + 5)
        BY <1>1, <1>3, FiveMoreDigits
    <2>2. QED
        BY <2>1
<1>5. Wide <= 100000 * (100000 * m) /\ Wide \in Nat
    <2>1. PICK q \in Nat : q = 65536 * 65536
        OBVIOUS
    <2>2. q <= m
        BY <2>1 DEF m
    <2>3. Wide = q * 65536 * 65536
        BY <2>1 DEF Wide
    <2>4. QED
        BY <1>1, <2>2, <2>3
<1>6. QED
    BY <1>1, <1>4, <1>5 DEF Within

\* console_puthex64 prints 16 nibbles that read back as the number, for every
\* number that a uint64_t can have (console.c:112-121).
THEOREM HexReadsBack ==
    \A v \in Nat : v < Wide =>
        /\ Len(Tail(Hex64(v))) = 16
        /\ Digits(Tail(Hex64(v)), 16) /\ Number(Tail(Hex64(v)), 16) = v
<1> SUFFICES ASSUME NEW v \in Nat, v < Wide
             PROVE  /\ Len(Tail(Hex64(v))) = 16
                    /\ Digits(Tail(Hex64(v)), 16)
                    /\ Number(Tail(Hex64(v)), 16) = v
    OBVIOUS
<1> DEFINE Eqn(g) == g = [k \in 0 .. 15 |->
                            IF k = 0 THEN v ELSE g[k - 1] \div 16]
           sh == CHOOSE g : Eqn(g)
           t == [k \in 1 .. 16 |-> HexDigit(sh[16 - k] % 16)]
<1>1. Hex64(v) = <<Text>> \o t
    BY DEF Hex64
<1>2. \E g \in [0 .. 15 -> Nat] : Eqn(g)
    <2> DEFINE B == {0}
               D == 0 .. 15
               p == [k \in D |-> k - 1]
               e == [k \in D |-> v]
               F == [k \in D |-> [x \in Nat |-> x \div 16]]
    <2>1. e \in [D -> Nat] /\ F \in [D -> [Nat -> Nat]]
        OBVIOUS
    <2>2. Descends(D, B, p)
        BY DEF Descends
    <2>3. /\ \A k \in D : k # 0 => k - 1 \in D
          /\ \A k \in D : e[k] = v /\ p[k] = k - 1
          /\ \A k \in D, x \in Nat : F[k][x] = x \div 16
        OBVIOUS
    <2> HIDE DEF p, e, F
    <2>4. PICK f \in [D -> Nat] : Computes(f, D, B, p, e, F)
        BY <2>1, <2>2, Recursion
    <2>5. ASSUME NEW k \in D
          PROVE  f[k] = IF k = 0 THEN v ELSE f[k - 1] \div 16
        <3>1. f[k] = IF k = 0 THEN e[k] ELSE F[k][f[p[k]]]
            BY <2>4 DEF Computes
        <3>2. k # 0 => f[k - 1] \in Nat
            BY <2>3
        <3>3. QED
            BY <2>3, <3>1, <3>2
    <2>6. Eqn(f)
        BY <2>5
    <2>7. QED
        BY <2>6
<1>3. Eqn(sh)
    BY <1>2, Zenon
<1> HIDE DEF sh
<1>4. sh[0] = v /\ \A k \in 1 .. 15 : sh[k] = sh[k - 1] \div 16
    BY <1>3
<1> HIDE DEF Eqn
<1>5. \A k \in 0 .. 15 : sh[k] \in Nat
    <2> DEFINE G == {k \in Nat : k <= 15 => sh[k] \in Nat}
    <2>1. ASSUME NEW k \in Nat, \A l \in Nat : l < k => l \in G
          PROVE  k \in G
        <3> SUFFICES ASSUME k <= 15 PROVE sh[k] \in Nat
            OBVIOUS
        <3>1. CASE k = 0
            BY <1>4, <3>1
        <3>2. CASE k # 0
            <4>1. k - 1 \in Nat /\ k - 1 < k /\ k \in 1 .. 15
                BY <3>2
            <4>2. sh[k - 1] \in Nat
                BY <2>1, <4>1
            <4>3. QED
                BY <1>4, <4>1, <4>2
        <3>3. QED
            BY <3>1, <3>2
    <2> HIDE DEF G
    <2>2. Nat \subseteq G
        BY <2>1, NumberInduction
    <2>3. QED
        BY <2>2 DEF G
<1>6. sh[15] < 16
    <2>1. ASSUME NEW k \in 1 .. 15, NEW y \in Nat, sh[k - 1] < 16 * y
          PROVE  sh[k] < y
        <3>1. PICK x \in Nat : x = sh[k - 1]
            BY <1>5
        <3>2. sh[k] = x \div 16 /\ x < 16 * y
            BY <1>4, <2>1, <3>1
        <3>3. QED
            BY <3>2
    <2>2. ASSUME NEW k \in 0 .. 11, NEW y \in Nat, sh[k] < 65536 * y
          PROVE  sh[k + 4] < y
        <3>1. sh[k + 1] < 4096 * y
            <4>1. sh[(k + 1) - 1] < 16 * (4096 * y)
                BY <2>2
            <4>2. QED
                BY <2>1, <4>1
        <3>2. sh[k + 2] < 256 * y
            <4>1. sh[(k + 2) - 1] < 16 * (256 * y)
                BY <3>1
            <4>2. QED
                BY <2>1, <4>1
        <3>3. sh[k + 3] < 16 * y
            <4>1. sh[(k + 3) - 1] < 16 * (16 * y)
                BY <3>2
            <4>2. QED
                BY <2>1, <4>1
        <3>4. QED
            <4>1. sh[(k + 4) - 1] < 16 * y
                BY <3>3
            <4>2. QED
                BY <2>1, <4>1
    <2>3. PICK q \in Nat : q = 65536 * 65536
        OBVIOUS
    <2>4. sh[0] < 65536 * (65536 * q)
        BY <1>4, <2>3 DEF Wide
    <2>5. sh[0 + 4] < 65536 * q
        BY <2>2, <2>4
    <2>6. sh[4 + 4] < q
        BY <2>2, <2>5
    <2>7. sh[8 + 4] < 65536
        BY <2>2, <2>3, <2>6
    <2>8. sh[13] < 4096
        BY <2>1, <2>7
    <2>9. sh[14] < 256
        BY <2>1, <2>8
    <2>10. QED
        BY <2>1, <2>9
<1>7. ASSUME NEW k \in 1 .. 16
      PROVE  /\ 16 - k \in 0 .. 15
             /\ sh[16 - k] % 16 \in 0 .. 16 - 1
             /\ HexDigit(sh[16 - k] % 16) \in Int
    <2>1. 16 - k \in 0 .. 15
        OBVIOUS
    <2>2. sh[16 - k] \in Nat
        BY <1>5, <2>1
    <2>3. QED
        BY <2>1, <2>2 DEF HexDigit, Zero
<1>8. t \in Chars /\ Len(t) = 16 /\ \A k \in 1 .. 16 : t[k] = HexDigit(sh[16 - k] % 16)
    BY <1>7 DEF Chars
<1> HIDE DEF t
<1>9. Tail(Hex64(v)) = t
    <2>1. <<Text>> \in Chars /\ Len(<<Text>>) = 1
        BY DEF Chars, Text
    <2>2. QED
        BY <1>1, <1>8, <2>1, Behind
<1>10. Digits(t, 16)
    BY <1>7, <1>8 DEF Digits
<1>11. PICK val : Values(val, t, 16) /\ Number(t, 16) = val[16]
    BY <1>8, <1>10, NumberReads
<1>12. val[0] = 0 /\ \A k \in 1 .. 16 : val[k] = 16 * val[k - 1] + (sh[16 - k] % 16)
    <2>1. val[0] = 0 /\ \A k \in 1 .. 16 : val[k] = 16 * val[k - 1] + DigitOf(t[k], 16)
        BY <1>8, <1>11 DEF Values
    <2>2. \A k \in 1 .. 16 : DigitOf(t[k], 16) = sh[16 - k] % 16
        BY <1>7, <1>8, DigitRead
    <2>3. QED
        BY <2>1, <2>2
<1>13. \A k \in 1 .. 16 : val[k] = sh[16 - k]
    <2> DEFINE G == {k \in Nat : k \in 1 .. 16 => val[k] = sh[16 - k]}
    <2>1. ASSUME NEW k \in Nat, \A l \in Nat : l < k => l \in G
          PROVE  k \in G
        <3> SUFFICES ASSUME k \in 1 .. 16 PROVE val[k] = sh[16 - k]
            OBVIOUS
        <3>1. CASE k = 1
            <4>1. val[1] = 16 * 0 + (sh[15] % 16)
                BY <1>12
            <4>2. QED
                BY <1>5, <1>6, <3>1, <4>1
        <3>2. CASE k # 1
            <4>1. k - 1 \in Nat /\ k - 1 < k /\ k - 1 \in 1 .. 16
                BY <3>2
            <4>2. val[k - 1] = sh[16 - (k - 1)]
                BY <2>1, <4>1
            <4>3. 16 - (k - 1) \in 1 .. 15 /\ (16 - (k - 1)) - 1 = 16 - k
                  /\ 16 - k \in 0 .. 15
                BY <3>2
            <4>4. val[k - 1] = sh[16 - k] \div 16
                BY <1>4, <4>2, <4>3
            <4>5. PICK x \in Nat : x = sh[16 - k]
                BY <1>5, <4>3
            <4>6. val[k] = 16 * (x \div 16) + (x % 16)
                BY <1>12, <4>4, <4>5
            <4>7. QED
                BY <4>5, <4>6
        <3>3. QED
            BY <3>1, <3>2
    <2> HIDE DEF G
    <2>2. Nat \subseteq G
        BY <2>1, NumberInduction
    <2>3. QED
        BY <2>2 DEF G
<1>14. val[16] = v
    BY <1>4, <1>13
<1>15. QED
    BY <1>8, <1>9, <1>10, <1>11, <1>14

-----------------------------------------------------------------------------
(* The time of a line                                                      *)

\* The six digits behind the point.
Fraction(f) ==
    [k \in 1 .. 6 |-> Zero + ((f \div <<100000, 10000, 1000, 100, 10, 1>>[k]) % 10)]

Second == 1000000               \* microseconds

LEMMA FractionReadsBack ==
    ASSUME NEW f \in Nat, f < Second
    PROVE  /\ Len(Fraction(f)) = 6
           /\ Digits(Fraction(f), 10)
           /\ Number(Fraction(f), 10) = f
<1> DEFINE t == Fraction(f)
           a1 == (f \div 100000) % 10
           a2 == (f \div 10000) % 10
           a3 == (f \div 1000) % 10
           a4 == (f \div 100) % 10
           a5 == (f \div 10) % 10
           a6 == f % 10
<1>1. /\ a1 \in 0 .. 10 - 1 /\ a2 \in 0 .. 10 - 1 /\ a3 \in 0 .. 10 - 1
      /\ a4 \in 0 .. 10 - 1 /\ a5 \in 0 .. 10 - 1 /\ a6 \in 0 .. 10 - 1
    BY SMT
<1>2. 10 * (10 * (10 * (10 * (10 * a1 + a2) + a3) + a4) + a5) + a6 = f
    <2>1. \A x \in Nat : 10 * (x \div 10) + (x % 10) = x
        BY SMT
    <2>2. /\ f \div 10 \in Nat /\ f \div 100 \in Nat /\ f \div 1000 \in Nat
          /\ f \div 10000 \in Nat /\ f \div 100000 \in Nat
        BY SMT
    <2>3. f \div 100 = (f \div 10) \div 10
        BY SMT
    <2>4. f \div 1000 = (f \div 100) \div 10
        BY SMT
    <2>5. f \div 10000 = (f \div 1000) \div 10
        BY SMT
    <2>6. f \div 100000 = (f \div 10000) \div 10
        BY SMT
    <2>7. f \div 100000 < 10
        BY SMT DEF Second
    <2>8. a1 = f \div 100000
        BY <2>2, <2>7, SMT
    <2>9. 10 * a1 + a2 = f \div 10000
        BY <2>1, <2>2, <2>6, <2>8, SMT
    <2>10. 10 * (f \div 10000) + a3 = f \div 1000
        BY <2>1, <2>2, <2>5, SMT
    <2>11. 10 * (f \div 1000) + a4 = f \div 100
        BY <2>1, <2>2, <2>4, SMT
    <2>12. 10 * (f \div 100) + a5 = f \div 10
        BY <2>1, <2>2, <2>3, SMT
    <2>13. 10 * (f \div 10) + a6 = f
        BY <2>1, SMT
    <2> HIDE DEF a1, a2, a3, a4, a5, a6
    <2>14. QED
        BY <1>1, <2>2, <2>9, <2>10, <2>11, <2>12, <2>13, SMT
<1>3. f \div 1 = f
    BY SMT
<1>4. /\ t = [k \in 1 .. 6 |-> t[k]]
      /\ t[1] = Zero + a1 /\ t[2] = Zero + a2 /\ t[3] = Zero + a3
      /\ t[4] = Zero + a4 /\ t[5] = Zero + a5 /\ t[6] = Zero + a6
    BY <1>3, SMT DEF Fraction
<1> HIDE DEF t, a1, a2, a3, a4, a5, a6
<1>5. /\ t[1] = HexDigit(a1) /\ t[2] = HexDigit(a2) /\ t[3] = HexDigit(a3)
      /\ t[4] = HexDigit(a4) /\ t[5] = HexDigit(a5) /\ t[6] = HexDigit(a6)
    BY <1>1, <1>4, SMT DEF HexDigit
<1>6. \A k \in 1 .. 6 : k = 1 \/ k = 2 \/ k = 3 \/ k = 4 \/ k = 5 \/ k = 6
    BY SMT
<1>7. \A k \in 1 .. 6 : \E d \in 0 .. 10 - 1 : HexDigit(d) = t[k]
    BY <1>1, <1>5, <1>6, SMT
<1>8. \A k \in 1 .. 6 : t[k] \in Int
    <2>1. \A d \in 0 .. 10 - 1 : HexDigit(d) \in Int
        BY SMT DEF HexDigit, Zero
    <2>2. QED
        BY <1>7, <2>1, SMT
<1>9. t \in Chars /\ Len(t) = 6
    BY <1>4, <1>8, SMT DEF Chars
<1>10. Digits(t, 10)
    BY <1>7, <1>9, SMT DEF Digits
<1>11. PICK val : Values(val, t, 10) /\ Number(t, 10) = val[6]
    <2>1. \E val : Values(val, t, 10) /\ Number(t, 10) = val[Len(t)]
        BY <1>10, NumberReads, Zenon
    <2>2. QED
        BY <1>9, <2>1, Zenon
<1>12. /\ DigitOf(t[1], 10) = a1 /\ DigitOf(t[2], 10) = a2
       /\ DigitOf(t[3], 10) = a3 /\ DigitOf(t[4], 10) = a4
       /\ DigitOf(t[5], 10) = a5 /\ DigitOf(t[6], 10) = a6
    <2>1. \A d \in 0 .. 10 - 1 : DigitOf(HexDigit(d), 10) = d
        BY DigitRead, SMT
    <2>2. QED
        BY <1>1, <1>5, <2>1, SMT
<1>13. \A k \in 1 .. 6 : val[k] = 10 * val[k - 1] + DigitOf(t[k], 10)
    BY <1>9, <1>11, SMT DEF Values
<1>14. /\ val[0] = 0 /\ val[1] = 10 * val[0] + a1 /\ val[2] = 10 * val[1] + a2
       /\ val[3] = 10 * val[2] + a3 /\ val[4] = 10 * val[3] + a4
       /\ val[5] = 10 * val[4] + a5 /\ val[6] = 10 * val[5] + a6
    BY <1>11, <1>12, <1>13, SMT DEF Values
<1>15. val[6] = f
    BY <1>1, <1>2, <1>14, SMT
<1>16. QED
    BY <1>9, <1>10, <1>11, <1>15, SMT DEF t

\* A time is its seconds and what is left of the last one.
LEMMA SecondsAndTicks ==
    ASSUME NEW h \in Nat, h > 0, NEW t \in Nat
    PROVE  /\ t \div h \in Nat /\ t % h \in 0 .. h - 1
           /\ (t \div h) * h + (t % h) = t
    BY SMT

\* The field of a time t, and what is in it: blanks, seconds, a point and
\* the fraction.
Shaped(field, p, s, z) ==
    /\ p \in Nat /\ s \in Chars /\ z \in Chars /\ field \in Chars
    /\ Len(field) = p + Len(s) + 1 + Len(z)
    /\ \A k \in 1 .. p : field[k] = Blank
    /\ \A k \in 1 .. Len(s) : field[p + k] = s[k]
    /\ field[p + Len(s) + 1] = 46
    /\ \A k \in 1 .. Len(z) : field[p + Len(s) + 1 + k] = z[k]

LEMMA ShapedJoin ==
    ASSUME NEW p \in Nat, NEW b \in Chars, Len(b) = p,
           \A k \in 1 .. p : b[k] = Blank,
           NEW s \in Chars, NEW z \in Chars
    PROVE  Shaped(b \o s \o <<46>> \o z, p, s, z)
<1>1. PICK x : x = b \o s
    OBVIOUS
<1>2. PICK y : y = x \o <<46>>
    OBVIOUS
<1>3. PICK field : field = y \o z
    OBVIOUS
<1>4. PICK n \in Nat : n = Len(s)
    BY DEF Chars
<1>5. PICK m \in Nat : m = Len(z)
    BY DEF Chars
<1>6. /\ x \in Chars /\ Len(x) = p + n
      /\ \A k \in 1 .. p : x[k] = b[k]
      /\ \A k \in 1 .. n : x[p + k] = s[k]
    BY <1>1, <1>4, Joined
<1>7. <<46>> \in Chars /\ Len(<<46>>) = 1 /\ <<46>>[1] = 46
    BY DEF Chars
<1>8. PICK pt : pt = <<46>>
    OBVIOUS
<1>9. /\ y \in Chars /\ Len(y) = p + n + 1
      /\ \A k \in 1 .. p + n : y[k] = x[k]
      /\ \A k \in 1 .. 1 : y[(p + n) + k] = pt[k]
    <2>1. pt \in Chars /\ Len(pt) = 1
        BY <1>7, <1>8
    <2>2. /\ x \o pt \in Chars
          /\ Len(x \o pt) = Len(x) + Len(pt)
          /\ \A k \in 1 .. Len(x) : (x \o pt)[k] = x[k]
          /\ \A k \in 1 .. Len(pt) : (x \o pt)[Len(x) + k] = pt[k]
        BY <1>6, <2>1, Joined, Zenon
    <2>3. y = x \o pt
        BY <1>2, <1>8
    <2>4. QED
        BY <1>6, <2>1, <2>2, <2>3, Zenon
<1>10. y[p + n + 1] = 46
    BY <1>7, <1>8, <1>9
<1>11. /\ field \in Chars /\ Len(field) = p + n + 1 + m
       /\ \A k \in 1 .. p + n + 1 : field[k] = y[k]
       /\ \A k \in 1 .. m : field[p + n + 1 + k] = z[k]
    <2>1. /\ y \o z \in Chars
          /\ Len(y \o z) = Len(y) + Len(z)
          /\ \A k \in 1 .. Len(y) : (y \o z)[k] = y[k]
          /\ \A k \in 1 .. Len(z) : (y \o z)[Len(y) + k] = z[k]
        BY <1>9, Joined, Zenon
    <2>2. QED
        BY <1>3, <1>5, <1>9, <2>1, Zenon
<1>12. \A k \in 1 .. p : field[k] = Blank
    <2> TAKE k \in 1 .. p
    <2>1. k \in 1 .. p + n /\ k \in 1 .. p + n + 1
        OBVIOUS
    <2>2. QED
        BY <1>6, <1>9, <1>11, <2>1
<1>13. \A k \in 1 .. n : field[p + k] = s[k]
    <2> TAKE k \in 1 .. n
    <2>1. p + k \in 1 .. p + n /\ p + k \in 1 .. p + n + 1
        OBVIOUS
    <2>2. QED
        BY <1>6, <1>9, <1>11, <2>1
<1>14. field[p + n + 1] = 46
    <2>1. p + n + 1 \in 1 .. p + n + 1
        OBVIOUS
    <2>2. QED
        BY <1>10, <1>11, <2>1
<1>15. Shaped(field, p, s, z)
    BY <1>4, <1>5, <1>11, <1>12, <1>13, <1>14 DEF Shaped
<1>16. QED
    BY <1>1, <1>2, <1>3, <1>15

\* How many blanks come before n digits.
Padding(n) == IF n + 7 < KLOG_TIME_WIDTH THEN KLOG_TIME_WIDTH - (n + 7) ELSE 0

Blanks(n) ==
    IF n + 7 < KLOG_TIME_WIDTH
    THEN [k \in 1 .. KLOG_TIME_WIDTH - (n + 7) |-> Blank] ELSE <<>>

LEMMA TimeFieldShape ==
    ASSUME NEW t \in Nat, NEW s, s = Decimal(t \div PIT_HZ),
           NEW f \in Nat, f = (t % PIT_HZ) * 10000, f < Second
    PROVE  Shaped(TimeField(t), Padding(Len(s)), s, Fraction(f))
<1> DEFINE b == Blanks(Len(s))
           z == Fraction(f)
<1>1. TimeField(t) = b \o s \o <<46>> \o z
    <2>1. TimeField(t) = Blanks(Len(Decimal(t \div PIT_HZ))) \o Decimal(t \div PIT_HZ)
                             \o <<46>> \o Fraction((t % PIT_HZ) * 10000)
        BY DEF TimeField, Blanks, Fraction
    <2>2. QED
        BY <2>1
<1>2. s \in Chars /\ Len(s) \in Nat
    <2>1. t \div PIT_HZ \in Nat
        BY OutputAssumption, SecondsAndTicks
    <2>2. Decimal(t \div PIT_HZ) \in Chars
        BY <2>1, DecimalDigits
    <2>3. QED
        BY <2>2 DEF Chars
<1>3. z \in Chars
    BY FractionReadsBack DEF Digits
<1>4. /\ b \in Chars /\ Len(b) = Padding(Len(s))
      /\ \A k \in 1 .. Padding(Len(s)) : b[k] = Blank
      /\ Padding(Len(s)) \in Nat
    BY <1>2 DEF Chars, Blanks, Padding, KLOG_TIME_WIDTH, Blank
<1> HIDE DEF b, z
<1>5. Shaped(b \o s \o <<46>> \o z, Padding(Len(s)), s, z)
    BY <1>2, <1>3, <1>4, ShapedJoin
<1>6. QED
    BY <1>1, <1>5 DEF z

\* What the field of a time t should say.
FieldReads(t) ==
    LET field == TimeField(t)
        dot   == Len(field) - 6
        first == CHOOSE k \in 1 .. dot : /\ field[k] # Blank
                                         /\ \A j \in 1 .. k - 1 :
                                                field[j] = Blank
    IN  /\ field[dot] = 46
        /\ t = Number(SubSeq(field, first, dot - 1), 10) * PIT_HZ
                   + Number(SubSeq(field, dot + 1, Len(field)), 10) \div 10000
        /\ t < 100000 * PIT_HZ => Len(field) = KLOG_TIME_WIDTH

\* The digits of a number are at least one, and none of them is a blank.
LEMMA DecimalShown ==
    ASSUME NEW v \in Nat
    PROVE  /\ Len(Decimal(v)) \in Nat /\ Len(Decimal(v)) >= 1
           /\ Decimal(v)[1] # Blank
<1>1. Decimal(v) \in Chars /\ Len(Decimal(v)) \in Nat
    BY DecimalDigits DEF Chars
<1>2. Len(Decimal(v)) >= 1
    <2>1. CASE v < 10
        BY <2>1, DecimalDigits
    <2>2. CASE ~ (v < 10)
        <3>1. v \div 10 \in Nat
            OBVIOUS
        <3>2. Decimal(v \div 10) \in Chars
            BY <3>1, DecimalDigits
        <3>3. Decimal(v) = Append(Decimal(v \div 10), Zero + (v % 10))
            BY <2>2, DecimalDigits
        <3>4. QED
            BY <3>2, <3>3 DEF Chars, Zero
    <2>3. QED
        BY <2>1, <2>2
<1>3. \E d \in 0 .. 9 : HexDigit(d) = Decimal(v)[1]
    <2>1. Digits(Decimal(v), 10) /\ 1 \in 1 .. Len(Decimal(v))
        BY <1>1, <1>2, DecimalReadsBack
    <2>2. QED
        BY <2>1 DEF Digits
<1>4. \A d \in 0 .. 9 : HexDigit(d) # Blank
    BY DEF HexDigit, Zero, Blank
<1>5. QED
    BY <1>1, <1>2, <1>3, <1>4

\* What a reader of the field finds: s between the blanks and the dot in front
\* of the last six characters, and z behind it.
Parts(field, s, z) ==
    LET dot   == Len(field) - 6
        first == CHOOSE k \in 1 .. dot : /\ field[k] # Blank
                                         /\ \A j \in 1 .. k - 1 :
                                                field[j] = Blank
    IN  /\ field[dot] = 46
        /\ SubSeq(field, first, dot - 1) = s
        /\ SubSeq(field, dot + 1, Len(field)) = z

\* A field of that shape reads back as its seconds and its fraction.
LEMMA ShapedReads ==
    ASSUME NEW field, NEW p, NEW s, NEW z, Shaped(field, p, s, z),
           Len(s) >= 1, s[1] # Blank, Len(z) = 6
    PROVE  Parts(field, s, z)
<1> DEFINE dot == Len(field) - 6
           Lead(k) == /\ field[k] # Blank
                      /\ \A j \in 1 .. k - 1 : field[j] = Blank
           first == CHOOSE k \in 1 .. dot : Lead(k)
<1>1. PICK n \in Nat : n = Len(s)
    BY DEF Shaped, Chars
<1>2. p \in Nat /\ Len(field) = p + n + 7 /\ n >= 1
    BY <1>1 DEF Shaped
<1>3. dot = p + n + 1 /\ field[dot] = 46
    BY <1>1, <1>2 DEF Shaped
<1>4. Lead(p + 1)
    <2>1. field[p + 1] = s[1]
        BY <1>1, <1>2 DEF Shaped
    <2>2. \A j \in 1 .. p : field[j] = Blank
        BY DEF Shaped
    <2>3. QED
        BY <1>2, <2>1, <2>2
<1>5. ASSUME NEW k \in 1 .. dot, Lead(k) PROVE k = p + 1
    <2>1. ~ (k <= p)
        BY <1>2, <1>5 DEF Shaped
    <2>2. ~ (k > p + 1)
        <3>1. k > p + 1 => p + 1 \in 1 .. k - 1
            BY <1>2, <1>3
        <3>2. QED
            BY <1>4, <1>5, <3>1
    <2>3. QED
        BY <1>2, <1>3, <2>1, <2>2
<1>6. first = p + 1
    <2>1. p + 1 \in 1 .. dot
        BY <1>2, <1>3
    <2>2. QED
        BY <1>4, <1>5, <2>1, Zenon
<1> HIDE DEF first, Lead
<1>7. SubSeq(field, first, dot - 1) = s
    <2>1. SubSeq(field, p + 1, p + Len(s)) = s
        <3>1. field \in Chars /\ s \in Chars /\ \A k \in 1 .. Len(s) : field[p + k] = s[k]
            BY DEF Shaped
        <3>2. p + Len(s) <= Len(field)
            BY <1>1, <1>2
        <3>3. QED
            BY <1>2, <3>1, <3>2, Between
    <2>2. dot - 1 = p + Len(s)
        BY <1>1, <1>2, <1>3
    <2>3. QED
        BY <1>6, <2>1, <2>2
<1>8. SubSeq(field, dot + 1, Len(field)) = z
    <2>1. PICK m \in Nat : m = p + n + 1
        BY <1>2
    <2>2. \A k \in 1 .. Len(z) : field[m + k] = z[k]
        BY <1>1, <2>1 DEF Shaped
    <2>3. field \in Chars /\ z \in Chars /\ m + Len(z) = Len(field)
        BY <1>1, <1>2, <2>1 DEF Shaped
    <2>4. m + Len(z) <= Len(field)
        BY <1>2, <2>1, <2>3
    <2>5. SubSeq(field, m + 1, m + Len(z)) = z
        BY <2>2, <2>3, <2>4, Between
    <2>6. QED
        BY <1>3, <2>1, <2>3, <2>5
<1>9. QED
    BY <1>3, <1>7, <1>8 DEF Parts, first, Lead

\* The field between the brackets reads back as the tick counter, and is as
\* wide as klog.c:8-11 promises, for every number of ticks and every rate up
\* to 100 Hz; above it the 10000 per tick of klog.c:29 would not fit into the
\* six digits of the fraction.
THEOREM TimeReadsBack ==
    ASSUME PIT_HZ <= 100
    PROVE  \A t \in Nat : FieldReads(t)
<1> SUFFICES ASSUME NEW t \in Nat PROVE FieldReads(t)
    OBVIOUS
<1>1. PICK h \in Nat : h = PIT_HZ /\ h > 0 /\ h <= 100
    BY OutputAssumption
<1>2. PICK q \in Nat : q = t \div h
    BY <1>1, SecondsAndTicks
<1>3. PICK r \in Nat : r = t % h /\ r < h
    BY <1>1, SecondsAndTicks
<1>4. q * h + r = t
    BY <1>1, <1>2, <1>3, SecondsAndTicks
<1>5. PICK f \in Nat : f = r * 10000
    OBVIOUS
<1>6. f < Second /\ f \div 10000 = r
    BY <1>1, <1>3, <1>5, SMT DEF Second
<1>7. PICK s : s = Decimal(q)
    OBVIOUS
<1>8. Shaped(TimeField(t), Padding(Len(s)), s, Fraction(f))
    <2>1. s = Decimal(t \div PIT_HZ) /\ f = (t % PIT_HZ) * 10000
        BY <1>1, <1>2, <1>3, <1>5, <1>7, SMT
    <2>2. f < Second
        BY <1>6
    <2>3. QED
        BY <2>1, <2>2, TimeFieldShape
<1>9. /\ Len(s) \in Nat /\ Len(s) >= 1 /\ s[1] # Blank
      /\ Number(s, 10) = q
    BY <1>7, DecimalShown, DecimalReadsBack
<1>10. Len(Fraction(f)) = 6 /\ Number(Fraction(f), 10) = f
    BY <1>6, FractionReadsBack
<1> DEFINE field == TimeField(t)
           dot == Len(field) - 6
           first == CHOOSE k \in 1 .. dot : /\ field[k] # Blank
                                            /\ \A j \in 1 .. k - 1 :
                                                   field[j] = Blank
<1>11. /\ field[dot] = 46
       /\ SubSeq(field, first, dot - 1) = s
       /\ SubSeq(field, dot + 1, Len(field)) = Fraction(f)
    <2>1. Parts(TimeField(t), s, Fraction(f))
        BY <1>8, <1>9, <1>10, ShapedReads, SMT
    <2>2. QED
        BY <2>1, Zenon DEF Parts
<1>12. t < 100000 * PIT_HZ => Len(field) = KLOG_TIME_WIDTH
    <2> SUFFICES ASSUME t < 100000 * h PROVE Len(field) = KLOG_TIME_WIDTH
        BY <1>1
    <2>1. q < 100000
        BY <1>1, <1>4, SMT
    <2>2. Len(s) <= 5
        BY <1>7, <2>1, FiveDigits, SMT DEF Within
    <2>3. Len(field) = Padding(Len(s)) + Len(s) + 1 + 6
        BY <1>8, <1>10, SMT DEF Shaped
    <2>4. QED
        BY <1>9, <2>2, <2>3, SMT DEF Padding, KLOG_TIME_WIDTH
<1>13. t = Number(SubSeq(field, first, dot - 1), 10) * PIT_HZ
               + Number(SubSeq(field, dot + 1, Len(field)), 10) \div 10000
    <2>1. PICK a : a = SubSeq(field, first, dot - 1)
        BY Zenon
    <2>2. PICK b : b = SubSeq(field, dot + 1, Len(field))
        BY Zenon
    <2>3. a = s /\ b = Fraction(f)
        BY <1>11, <2>1, <2>2, SMT
    <2> HIDE DEF field, dot, first
    <2>4. t = Number(a, 10) * PIT_HZ + Number(b, 10) \div 10000
        BY <1>1, <1>4, <1>6, <1>9, <1>10, <2>3, SMT
    <2>5. QED
        BY <2>1, <2>2, <2>4, SMT
<1>14. QED
    BY <1>11, <1>12, <1>13 DEF FieldReads

=============================================================================
