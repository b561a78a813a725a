----------------------------- MODULE SwapProofs -----------------------------
(***************************************************************************)
(* The properties of Swap for every supply and every set of fees.          *)
(***************************************************************************)
EXTENDS Swap, Induction

\* Rounding down: the quotient is the largest number that fits.
LEMMA FloorDiv ==
  ASSUME NEW a \in Nat, NEW b \in Nat, b > 0
  PROVE  /\ a \div b \in Nat
         /\ (a \div b) * b <= a
         /\ a < (a \div b) * b + b
BY SMT

\* Multiplying two inequalities.
LEMMA ProductMonotone ==
  ASSUME NEW a \in Nat, NEW b \in Nat, NEW c \in Nat, NEW d \in Nat,
         a >= b, c >= d
  PROVE  a * c >= b * d
BY SMT
\* A common positive factor can be dropped.
LEMMA CancelFactor ==
  ASSUME NEW a \in Nat, NEW b \in Nat, NEW f \in Nat, f > 0, a * f <= b * f
  PROVE  a <= b
BY SMT

-----------------------------------------------------------------------------
(***************************************************************************)
(* The square root.  The guesses stay at or above the root (arithmetic over*)
(* geometric mean), they fall while the loop runs, and a guess that does   *)
(* not fall any more is not above the root either.                         *)
(***************************************************************************)
Guesses == Nat \X (Nat \ {0})
Better(n, r) == ((n \div r) + r) \div 2

\* The guesses the loop may have, with n under the square of each guess plus
\* one, and a first guess that is not above the root when it is the result.
Bracketed(n, g) ==
  /\ n < (g[1] + 1) * (g[1] + 1) /\ n < (g[2] + 1) * (g[2] + 1)
  /\ ~(g[2] < g[1]) => g[1] * g[1] <= n

LEMMA BetterType ==
  ASSUME NEW n \in Nat, n > 0, NEW r \in Nat \ {0}
  PROVE  Better(n, r) \in Nat \ {0}
<1>1. PICK q \in Nat : q = n \div r /\ q * r <= n /\ n < q * r + r
  BY FloorDiv
<1>2. q + r >= 2
  <2>1. CASE r = 1 BY <1>1, <2>1
  <2>2. CASE r > 1 BY <1>1, <2>2
  <2> QED BY <2>1, <2>2
<1>3. (q + r) \div 2 \in Nat \ {0} BY <1>1, <1>2
<1> QED BY <1>1, <1>3 DEF Better

\* The loop has a value: it goes from a guess to a smaller one.
LEMMA NewtonLoop ==
  ASSUME NEW n \in Nat, n > 0
  PROVE  \A g \in Guesses :
           /\ Newton(n)[g] = IF g[2] < g[1] THEN Newton(n)[<<g[2], Better(n, g[2])>>] ELSE g[1]
           /\ Newton(n)[g] \in Nat
<1> DEFINE rank == [g \in Guesses |-> g[1]]
           base == {g \in Guesses : ~(g[2] < g[1])}
           out == [g \in Guesses |-> g[1]]
           prev == [g \in Guesses |-> <<g[2], Better(n, g[2])>>]
           step == [p \in Guesses \X Nat |-> p[2]]
           Is(f) == f = [g \in Guesses |->
                           IF g[2] < g[1] THEN f[<<g[2], Better(n, g[2])>>] ELSE g[1]]
<1>1. \A g \in Guesses : g[1] \in Nat /\ g[2] \in Nat \ {0} /\ <<g[2], Better(n, g[2])>> \in Guesses
  BY BetterType DEF Guesses
<1>2. \A g \in base : out[g] \in Nat BY <1>1
<1>3. \A g \in Guesses \ base, v \in Nat : step[<<g, v>>] \in Nat OBVIOUS
<1>4. Descends(Guesses, rank, base, prev)
  <2>1. rank \in [Guesses -> Nat] BY <1>1
  <2>2. \A g \in Guesses \ base : prev[g] \in Guesses /\ rank[prev[g]] < rank[g] BY <1>1
  <2> QED BY <2>1, <2>2 DEF Descends
<1>5. \E f \in [Guesses -> Nat] : Recurs(f, Guesses, base, out, prev, step)
  <2> HIDE DEF rank, base, out, prev, step
  <2> QED BY <1>2, <1>3, <1>4, RecursionExists
<1>6. PICK f \in [Guesses -> Nat] : Recurs(f, Guesses, base, out, prev, step) BY <1>5
<1>7. Is(f)
  <2>1. \A g \in Guesses : f[g] = IF g[2] < g[1] THEN f[<<g[2], Better(n, g[2])>>] ELSE g[1]
    <3> SUFFICES ASSUME NEW g \in Guesses
                 PROVE  f[g] = IF g[2] < g[1] THEN f[<<g[2], Better(n, g[2])>>] ELSE g[1]
      OBVIOUS
    <3>1. f[g] = IF g \in base THEN out[g] ELSE step[<<g, f[prev[g]]>>] BY <1>6 DEF Recurs
    <3>2. g \notin base => step[<<g, f[prev[g]]>>] = f[prev[g]] BY <1>1
    <3> QED BY <3>1, <3>2
  <2> QED BY <2>1
<1>8. PICK h : h = CHOOSE k : Is(k) OBVIOUS
<1>9. Is(h)
  <2> HIDE DEF Is
  <2> QED BY <1>7, <1>8
<1>10. Newton(n) = h BY <1>8 DEF Newton, Better, Guesses
<1>11. \A g \in Guesses : h[g] \in Nat
  <2> DEFINE P == {g \in Guesses : h[g] \in Nat}
  <2>1. base \subseteq P BY <1>1, <1>9
  <2>2. ASSUME NEW g \in Guesses \ base, prev[g] \in P PROVE g \in P
    <3>1. h[g] = h[prev[g]] BY <1>9
    <3> QED BY <2>2, <3>1
  <2>3. Guesses \subseteq P
    <3> HIDE DEF rank, base, prev, P
    <3> QED BY <1>4, <2>1, <2>2, RankInduction
  <2> QED BY <2>3
<1> QED BY <1>9, <1>10, <1>11

\* A better guess is not below the root, and one that is no smaller than the
\* guess it came from shows that guess not to be above it.
LEMMA BetterBrackets ==
  ASSUME NEW n \in Nat, n > 0, NEW r \in Nat \ {0}, n < (r + 1) * (r + 1)
  PROVE  Bracketed(n, <<r, Better(n, r)>>)
<1>1. PICK q \in Nat : q = n \div r /\ q * r <= n /\ n < q * r + r
  BY FloorDiv
<1>2. PICK b \in Nat : b = Better(n, r) /\ 2 * b <= q + r /\ q + r < 2 * b + 2
  BY <1>1 DEF Better
<1>3. n < (b + 1) * (b + 1)
  <2>1. PICK s \in Nat : s = q + 1 + r OBVIOUS
  <2>2. PICK t \in Nat : t = 2 * (b + 1) OBVIOUS
  <2>3. s <= t BY <1>2, <2>1, <2>2
  <2>4. s * s <= t * t BY <2>1, <2>2, <2>3, ProductMonotone
  <2>5. t * t = 4 * ((b + 1) * (b + 1)) BY <2>2
  <2>6. 4 * ((q + 1) * r) <= s * s
    <3>1. PICK d \in Int : d = q + 1 - r OBVIOUS
    <3>2. d * d >= 0 BY <3>1
    <3>3. s * s = d * d + 4 * ((q + 1) * r) BY <2>1, <3>1
    <3>4. (q + 1) * r \in Nat /\ d * d \in Int /\ s * s \in Int BY <2>1, <3>1
    <3> HIDE <2>1, <3>1
    <3> QED BY <3>2, <3>3, <3>4
  <2>7. n < (q + 1) * r BY <1>1
  <2>8. (q + 1) * r \in Nat /\ s * s \in Nat /\ (b + 1) * (b + 1) \in Nat BY <2>1
  <2> QED BY <2>4, <2>5, <2>6, <2>7, <2>8
<1>4. ASSUME ~(b < r) PROVE r * r <= n
  <2>1. r <= q BY <1>2, <1>4
  <2>2. r * r <= q * r BY <2>1, ProductMonotone
  <2>3. r * r \in Nat /\ q * r \in Nat OBVIOUS
  <2> QED BY <1>1, <2>2, <2>3
<1> QED BY <1>2, <1>3, <1>4 DEF Bracketed

LEMMA NewtonFindsRoot ==
  ASSUME NEW n \in Nat, n > 0, NEW g \in Guesses, Bracketed(n, g)
  PROVE  IsSqrt(Newton(n)[g], n)
<1> DEFINE rank == [e \in Guesses |-> e[1]]
           base == {e \in Guesses : ~(e[2] < e[1])}
           prev == [e \in Guesses |-> <<e[2], Better(n, e[2])>>]
           P == {e \in Guesses : Bracketed(n, e) => IsSqrt(Newton(n)[e], n)}
<1>1. \A e \in Guesses : e[1] \in Nat /\ e[2] \in Nat \ {0} /\ <<e[2], Better(n, e[2])>> \in Guesses
  BY BetterType DEF Guesses
<1>2. Descends(Guesses, rank, base, prev)
  <2>1. rank \in [Guesses -> Nat] BY <1>1
  <2>2. \A e \in Guesses \ base : prev[e] \in Guesses /\ rank[prev[e]] < rank[e] BY <1>1
  <2> QED BY <2>1, <2>2 DEF Descends
<1>3. base \subseteq P
  <2> SUFFICES ASSUME NEW e \in Guesses, ~(e[2] < e[1]), Bracketed(n, e)
               PROVE  IsSqrt(Newton(n)[e], n)
    OBVIOUS
  <2>1. Newton(n)[e] = e[1] BY NewtonLoop
  <2> QED BY <2>1 DEF Bracketed, IsSqrt
<1>4. ASSUME NEW e \in Guesses \ base, prev[e] \in P PROVE e \in P
  <2> SUFFICES ASSUME Bracketed(n, e) PROVE IsSqrt(Newton(n)[e], n)
    OBVIOUS
  <2>1. Newton(n)[e] = Newton(n)[<<e[2], Better(n, e[2])>>] BY NewtonLoop
  <2>2. n < (e[2] + 1) * (e[2] + 1) BY DEF Bracketed
  <2>3. Bracketed(n, <<e[2], Better(n, e[2])>>) BY <1>1, <2>2, BetterBrackets
  <2> QED BY <1>4, <2>1, <2>3
<1>5. Guesses \subseteq P
  <2> HIDE DEF rank, base, prev, P
  <2> QED BY <1>2, <1>3, <1>4, RankInduction
<1> QED BY <1>5

\* For every number, the code's loop ends with the root rounded down.
LEMMA SqrtFindsRoot ==
  ASSUME NEW n \in Nat
  PROVE  sqrt(n) \in Nat /\ IsSqrt(sqrt(n), n)
<1>1. CASE n <= 3
  <2>1. n \in {0, 1, 2, 3} BY <1>1
  <2> QED BY <2>1 DEF sqrt, IsSqrt
<1>2. CASE n > 3
  <2>1. PICK h \in Nat : h = n \div 2 /\ 2 * h <= n /\ n < 2 * h + 2 OBVIOUS
  <2>2. h >= 2 BY <1>2, <2>1
  <2>3. <<n, h + 1>> \in Guesses BY <2>1 DEF Guesses
  <2>4. Bracketed(n, <<n, h + 1>>)
    <3>1. n < (n + 1) * (n + 1) OBVIOUS
    <3>2. n < (h + 2) * (h + 2)
      <4>1. (h + 2) * (h + 2) = h * h + 4 * h + 4 OBVIOUS
      <4>2. h * h \in Nat OBVIOUS
      <4> QED BY <2>1, <4>1, <4>2
    <3>3. h + 1 < n BY <1>2, <2>1, <2>2
    <3> QED BY <3>1, <3>2, <3>3 DEF Bracketed
  <2>5. sqrt(n) = Newton(n)[<<n, h + 1>>] BY <1>2, <2>1 DEF sqrt
  <2>6. PICK g \in Guesses : g = <<n, h + 1>> BY <2>3
  <2>7. Newton(n)[g] \in Nat
    <3>1. n > 0 BY <1>2
    <3> QED BY <3>1, NewtonLoop
  <2>8. IsSqrt(Newton(n)[g], n) BY <1>2, <2>4, <2>6, NewtonFindsRoot
  <2> QED BY <2>5, <2>6, <2>7, <2>8
<1> QED BY <1>1, <1>2

-----------------------------------------------------------------------------
(* The operations. *)

\* What a sale pays: less than the reserve, and so little that the product of
\* the reserves does not fall.
LEMMA SaleKeepsProduct ==
  ASSUME NEW in \in Nat, NEW out \in Nat, NEW d \in Nat,
         in > 0, out > 0, d > 0, fee \in 0 .. (Multiplier - 1)
  PROVE  /\ AmountOut(in, out, d) \in Nat
         /\ AmountOut(in, out, d) < out
         /\ (in + d) * (out - AmountOut(in, out, d)) >= in * out
<1> DEFINE f == Multiplier - fee
           den == in * Multiplier + d * f
           q == AmountOut(in, out, d)
<1>1. f \in Nat /\ f > 0 /\ f <= Multiplier /\ Multiplier = 10000
  BY DEF Multiplier
<1>2. d * f \in Nat /\ in * Multiplier \in Nat /\ in * Multiplier > 0
  BY <1>1
<1>3. den \in Nat /\ den > 0
  BY <1>2
<1>4. out * d \in Nat /\ out * d * f \in Nat
  BY <1>1
<1>5. q = (out * d * f) \div den
  BY DEF AmountOut
<1> HIDE DEF f, den, q
<1>6. q \in Nat /\ q * den <= out * d * f
  BY <1>3, <1>4, <1>5, FloorDiv
<1>7. den = in * Multiplier + d * f
  BY DEF den
<1>8. q < out
  <2> SUFFICES ASSUME q >= out PROVE FALSE
    BY <1>6
  <2>1. q * den >= out * den
    BY <1>3, <1>6, ProductMonotone
  <2>2. out * den = out * (in * Multiplier) + out * (d * f)
    BY <1>1, <1>2, <1>7
  <2>3. out * (in * Multiplier) > 0
    BY <1>2
  <2>4. out * (d * f) = out * d * f
    BY <1>1
  <2> QED BY <1>2, <1>3, <1>4, <1>6, <2>1, <2>2, <2>3, <2>4
<1>9. q * (in + d) <= out * d
  <2>1. (in + d) * f <= den
    <3>1. in * f <= in * Multiplier
      BY <1>1, ProductMonotone
    <3>2. (in + d) * f = in * f + d * f
      BY <1>1
    <3> QED BY <1>1, <1>2, <1>7, <3>1, <3>2
  <2>2. q * ((in + d) * f) <= q * den
    BY <1>1, <1>3, <1>6, <2>1, ProductMonotone
  <2>3. (q * (in + d)) * f <= (out * d) * f
    BY <1>1, <1>3, <1>4, <1>6, <2>2
  <2> QED BY <1>1, <1>4, <1>6, <2>3, CancelFactor
<1>10. (in + d) * (out - q) = in * out + out * d - q * (in + d)
  BY <1>6
<1> QED BY <1>4, <1>6, <1>8, <1>9, <1>10 DEF q
\* What a withdrawal pays: no more than the part, all of it for all shares.
LEMMA PartOfReserve ==
  ASSUME NEW r \in Nat, NEW a \in Nat, lp \in Nat, a > 0, a <= lp, r > 0
  PROVE  /\ Part(r, a) \in Nat /\ Part(r, a) <= r
         /\ a < lp => Part(r, a) < r
         /\ a = lp => Part(r, a) = r
         /\ (r - Part(r, a)) * lp >= r * (lp - a)
<1> DEFINE p == Part(r, a)
<1>1. a * r \in Nat /\ p = (a * r) \div lp
  BY DEF Part
<1> HIDE DEF p
<1>2. p \in Nat /\ p * lp <= a * r /\ a * r < p * lp + lp
  BY <1>1, FloorDiv
<1>3. a * r <= lp * r
  BY ProductMonotone
<1>4. p * lp <= r * lp
  BY <1>2, <1>3
<1>5. p <= r
  BY <1>2, <1>4, CancelFactor
<1>6. ASSUME a < lp PROVE p < r
  <2> SUFFICES ASSUME p >= r PROVE FALSE
    BY <1>2
  <2>1. p * lp >= r * lp
    BY <1>2, ProductMonotone
  <2>2. r * lp = r * a + r * (lp - a)
    OBVIOUS
  <2>3. r * (lp - a) > 0
    BY <1>6
  <2> QED BY <1>2, <2>1, <2>2, <2>3
<1>7. ASSUME a = lp PROVE p = r
  <2>1. r * lp < (p + 1) * lp
    BY <1>2, <1>7
  <2>2. r < p + 1
    <3> SUFFICES ASSUME r >= p + 1 PROVE FALSE
      BY <1>2
    <3>1. r * lp >= (p + 1) * lp
      BY <1>2, ProductMonotone
    <3> QED BY <1>2, <2>1, <3>1
  <2> QED BY <1>2, <1>5, <2>2
<1>8. (r - p) * lp >= r * (lp - a)
  BY <1>2
<1> QED BY <1>2, <1>5, <1>6, <1>7, <1>8 DEF p

\* What a deposit is credited: in neither coin more than it brings.
LEMMA SharesBought ==
  ASSUME NEW dx \in Nat, NEW dy \in Nat, x \in Nat, y \in Nat, lp \in Nat,
         x > 0, y > 0
  PROVE  /\ Shares(dx, dy) \in Nat
         /\ (x + dx) * lp >= x * (lp + Shares(dx, dy))
         /\ (y + dy) * lp >= y * (lp + Shares(dx, dy))
<1> DEFINE m == Shares(dx, dy)
           bx == (dx * lp) \div x
           by == (dy * lp) \div y
<1>1. dx * lp \in Nat /\ dy * lp \in Nat
  OBVIOUS
<1>2. bx \in Nat /\ bx * x <= dx * lp
  BY <1>1, FloorDiv
<1>3. by \in Nat /\ by * y <= dy * lp
  BY <1>1, FloorDiv
<1>4. m = Smaller(bx, by)
  BY DEF Shares
<1> HIDE DEF bx, by, m
<1>5. m \in Nat /\ m <= bx /\ m <= by
  BY <1>2, <1>3, <1>4 DEF Smaller
<1>6. m * x <= dx * lp
  <2>1. m * x <= bx * x
    BY <1>2, <1>5, ProductMonotone
  <2> QED BY <1>1, <1>2, <1>5, <2>1
<1>7. m * y <= dy * lp
  <2>1. m * y <= by * y
    BY <1>3, <1>5, ProductMonotone
  <2> QED BY <1>1, <1>3, <1>5, <2>1
<1>8. (x + dx) * lp >= x * (lp + m)
  BY <1>1, <1>5, <1>6
<1>9. (y + dy) * lp >= y * (lp + m)
  BY <1>1, <1>5, <1>7
<1> QED BY <1>5, <1>8, <1>9 DEF m

\* Two coins at once: what each reserve keeps per share, both keep.
LEMMA BothReserves ==
  ASSUME NEW x1 \in Nat, NEW y1 \in Nat, NEW x2 \in Nat, NEW y2 \in Nat,
         NEW l1 \in Nat, NEW l2 \in Nat,
         x2 * l1 >= x1 * l2, y2 * l1 >= y1 * l2
  PROVE  x2 * y2 * l1 * l1 >= x1 * y1 * l2 * l2
<1>1. /\ x2 * l1 \in Nat /\ x1 * l2 \in Nat
      /\ y2 * l1 \in Nat /\ y1 * l2 \in Nat
  OBVIOUS
<1>2. (x2 * l1) * (y2 * l1) >= (x1 * l2) * (y1 * l2)
  BY <1>1, ProductMonotone
<1>3. (x2 * l1) * (y2 * l1) = x2 * y2 * l1 * l1
  OBVIOUS
<1>4. (x1 * l2) * (y1 * l2) = x1 * y1 * l2 * l2
  OBVIOUS
<1> QED BY <1>2, <1>3, <1>4

LEMMA ProductNat ==
  ASSUME NEW a \in Nat, NEW b \in Nat
  PROVE  a * b \in Nat
BY SMT

\* With the number of shares unchanged only the product matters.
LEMMA SameShares ==
  ASSUME NEW p1 \in Nat, NEW p2 \in Nat, NEW l \in Nat, p2 >= p1
  PROVE  p2 * l * l >= p1 * l * l
<1>1. p2 * l \in Nat /\ p1 * l \in Nat /\ p2 * l >= p1 * l
  BY ProductNat, ProductMonotone
<1> QED BY <1>1, ProductMonotone

\* Shares that were backed and are not diluted stay backed.
LEMMA StillBacked ==
  ASSUME NEW p1 \in Nat, NEW l1 \in Nat, NEW p2 \in Nat, NEW l2 \in Nat,
         l1 > 0, l1 * l1 <= p1, p2 * l1 * l1 >= p1 * l2 * l2
  PROVE  l2 * l2 <= p2
<1>1. l1 * l1 \in Nat /\ l1 * l1 > 0 /\ l2 * l2 \in Nat
  BY ProductNat
<1>2. p1 * (l2 * l2) >= (l1 * l1) * (l2 * l2)
  BY <1>1, ProductMonotone
<1>3. p2 * (l1 * l1) >= p1 * (l2 * l2)
  OBVIOUS
<1>4. (l2 * l2) * (l1 * l1) <= p2 * (l1 * l1)
  BY <1>1, <1>2, <1>3, ProductNat
<1> QED BY <1>1, <1>4, CancelFactor

-----------------------------------------------------------------------------
NotDiluted == lp' > 0 => x' * y' * lp * lp >= x * y * lp' * lp'

\* Each operation keeps the types and the reserves behind the shares, and
\* dilutes nobody.
LEMMA StepKeepsShares ==
  ASSUME TypeOK, ReservesBackShares, [Next]_poolVars
  PROVE  TypeOK' /\ ReservesBackShares' /\ NotDiluted
<1> USE SwapAssumption
<1>0. /\ fee \in 0 .. (Multiplier - 1) /\ fee \in Nat
      /\ x \in Nat /\ y \in Nat /\ lp \in Nat /\ MaxU64 \in Nat
      /\ x <= MaxU64 /\ y <= MaxU64 /\ lp <= MaxU64
  BY DEF TypeOK, Multiplier
<1>1. CASE create_pool
  BY <1>0, <1>1 DEF create_pool, TypeOK, ReservesBackShares, NotDiluted, Multiplier
<1>2. ASSUME NEW dx \in Amounts, NEW dy \in Amounts, add_liquidity(dx, dy)
      PROVE  TypeOK' /\ ReservesBackShares' /\ NotDiluted
  <2>1. PICK m \in Amounts :
          /\ ToMint(m, dx, dy) /\ lp + m <= MaxU64 /\ lp' = lp + m
    BY <1>2 DEF add_liquidity
  <2>2. /\ m \in Nat /\ m > 0
        /\ dx \in Nat /\ dx > 0 /\ dy \in Nat /\ dy > 0
    BY <2>1 DEF Amounts
  <2>3. /\ x' = x + dx /\ y' = y + dy /\ fee' = fee /\ created' = created
        /\ x + dx <= MaxU64 /\ y + dy <= MaxU64
    BY <1>2 DEF add_liquidity
  <2>4. TypeOK'
    BY <1>0, <2>1, <2>2, <2>3 DEF TypeOK
  <2>5. ReservesBackShares'
    BY <1>0, <2>1, <2>2, <2>3 DEF ReservesBackShares
  <2>6. CASE lp = 0
    <3>1. x = 0 /\ y = 0
      BY <2>6 DEF ReservesBackShares
    <3> QED BY <1>0, <2>1, <2>2, <2>3, <2>4, <2>5, <2>6, <3>1 DEF NotDiluted
  <2>7. CASE lp > 0
    <3>1. x > 0 /\ y > 0
      BY <1>0, <2>7 DEF ReservesBackShares
    <3>2. m = Shares(dx, dy)
      BY <2>1, <2>7 DEF ToMint
    <3>3. (x + dx) * lp >= x * (lp + m) /\ (y + dy) * lp >= y * (lp + m)
      BY <1>0, <2>2, <3>1, <3>2, SharesBought
    <3>4. x' * lp >= x * lp' /\ y' * lp >= y * lp'
      BY <2>1, <2>3, <3>3
    <3>5. x' \in Nat /\ y' \in Nat /\ lp' \in Nat
      BY <1>0, <2>1, <2>2, <2>3
    <3> QED BY <1>0, <2>4, <2>5, <3>4, <3>5, BothReserves DEF NotDiluted
  <2> QED BY <1>0, <2>6, <2>7
<1>3. ASSUME NEW a \in Amounts, remove_liquidity(a)
      PROVE  TypeOK' /\ ReservesBackShares' /\ NotDiluted
  <2>1. /\ a \in Nat /\ a > 0 /\ a <= lp
        /\ x' = x - Part(x, a) /\ y' = y - Part(y, a) /\ lp' = lp - a
        /\ fee' = fee /\ created' = created
    BY <1>3 DEF remove_liquidity, Amounts
  <2>2. x > 0 /\ y > 0
    BY <1>0, <2>1 DEF ReservesBackShares
  <2>3. /\ Part(x, a) \in Nat /\ Part(x, a) <= x
        /\ a < lp => Part(x, a) < x
        /\ a = lp => Part(x, a) = x
        /\ (x - Part(x, a)) * lp >= x * (lp - a)
    BY <1>0, <2>1, <2>2, PartOfReserve
  <2>4. /\ Part(y, a) \in Nat /\ Part(y, a) <= y
        /\ a < lp => Part(y, a) < y
        /\ a = lp => Part(y, a) = y
        /\ (y - Part(y, a)) * lp >= y * (lp - a)
    BY <1>0, <2>1, <2>2, PartOfReserve
  <2>5. x' \in Nat /\ y' \in Nat /\ lp' \in Nat
    BY <1>0, <2>1, <2>3, <2>4
  <2>6. TypeOK'
    BY <1>0, <2>1, <2>3, <2>4 DEF TypeOK
  <2>7. ReservesBackShares'
    BY <1>0, <2>1, <2>3, <2>4 DEF ReservesBackShares
  <2>8. x' * lp >= x * lp' /\ y' * lp >= y * lp'
    BY <2>1, <2>3, <2>4
  <2> QED BY <1>0, <2>5, <2>6, <2>7, <2>8, BothReserves DEF NotDiluted
<1>4. ASSUME NEW d \in Amounts, NEW minOut \in {0, 1}, swap_x_for_y(d, minOut)
      PROVE  TypeOK' /\ ReservesBackShares' /\ NotDiluted
  <2>1. /\ d \in Nat /\ d > 0 /\ x > 0 /\ y > 0 /\ x + d <= MaxU64
        /\ x' = x + d /\ y' = y - AmountOut(x, y, d)
        /\ created' = created /\ fee' = fee /\ lp' = lp
    BY <1>4 DEF swap_x_for_y, Amounts
  <2>2. /\ AmountOut(x, y, d) \in Nat /\ AmountOut(x, y, d) < y
        /\ (x + d) * (y - AmountOut(x, y, d)) >= x * y
    BY <1>0, <2>1, SaleKeepsProduct
  <2>3. x' \in Nat /\ y' \in Nat /\ x' > 0 /\ y' > 0 /\ y' <= y
    BY <1>0, <2>1, <2>2
  <2>4. TypeOK' /\ ReservesBackShares'
    BY <1>0, <2>1, <2>2, <2>3 DEF TypeOK, ReservesBackShares
  <2>5. x' * y' >= x * y
    BY <2>1, <2>2
  <2>6. NotDiluted
    <3>1. x' * y' \in Nat /\ x * y \in Nat
      BY <1>0, <2>3, ProductNat
    <3>2. (x' * y') * lp * lp >= (x * y) * lp * lp
      BY <1>0, <2>5, <3>1, SameShares
    <3> QED BY <2>1, <3>2 DEF NotDiluted
  <2> QED BY <2>4, <2>6
<1>5. ASSUME NEW d \in Amounts, NEW minOut \in {0, 1}, swap_y_for_x(d, minOut)
      PROVE  TypeOK' /\ ReservesBackShares' /\ NotDiluted
  <2>1. /\ d \in Nat /\ d > 0 /\ x > 0 /\ y > 0 /\ y + d <= MaxU64
        /\ y' = y + d /\ x' = x - AmountOut(y, x, d)
        /\ created' = created /\ fee' = fee /\ lp' = lp
    BY <1>5 DEF swap_y_for_x, Amounts
  <2>2. /\ AmountOut(y, x, d) \in Nat /\ AmountOut(y, x, d) < x
        /\ (y + d) * (x - AmountOut(y, x, d)) >= y * x
    BY <1>0, <2>1, SaleKeepsProduct
  <2>3. x' \in Nat /\ y' \in Nat /\ x' > 0 /\ y' > 0 /\ x' <= x
    BY <1>0, <2>1, <2>2
  <2>4. TypeOK' /\ ReservesBackShares'
    BY <1>0, <2>1, <2>2, <2>3 DEF TypeOK, ReservesBackShares
  <2>5. x' * y' >= x * y
    BY <1>0, <2>1, <2>2, <2>3
  <2>6. NotDiluted
    <3>1. x' * y' \in Nat /\ x * y \in Nat
      BY <1>0, <2>3, ProductNat
    <3>2. (x' * y') * lp * lp >= (x * y) * lp * lp
      BY <1>0, <2>5, <3>1, SameShares
    <3> QED BY <2>1, <3>2 DEF NotDiluted
  <2> QED BY <2>4, <2>6
<1>6. CASE UNCHANGED poolVars
  BY <1>0, <1>6 DEF poolVars, TypeOK, ReservesBackShares, NotDiluted
<1> QED BY <1>1, <1>2, <1>3, <1>4, <1>5, <1>6 DEF Next

Inv == TypeOK /\ ReservesBackShares /\ SharesBacked

\* SharesBacked follows from the first deposit's root, and from then on from
\* the step: nobody's share lost value.
LEMMA StepKeepsInv ==
  ASSUME Inv, [Next]_poolVars
  PROVE  Inv'
<1>1. TypeOK' /\ ReservesBackShares' /\ NotDiluted
  BY StepKeepsShares DEF Inv
<1>2. /\ x \in Nat /\ y \in Nat /\ lp \in Nat
      /\ x' \in Nat /\ y' \in Nat /\ lp' \in Nat /\ lp * lp <= x * y
  BY <1>1, SwapAssumption DEF Inv, TypeOK, SharesBacked
<1>3. x * y \in Nat /\ x' * y' \in Nat
  BY <1>2, ProductNat
<1>4. CASE lp > 0
  <2>1. CASE lp' = 0
    BY <1>1, <1>3, <2>1 DEF Inv, SharesBacked
  <2>2. CASE lp' > 0
    <3>1. (x' * y') * lp * lp >= (x * y) * lp' * lp'
      BY <1>1, <2>2 DEF NotDiluted
    <3>2. lp' * lp' <= x' * y'
      BY <1>2, <1>3, <1>4, <3>1, StillBacked
    <3> QED BY <1>1, <3>2 DEF Inv, SharesBacked
  <2> QED BY <1>2, <2>1, <2>2
<1>5. CASE lp' > 0 /\ lp = 0
  <2>1. PICK dx, dy \in Amounts : add_liquidity(dx, dy)
    BY <1>2, <1>5 DEF Next, create_pool, remove_liquidity, swap_x_for_y,
                      swap_y_for_x, poolVars, Amounts
  <2>2. PICK m \in Amounts : ToMint(m, dx, dy) /\ lp' = lp + m
    BY <2>1 DEF add_liquidity
  <2>3. m \in Nat /\ m * m <= dx * dy /\ lp' = m
    <3>1. dx * dy \in Nat BY SwapAssumption DEF Amounts
    <3>2. m = sqrt(dx * dy) /\ lp' = m BY <1>2, <1>5, <2>2 DEF ToMint, Amounts
    <3> QED BY <3>1, <3>2, SqrtFindsRoot DEF IsSqrt
  <2>4. x' = dx /\ y' = dy
    BY <1>2, <1>5, <2>1 DEF Inv, ReservesBackShares, add_liquidity, Amounts
  <2> QED BY <1>1, <2>3, <2>4 DEF Inv, SharesBacked
<1>6. CASE lp' = 0 /\ lp = 0
  BY <1>1, <1>3, <1>6 DEF Inv, SharesBacked
<1> QED BY <1>2, <1>4, <1>5, <1>6

LEMMA InitHasInv == Init => Inv
<1> SUFFICES ASSUME Init PROVE Inv
  OBVIOUS
<1>1. created = FALSE /\ fee = 0 /\ x = 0 /\ y = 0 /\ lp = 0
  BY DEF Init
<1>2. TypeOK /\ ReservesBackShares
  <2>1. created \in BOOLEAN
    BY <1>1
  <2>2. fee \in 0 .. (Multiplier - 1)
    BY <1>1 DEF Multiplier
  <2>3. x \in 0 .. MaxU64 /\ y \in 0 .. MaxU64 /\ lp \in 0 .. MaxU64
    BY <1>1, SwapAssumption
  <2> QED BY <1>1, <2>1, <2>2, <2>3 DEF TypeOK, ReservesBackShares
<1>3. SharesBacked
  BY <1>1 DEF SharesBacked
<1> QED BY <1>2, <1>3 DEF Inv

\* Invariance of all the state properties of swap.move's pool.
LEMMA PoolInvariant == Spec => []Inv
BY InitHasInv, StepKeepsInv, PTL DEF Spec

\* The pool's amounts stay in their ranges: no operation takes out more than
\* there is, and no fee reaches the whole amount.
THEOREM PoolTyped == Spec => []TypeOK
BY PoolInvariant, PTL DEF Inv

\* For every supply and fee, shares and both reserves are zero together (no
\* sale drains the pool, the last withdrawal leaves nothing behind), and
\* shares are worth at least what the first deposit made them worth.
THEOREM PoolIsBacked == Spec => []PoolBacked
BY PoolInvariant, PTL DEF Inv, PoolBacked

\* The root of the reserves' product is the root, rounded down.
THEOREM PoolRoot == Spec => []SqrtIsFloor
<1>1. Inv => SqrtIsFloor
  <2> SUFFICES ASSUME Inv PROVE SqrtIsFloor
    OBVIOUS
  <2>1. x \in Nat /\ y \in Nat BY SwapAssumption DEF Inv, TypeOK
  <2>2. x * y \in Nat BY <2>1, ProductNat
  <2> QED BY <2>2, SqrtFindsRoot DEF SqrtIsFloor
<1> QED BY <1>1, PoolInvariant, PTL

\* No operation takes value from the remaining shares, for every sequence of
\* amounts and every rounding.
THEOREM PoolNeverDiluted == Spec => ShareNeverDiluted
<1>1. Inv /\ [Next]_poolVars => [NotDiluted]_poolVars
  BY StepKeepsShares DEF Inv
<1> QED BY <1>1, PoolInvariant, PTL DEF Spec, ShareNeverDiluted, NotDiluted
=============================================================================
