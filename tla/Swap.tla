-------------------------------- MODULE Swap --------------------------------
(***************************************************************************)
(* One pool of the constant-product swap contract (swap.move): liquidity is*)
(* added and removed for LP shares, and either coin is sold for the other. *)
(* An operation that fails an assertion, divides by zero or overflows a u64*)
(* aborts and changes nothing, so it is no step.  Who holds a coin does not*)
(* matter to the pool: callers are their amounts.                          *)
(***************************************************************************)
EXTENDS Integers

CONSTANTS
  MaxU64,           \* the largest amount, and the supply of either coin
  Fees              \* fees a pool is created with, in basis points

ASSUME SwapAssumption == MaxU64 \in Nat /\ Fees \subseteq Nat

VARIABLES
  created,          \* create_pool has run
  fee,              \* fee_pct
  x, y,             \* balance_x, balance_y
  lp                \* lp_supply

poolVars == <<created, fee, x, y, lp>>

Multiplier == 10000
Amounts == 1 .. MaxU64
Smaller(a, b) == IF a < b THEN a ELSE b

Init == created = FALSE /\ fee = 0 /\ x = 0 /\ y = 0 /\ lp = 0

create_pool ==
  /\ ~created /\ created' = TRUE
  /\ \E f \in Fees : f < Multiplier /\ fee' = f       \* EInvalidFee
  /\ UNCHANGED <<x, y, lp>>

\* The loop `while (x < z)` of `sqrt` on n, from the guesses z = g[1], x = g[2].
Newton(n) ==
  LET loop[g \in Nat \X (Nat \ {0})] ==
        IF g[2] < g[1] THEN loop[<<g[2], ((n \div g[2]) + g[2]) \div 2>>] ELSE g[1]
  IN  loop

\* Mutant: the first guess is half the number and may be below the root.
sqrt_LowGuess(n) ==
  IF n > 3 THEN Newton(n)[<<n \div 2, n \div 4>>] ELSE IF n # 0 THEN 1 ELSE 0

sqrt(n) ==
  IF n > 3 THEN Newton(n)[<<n, (n \div 2) + 1>>] ELSE IF n # 0 THEN 1 ELSE 0

\* Mutant: the larger of the two contributions decides.
Shares_Larger(dx, dy) ==
  LET byX == (dx * lp) \div x  byY == (dy * lp) \div y
  IN  IF byX < byY THEN byY ELSE byX

\* Shares for a later deposit.
Shares(dx, dy) == Smaller((dx * lp) \div x, (dy * lp) \div y)

\* lp_to_mint; the first deposit decides what a share is worth.
ToMint(m, dx, dy) ==
  \/ lp = 0 /\ m = sqrt(dx * dy)
  \/ lp > 0 /\ m = Shares(dx, dy)

add_liquidity(dx, dy) ==
  /\ created
  /\ x + dx <= MaxU64 /\ y + dy <= MaxU64
  /\ \E m \in Amounts :                   \* EZeroAmount
       /\ ToMint(m, dx, dy)
       /\ lp + m <= MaxU64
       /\ lp' = lp + m
  /\ x' = x + dx /\ y' = y + dy
  /\ UNCHANGED <<created, fee>>

\* Mutant: the quotient is rounded up.
Part_RoundedUp(reserve, a) == (a * reserve + lp - 1) \div lp

\* The part of a reserve that a shares stand for.
Part(reserve, a) == (a * reserve) \div lp

remove_liquidity(a) ==
  /\ created /\ a <= lp
  /\ Part(x, a) > 0 /\ Part(y, a) > 0     \* EZeroAmount
  /\ x' = x - Part(x, a) /\ y' = y - Part(y, a)
  /\ lp' = lp - a
  /\ UNCHANGED <<created, fee>>

\* What d of the coin with reserve `in` buys of the coin with reserve `out`.
AmountOut(in, out, d) ==
  (out * d * (Multiplier - fee))
    \div (in * Multiplier + d * (Multiplier - fee))

swap_x_for_y(dx, minOut) ==
  /\ created /\ x > 0 /\ y > 0            \* EEmptyPool
  /\ x + dx <= MaxU64
  /\ AmountOut(x, y, dx) >= minOut        \* EInsufficientOutput
  /\ x' = x + dx /\ y' = y - AmountOut(x, y, dx)
  /\ UNCHANGED <<created, fee, lp>>

swap_y_for_x(dy, minOut) ==
  /\ created /\ x > 0 /\ y > 0
  /\ y + dy <= MaxU64
  /\ AmountOut(y, x, dy) >= minOut
  /\ y' = y + dy /\ x' = x - AmountOut(y, x, dy)
  /\ UNCHANGED <<created, fee, lp>>

Next ==
  \/ create_pool
  \/ \E dx, dy \in Amounts : add_liquidity(dx, dy)
  \/ \E a \in Amounts : remove_liquidity(a)
  \/ \E d \in Amounts, minOut \in {0, 1} : swap_x_for_y(d, minOut) \/ swap_y_for_x(d, minOut)

Spec == Init /\ [][Next]_poolVars

-----------------------------------------------------------------------------
(* Properties. *)

TypeOK ==
  /\ created \in BOOLEAN
  /\ fee \in 0 .. (Multiplier - 1)
  /\ x \in 0 .. MaxU64 /\ y \in 0 .. MaxU64 /\ lp \in 0 .. MaxU64

IsSqrt(r, n) == r * r <= n /\ n < (r + 1) * (r + 1)

\* The loop of `sqrt` ends with the root rounded down, for the product of the
\* reserves, whatever they have become.
SqrtIsFloor == IsSqrt(sqrt(x * y), x * y)

\* Shares and reserves vanish together: no sale drains a coin, nothing stays
\* behind when the last share is burnt, and no division is by zero.
ReservesBackShares == (lp = 0 <=> x = 0) /\ (lp = 0 <=> y = 0)

\* A share is never worth less than it was for the first depositor, through
\* every rounding of every later deposit, withdrawal and sale.
SharesBacked == lp * lp <= x * y

\* Both: what a share stands for is there, to the last one.
PoolBacked == ReservesBackShares /\ SharesBacked

\* No single operation, whoever calls it, takes value from the shares that
\* remain: the product of the reserves per squared share never falls.
ShareNeverDiluted == [][lp' > 0 => x' * y' * lp * lp >= x * y * lp' * lp']_poolVars
=============================================================================
