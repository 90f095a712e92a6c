------------------------- MODULE ArithmeticTheorems ---------------------------
(***************************************************************************)
(* What the proofs need to know of totals and of share arithmetic.  Of     *)
(* totals: a part is at most the total, a change of one part changes the   *)
(* total as much, and scaling every part scales the total.  Of the         *)
(* conversions of ShareMath: what they return, as the proofs about the     *)
(* handlers use it.                                                        *)
(***************************************************************************)
EXTENDS Totals, ShareMath, TLAPS

\* A family of zeros has total 0: the accounts of a new deployment.
LEMMA TotalOfZeros ==
    ASSUME NEW D, NEW f, f = [x \in D |-> 0]
    PROVE  IsTotal(f, 0)
<1> DEFINE S == [T \in SUBSET D |-> 0]
<1>1. S \in [SUBSET DOMAIN f -> 0..0]
  OBVIOUS
<1>2. Measures(S, f, 0)
  BY DEF Measures
<1> QED
  BY <1>1, <1>2 DEF IsTotal

\* No account holds more than the total of all of them.
LEMMA PartOfTotal ==
    ASSUME NEW D, NEW f \in [D -> Nat], NEW t \in Nat, IsTotal(f, t),
           NEW x \in D
    PROVE  f[x] <= t
<1>1. PICK S \in [SUBSET D -> 0..t] : Measures(S, f, t)
  BY DEF IsTotal
<1>2. S[D] = S[D \ {x}] + f[x] /\ S[D] = t
  BY <1>1 DEF Measures
<1>3. S[D \ {x}] \in 0..t
  BY <1>1
<1> QED
  BY <1>2, <1>3

\* Adding d to one account adds d to the total.
LEMMA TotalGrows ==
    ASSUME NEW D, NEW f \in [D -> Nat], NEW t \in Nat, IsTotal(f, t),
           NEW x \in D, NEW d \in Nat, NEW g \in [D -> Nat],
           g[x] = f[x] + d, \A y \in D : y # x => g[y] = f[y]
    PROVE  IsTotal(g, t + d)
<1>1. PICK S \in [SUBSET D -> 0..t] : Measures(S, f, t)
  BY DEF IsTotal
<1> DEFINE R == [T \in SUBSET D |-> IF x \in T THEN S[T] + d ELSE S[T]]
<1>2. R \in [SUBSET D -> 0..(t + d)]
  <2>1. ASSUME NEW T \in SUBSET D
        PROVE  R[T] \in 0..(t + d)
    <3>1. S[T] \in 0..t
      BY <1>1
    <3> QED
      BY <3>1
  <2> QED
    BY <2>1
<1>3. R[{}] = 0
  BY <1>1 DEF Measures
<1>4. R[D] = t + d
  BY <1>1 DEF Measures
<1>5. ASSUME NEW T \in SUBSET D, NEW y \in T
      PROVE  R[T] = R[T \ {y}] + g[y]
  <2>1. S[T] = S[T \ {y}] + f[y]
    BY <1>1 DEF Measures
  <2>2. S[T] \in Nat /\ S[T \ {y}] \in Nat /\ f[y] \in Nat
    BY <1>1
  <2>3. CASE y = x
    <3>1. R[T] = S[T] + d /\ R[T \ {y}] = S[T \ {y}]
      BY <2>3
    <3> QED
      BY <2>1, <2>2, <2>3, <3>1
  <2>4. CASE y # x
    <3>1. x \in T <=> x \in T \ {y}
      BY <2>4
    <3>2. g[y] = f[y]
      BY <2>4
    <3> QED
      BY <2>1, <2>2, <3>1, <3>2
  <2> QED
    BY <2>3, <2>4
<1>6. DOMAIN g = D
  OBVIOUS
<1>7. Measures(R, g, t + d)
  BY <1>3, <1>4, <1>5, <1>6 DEF Measures
<1> QED
  BY <1>2, <1>6, <1>7 DEF IsTotal

\* Taking d from one account takes d from the total.
LEMMA TotalShrinks ==
    ASSUME NEW D, NEW f \in [D -> Nat], NEW t \in Nat, IsTotal(f, t),
           NEW x \in D, NEW d \in Nat, NEW g \in [D -> Nat], d <= f[x],
           g[x] = f[x] - d, \A y \in D : y # x => g[y] = f[y]
    PROVE  d <= t /\ IsTotal(g, t - d)
<1>1. PICK S \in [SUBSET D -> 0..t] : Measures(S, f, t)
  BY DEF IsTotal
<1>2. f[x] <= t
  BY PartOfTotal
<1> DEFINE R == [T \in SUBSET D |-> IF x \in T THEN S[T] - d ELSE S[T]]
<1>3. R \in [SUBSET D -> 0..(t - d)]
  <2>1. ASSUME NEW T \in SUBSET D
        PROVE  R[T] \in 0..(t - d)
    <3>1. CASE x \in T
      <4>1. S[T] = S[T \ {x}] + f[x]
        BY <1>1, <3>1 DEF Measures
      <4>2. S[T] \in 0..t /\ S[T \ {x}] \in 0..t /\ f[x] \in Nat
        BY <1>1
      <4> QED
        BY <3>1, <4>1, <4>2
    <3>2. CASE x \notin T
      <4> DEFINE U == T \cup {x}
      <4>1. U \in SUBSET D /\ x \in U /\ U \ {x} = T
        BY <3>2
      <4>2. S[U] = S[T] + f[x]
        BY <1>1, <4>1 DEF Measures
      <4>3. S[U] \in 0..t /\ S[T] \in 0..t /\ f[x] \in Nat
        BY <1>1, <4>1
      <4>4. R[T] = S[T]
        BY <3>2
      <4> HIDE DEF R, U
      <4> QED
        BY <4>2, <4>3, <4>4
    <3> QED
      BY <3>1, <3>2
  <2> QED
    BY <2>1
<1>4. R[{}] = 0
  BY <1>1 DEF Measures
<1>5. R[D] = t - d
  BY <1>1 DEF Measures
<1>6. ASSUME NEW T \in SUBSET D, NEW y \in T
      PROVE  R[T] = R[T \ {y}] + g[y]
  <2>1. S[T] = S[T \ {y}] + f[y]
    BY <1>1 DEF Measures
  <2>2. S[T] \in Nat /\ S[T \ {y}] \in Nat /\ f[y] \in Nat
    BY <1>1
  <2>3. CASE y = x
    <3>1. R[T] = S[T] - d /\ R[T \ {y}] = S[T \ {y}]
      BY <2>3
    <3> QED
      BY <2>1, <2>2, <2>3, <3>1
  <2>4. CASE y # x
    <3>1. x \in T <=> x \in T \ {y}
      BY <2>4
    <3>2. g[y] = f[y]
      BY <2>4
    <3> QED
      BY <2>1, <2>2, <3>1, <3>2
  <2> QED
    BY <2>3, <2>4
<1>7. DOMAIN g = D
  OBVIOUS
<1>8. Measures(R, g, t - d)
  BY <1>4, <1>5, <1>6, <1>7 DEF Measures
<1>9. t - d \in Nat
  BY <1>2
<1> QED
  BY <1>2, <1>3, <1>7, <1>8 DEF IsTotal

\* Scaling every account by k scales the total by k.
LEMMA TotalScales ==
    ASSUME NEW D, NEW f \in [D -> Nat], NEW t \in Nat, IsTotal(f, t),
           NEW k \in Nat, NEW g \in [D -> Nat],
           \A y \in D : g[y] = k * f[y]
    PROVE  IsTotal(g, k * t)
<1>1. PICK S \in [SUBSET D -> 0..t] : Measures(S, f, t)
  BY DEF IsTotal
<1> DEFINE R == [T \in SUBSET D |-> k * S[T]]
<1>2. R \in [SUBSET D -> 0..(k * t)]
  <2>1. ASSUME NEW T \in SUBSET D
        PROVE  R[T] \in 0..(k * t)
    <3>1. S[T] \in 0..t
      BY <1>1
    <3> QED
      BY <3>1
  <2> QED
    BY <2>1
<1>3. R[{}] = 0 /\ R[D] = k * t
  BY <1>1 DEF Measures
<1>4. ASSUME NEW T \in SUBSET D, NEW y \in T
      PROVE  R[T] = R[T \ {y}] + g[y]
  <2>1. S[T] = S[T \ {y}] + f[y]
    BY <1>1 DEF Measures
  <2>2. S[T] \in Nat /\ S[T \ {y}] \in Nat /\ f[y] \in Nat
    BY <1>1
  <2>3. k * (S[T \ {y}] + f[y]) = k * S[T \ {y}] + k * f[y]
    BY <2>2
  <2> QED
    BY <2>1, <2>3
<1>5. DOMAIN g = D
  OBVIOUS
<1>6. Measures(R, g, k * t)
  BY <1>3, <1>4, <1>5 DEF Measures
<1> QED
  BY <1>2, <1>5, <1>6 DEF IsTotal

-----------------------------------------------------------------------------
(* The conversions of ShareMath. *)

\* A cut to 64 bits is a natural number, never larger than what was cut, and
\* leaves alone what fits.
LEMMA CastBounds ==
    ASSUME NEW x \in Nat
    PROVE  /\ AsU64(x) \in Nat
           /\ AsU64(x) <= x
           /\ x < U64 => AsU64(x) = x
<1>1. /\ x % U64 \in Nat
      /\ x % U64 <= x
      /\ x < U64 => x % U64 = x
  BY U64Assumption
<1> QED
  BY <1>1 DEF AsU64

\* Division undoes a multiplication.
LEMMA DivideProduct ==
    ASSUME NEW a \in Nat, NEW b \in Nat \ {0}
    PROVE  (a * b) \div b = a
  OBVIOUS

\* A quotient is a natural number that times the divisor stays below.
LEMMA QuotientBound ==
    ASSUME NEW a \in Nat, NEW b \in Nat \ {0}
    PROVE  /\ a \div b \in Nat
           /\ (a \div b) * b <= a
           /\ a < (a \div b) * b + b
  OBVIOUS

\* The share of a part is at most the whole.
LEMMA ProRata ==
    ASSUME NEW part \in Nat, NEW whole \in Nat \ {0}, NEW value \in Nat,
           part <= whole
    PROVE  /\ (part * value) \div whole \in Nat
           /\ (part * value) \div whole <= value
<1> DEFINE q == (part * value) \div whole
<1>1. part * value \in Nat
  OBVIOUS
<1>2. q \in Nat /\ q * whole <= part * value
  BY <1>1, QuotientBound
<1>3. part * value <= whole * value
  OBVIOUS
<1> HIDE DEF q
<1>4. ASSUME q > value PROVE FALSE
  <2>1. q * whole >= (value + 1) * whole
    BY <1>2, <1>4
  <2>2. (value + 1) * whole = whole * value + whole
    OBVIOUS
  <2> QED
    BY <1>2, <1>3, <2>1, <2>2
<1>5. q <= value
  BY <1>2, <1>4
<1> QED
  BY <1>2, <1>5 DEF q

\* The saturating operators, and the lesser of two, stay natural numbers.
LEMMA ArithmeticTypes ==
    ASSUME NEW x \in Nat, NEW y \in Nat
    PROVE  /\ SaturatingSub(x, y) \in Nat
           /\ SaturatingAddU64(x, y) \in Nat
           /\ Least(x, y) \in Nat
           /\ Least(x, y) <= x
           /\ Least(x, y) <= y
  BY U64Assumption DEF SaturatingSub, SaturatingAddU64, Least

\* Every conversion yields a natural number.
LEMMA ConversionTypes ==
    ASSUME NEW x \in Nat, NEW shares \in Nat, NEW value \in Nat
    PROVE  /\ shares_to_amount(x, shares, value) \in Nat
           /\ amount_to_shares(x, shares, value) \in Nat
           /\ debt_shares_to_amount(x, shares, value) \in Nat
           /\ amount_to_debt_shares(x, shares, value) \in Nat
<1>1. x * value \in Nat /\ x * shares \in Nat /\ x * SHARE_MULTIPLIER \in Nat
  BY MultiplierAssumption
<1>2. shares # 0 => (x * value) \div shares \in Nat
  BY <1>1, QuotientBound
<1>3. value # 0 => (x * shares) \div value \in Nat
  BY <1>1, QuotientBound
<1> QED
  BY <1>1, <1>2, <1>3, CastBounds
  DEF shares_to_amount, amount_to_shares, debt_shares_to_amount,
      amount_to_debt_shares

\* What is redeemed is at most the vault's value.
LEMMA RedemptionBound ==
    ASSUME NEW part \in Nat, NEW whole \in Nat, NEW value \in Nat,
           part <= whole
    PROVE  shares_to_amount(part, whole, value) <= value
<1>1. CASE whole = 0
  BY <1>1 DEF shares_to_amount
<1>2. CASE whole # 0
  <2>1. /\ (part * value) \div whole \in Nat
        /\ (part * value) \div whole <= value
    BY <1>2, ProRata
  <2> QED
    BY <1>2, <2>1, CastBounds DEF shares_to_amount
<1> QED
  BY <1>1, <1>2

\* The reward of a liquidation is a natural number.
LEMMA RewardType ==
    ASSUME NEW x \in Nat
    PROVE  calculate_liquidation_amount(x, 500) \in Nat
<1>1. (x * (10000 + 500)) \div 10000 \in Nat
  OBVIOUS
<1> QED
  BY <1>1, CastBounds DEF calculate_liquidation_amount, BASIS_POINTS_DIVISOR

\* A deposit mints shares of at most its worth: the value per share of the
\* others does not fall.
LEMMA MintRoundsDown ==
    ASSUME NEW amount \in Nat, NEW shares \in Nat \ {0}, NEW value \in Nat
    PROVE  (value + amount) * shares
             >= value * (shares + amount_to_shares(amount, shares, value))
<1> DEFINE minted == amount_to_shares(amount, shares, value)
<1>1. minted \in Nat
  BY ConversionTypes
<1>2. value * minted <= amount * shares
  <2>1. CASE value = 0
    BY <1>1, <2>1
  <2>2. CASE value # 0
    <3>1. minted = (amount * shares) \div value
      BY <2>2 DEF amount_to_shares
    <3>2. amount * shares \in Nat /\ value \in Nat \ {0}
      BY <2>2
    <3>3. minted * value <= amount * shares
      BY <3>1, <3>2, QuotientBound
    <3> HIDE DEF minted
    <3> QED
      BY <1>1, <3>3
  <2> QED
    BY <2>1, <2>2
<1> HIDE DEF minted
<1>3. (value + amount) * shares >= value * (shares + minted)
  <2>1. (value + amount) * shares = value * shares + amount * shares
    OBVIOUS
  <2>2. value * (shares + minted) = value * shares + value * minted
    BY <1>1
  <2>3. value * shares \in Nat /\ amount * shares \in Nat
        /\ value * minted \in Nat
    BY <1>1
  <2> QED
    BY <1>2, <2>1, <2>2, <2>3
<1> QED
  BY <1>3 DEF minted

\* A withdrawal pays at most the worth of its shares.
LEMMA RedemptionRoundsDown ==
    ASSUME NEW part \in Nat, NEW shares \in Nat \ {0}, NEW value \in Nat,
           part <= shares
    PROVE  (value - shares_to_amount(part, shares, value)) * shares
             >= value * (shares - part)
<1> DEFINE paid == shares_to_amount(part, shares, value)
<1>1. paid \in Nat
  BY ConversionTypes
<1>2. paid * shares <= part * value
  <2> DEFINE q == (part * value) \div shares
  <2>1. part * value \in Nat
    OBVIOUS
  <2>2. q \in Nat /\ q * shares <= part * value
    BY <2>1, QuotientBound
  <2>3. paid = AsU64(q)
    BY DEF shares_to_amount
  <2> HIDE DEF q, paid
  <2>4. paid <= q
    BY <2>2, <2>3, CastBounds
  <2>5. paid * shares <= q * shares
    BY <1>1, <2>2, <2>4
  <2> QED
    BY <1>1, <2>1, <2>2, <2>5
<1> HIDE DEF paid
<1>3. (value - paid) * shares >= value * (shares - part)
  <2>1. (value - paid) * shares = value * shares - paid * shares
    BY <1>1
  <2>2. value * (shares - part) = value * shares - part * value
    OBVIOUS
  <2>3. value * shares \in Nat /\ paid * shares \in Nat /\ part * value \in Nat
    BY <1>1
  <2> QED
    BY <1>2, <2>1, <2>2, <2>3
<1> QED
  BY <1>3 DEF paid
=============================================================================
