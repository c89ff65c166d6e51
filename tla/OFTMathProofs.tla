--------------------------- MODULE OFTMathProofs ---------------------------
(***************************************************************************)
(* Lemmas about the arithmetic of OFTMath, for every rate, fee and amount, *)
(* and about sums over finite sets.                                        *)
(***************************************************************************)
EXTENDS OFTMath, TLAPS, FiniteSetTheorems

\* Integer division by d, characterised without division.
LEMMA DivBounds ==
  ASSUME NEW a \in Int, NEW d \in Nat \ {0}
  PROVE  /\ a \div d \in Int
         /\ d * (a \div d) <= a
         /\ a < d * (a \div d) + d
  OBVIOUS

LEMMA MulCancels ==
  ASSUME NEW a \in Int, NEW b \in Int, NEW d \in Nat \ {0}, d * a < d * b
  PROVE  a < b
  OBVIOUS

LEMMA DivUnique ==
  ASSUME NEW a \in Int, NEW d \in Nat \ {0}, NEW q \in Int,
         d * q <= a, a < d * q + d
  PROVE  a \div d = q
<1>1. /\ a \div d \in Int
      /\ d * (a \div d) <= a
      /\ a < d * (a \div d) + d
  BY DivBounds
<1>2. d * (a \div d) < d * (q + 1) /\ d * q < d * ((a \div d) + 1)
  BY <1>1
<1> QED
  BY <1>1, <1>2, MulCancels

(***************************************************************************)
(* The transfer fee of a mint is a natural number and never more than the  *)
(* amount, so a net amount is between nothing and the gross amount.        *)
(***************************************************************************)
LEMMA PostFeeType ==
  ASSUME NEW fee \in TransferFee \cup {None}, NEW a \in Nat
  PROVE  PostFeeAmount(fee, a) \in Nat /\ PostFeeAmount(fee, a) <= a
<1>1. CASE fee = None
  BY <1>1 DEF PostFeeAmount
<1>2. CASE fee # None
  <2> DEFINE D == OneInBasisPoints
             b == fee.transfer_fee_basis_points
             m == fee.maximum_fee
             w == (a * b + D - 1) \div D
  <2>1. D \in Nat \ {0} /\ b \in Nat /\ b <= D /\ m \in Nat
    BY <1>2, OFTMathAssumption, U64Assumption DEF TransferFee, Amount
  <2>2. PostFeeAmount(fee, a) = a - Least(w, m)
    BY <1>2 DEF PostFeeAmount, WithheldFee, CeilDiv
  <2> HIDE DEF D, b, m
  <2>3. a * b \in Nat /\ a * b <= a * D
    BY <2>1
  <2>4. /\ w \in Int /\ D * w <= a * b + D - 1 /\ a * b + D - 1 < D * w + D
    BY <2>1, <2>3, DivBounds
  <2> HIDE DEF w
  <2>5. D * w < D * (a + 1) /\ D * 0 < D * (w + 1)
    BY <2>1, <2>3, <2>4
  <2>6. w < a + 1 /\ 0 < w + 1
    BY <2>1, <2>4, <2>5, MulCancels
  <2> QED
    BY <2>1, <2>2, <2>4, <2>6 DEF Least
<1> QED
  BY <1>1, <1>2

(***************************************************************************)
(* calculate_pre_fee_amount inverts the transfer fee exactly: debiting the *)
(* gross amount leaves the net amount, to the unit, whatever the rate and  *)
(* the cap of the fee.                                                     *)
(***************************************************************************)
THEOREM PostOfPre ==
  ASSUME NEW fee \in TransferFee \cup {None}, NEW x \in Nat
  PROVE  /\ PreFeeAmount(fee, x) \in Nat
         /\ PostFeeAmount(fee, PreFeeAmount(fee, x)) = x
<1> DEFINE D == OneInBasisPoints
           b == fee.transfer_fee_basis_points
           m == fee.maximum_fee
           W(a) == (a * b + D - 1) \div D
<1>1. CASE fee = None
  BY <1>1 DEF PostFeeAmount, PreFeeAmount
<1>2. CASE fee # None
  <2>1. D \in Nat \ {0} /\ b \in Nat /\ b <= D /\ m \in Nat
    BY <1>2, OFTMathAssumption, U64Assumption DEF TransferFee, Amount
  <2>2. \A a \in Nat : PostFeeAmount(fee, a) = a - Least(W(a), m)
    BY <1>2 DEF PostFeeAmount, WithheldFee, CeilDiv
  <2>w. \A a \in Nat : /\ W(a) \in Int
                       /\ D * W(a) <= a * b + D - 1
                       /\ a * b + D - 1 < D * W(a) + D
    <3> HIDE DEF D, b
    <3> TAKE a \in Nat
    <3>1. a * b + D - 1 \in Int
      BY <2>1
    <3> QED
      BY <2>1, <3>1, DivBounds
  <2>3. CASE x = 0 \/ b = 0
    <3>1. PreFeeAmount(fee, x) = x
      BY <2>3 DEF PreFeeAmount
    <3>2. x * b = 0
      BY <2>1, <2>3
    <3>3. (x * b + D - 1) \div D = 0
      BY <2>1, <3>2, DivUnique, D * 0 = 0
    <3> QED
      BY <2>1, <2>2, <3>1, <3>3 DEF Least
  <2>4. CASE x # 0 /\ b # 0 /\ b = D
    <3>1. PreFeeAmount(fee, x) = x + m
      BY <1>2, <2>4 DEF PreFeeAmount
    <3> HIDE DEF D, b, m
    <3>2. W(x + m) = x + m
      <4>1. (x + m) * b + D - 1 \in Int /\ x + m \in Int
        BY <2>1
      <4>2. /\ D * (x + m) <= (x + m) * b + D - 1
            /\ (x + m) * b + D - 1 < D * (x + m) + D
        BY <2>1, <2>4
      <4> QED
        BY <2>1, <4>1, <4>2, DivUnique
    <3> HIDE DEF W
    <3>3. PostFeeAmount(fee, x + m) = (x + m) - Least(x + m, m)
      <4>1. PostFeeAmount(fee, x + m) = (x + m) - Least(W(x + m), m)
        BY <1>2 DEF PostFeeAmount, WithheldFee, CeilDiv, W, D, b, m
      <4> QED
        BY <3>2, <4>1
    <3> QED
      BY <2>1, <3>1, <3>3 DEF Least
  <2>5. CASE x # 0 /\ b # 0 /\ b # D
    <3> DEFINE k == D - b
               raw == (x * D + k - 1) \div k
               e == k * raw - D * x
    <3>1. PreFeeAmount(fee, x) = IF raw - x >= m THEN x + m ELSE raw
      BY <1>2, <2>5 DEF PreFeeAmount, CeilDiv
    <3> HIDE DEF D, b, m
    <3>2. k \in Nat \ {0} /\ k <= D /\ D = k + b
      BY <2>1, <2>5
    <3> HIDE DEF k
    <3>3. x * D \in Nat /\ x * D + k - 1 \in Int
      BY <2>1, <3>2
    <3>4. raw \in Int /\ k * raw <= x * D + k - 1 /\ x * D + k - 1 < k * raw + k
      BY <3>2, <3>3, DivBounds
    <3> HIDE DEF raw
    <3>5. e \in Int /\ 0 <= e /\ e <= k - 1
      BY <2>1, <3>2, <3>3, <3>4
    <3>6. D * (raw - x) = raw * b + e
      BY <2>1, <3>2, <3>4
    <3>7. raw >= x
      <4>1. k * x <= x * D
        BY <2>1, <3>2
      <4>2. k * x < k * (raw + 1)
        BY <2>1, <3>2, <3>3, <3>4, <4>1
      <4> QED
        BY <3>2, <3>4, <4>2, MulCancels
    <3> HIDE DEF e
    <3>8. CASE raw - x >= m
      <4>1. k * (x + m) <= k * raw
        BY <2>1, <3>2, <3>4, <3>8
      <4>2. k * m <= x * b + k - 1
        BY <2>1, <3>2, <3>4, <4>1
      <4>3. D * m <= (x + m) * b + D - 1
        BY <2>1, <3>2, <4>2
      <4>4. (x + m) * b + D - 1 \in Int
        BY <2>1
      <4> HIDE DEF W
      <4>5. W(x + m) \in Int /\ (x + m) * b + D - 1 < D * W(x + m) + D
        BY <2>1, <2>w
      <4>6. D * m < D * (W(x + m) + 1)
        BY <2>1, <4>3, <4>4, <4>5
      <4>7. m < W(x + m) + 1
        BY <2>1, <4>5, <4>6, MulCancels
      <4>8. PostFeeAmount(fee, x + m) = (x + m) - Least(W(x + m), m)
        BY <1>2 DEF PostFeeAmount, WithheldFee, CeilDiv, W, D, b, m
      <4> QED
        BY <2>1, <3>1, <3>8, <4>5, <4>7, <4>8 DEF Least
    <3>9. CASE raw - x < m
      <4>1. raw * b + D - 1 \in Int /\ raw - x \in Int /\ raw \in Nat
        BY <2>1, <3>4, <3>7
      <4>2. /\ D * (raw - x) <= raw * b + D - 1
            /\ raw * b + D - 1 < D * (raw - x) + D
        BY <2>1, <3>2, <3>5, <3>6, <4>1
      <4>3. W(raw) = raw - x
        BY <2>1, <4>1, <4>2, DivUnique
      <4> HIDE DEF W
      <4>4. PostFeeAmount(fee, raw) = raw - Least(raw - x, m)
        BY <2>2, <4>1, <4>3
      <4>5. PreFeeAmount(fee, x) = raw
        BY <2>1, <3>1, <3>4, <3>9
      <4> QED
        BY <2>1, <3>9, <4>1, <4>4, <4>5 DEF Least
    <3> QED
      BY <2>1, <3>4, <3>8, <3>9
  <2> QED
    BY <2>3, <2>4, <2>5
<1> QED
  BY <1>1, <1>2

(***************************************************************************)
(* The debit computed for a net amount is within any gross amount that     *)
(* leaves that much: nobody pays more than what was asked for.             *)
(***************************************************************************)
THEOREM PreWithinGross ==
  ASSUME NEW fee \in TransferFee \cup {None}, NEW a \in Nat, NEW x \in Nat,
         x <= PostFeeAmount(fee, a)
  PROVE  PreFeeAmount(fee, x) <= a
<1> DEFINE D == OneInBasisPoints
           b == fee.transfer_fee_basis_points
           m == fee.maximum_fee
           w == (a * b + D - 1) \div D
<1>0. x <= a
  BY PostFeeType
<1>1. CASE fee = None \/ x = 0
  BY <1>0, <1>1 DEF PreFeeAmount
<1>2. CASE fee # None /\ x # 0
  <2>1. D \in Nat \ {0} /\ b \in Nat /\ b <= D /\ m \in Nat
    BY <1>2, OFTMathAssumption, U64Assumption DEF TransferFee, Amount
  <2>2. PostFeeAmount(fee, a) = a - Least(w, m)
    BY <1>2 DEF PostFeeAmount, WithheldFee, CeilDiv
  <2>3. CASE b = 0
    BY <1>0, <1>2, <2>3 DEF PreFeeAmount
  <2>4. CASE b # 0 /\ b = D
    <3>1. PreFeeAmount(fee, x) = x + m
      BY <1>2, <2>4 DEF PreFeeAmount
    <3> HIDE DEF D, b, m
    <3>2. a * b + D - 1 \in Int /\ D * a <= a * b + D - 1 /\ a * b + D - 1 < D * a + D
      BY <2>1, <2>4
    <3>3. w = a
      BY <2>1, <3>2, DivUnique
    <3> QED
      BY <1>2, <2>1, <2>2, <3>1, <3>3 DEF Least
  <2>5. CASE b # 0 /\ b # D
    <3> DEFINE k == D - b
               raw == (x * D + k - 1) \div k
    <3>1. PreFeeAmount(fee, x) = IF raw - x >= m THEN x + m ELSE raw
      BY <1>2, <2>5 DEF PreFeeAmount, CeilDiv
    <3> HIDE DEF D, b, m
    <3>2. k \in Nat \ {0} /\ D = k + b
      BY <2>1, <2>5
    <3> HIDE DEF k
    <3>3. x * D + k - 1 \in Int /\ a * b + D - 1 \in Int
      BY <2>1, <3>2
    <3>4. raw \in Int /\ k * raw <= x * D + k - 1
      BY <3>2, <3>3, DivBounds
    <3>5. w \in Int /\ a * b + D - 1 < D * w + D
      BY <2>1, <3>3, DivBounds
    <3> HIDE DEF raw, w
    <3>6. CASE w <= m
      <4>1. x <= a - w
        BY <2>1, <2>2, <3>5, <3>6 DEF Least
      <4>2. D * x <= D * a - D * w
        BY <2>1, <3>5, <4>1
      <4>3. D * x <= k * a
        BY <2>1, <3>2, <3>5, <4>2
      <4>4. k * raw < k * (a + 1)
        BY <2>1, <3>2, <3>4, <4>3
      <4>5. raw < a + 1
        BY <3>2, <3>4, <4>4, MulCancels
      <4> QED
        BY <2>1, <3>1, <3>4, <4>5
    <3>7. CASE w > m
      <4>1. x <= a - m
        BY <2>1, <2>2, <3>5, <3>7 DEF Least
      <4> QED
        BY <2>1, <3>1, <3>4, <4>1
    <3> QED
      BY <2>1, <3>5, <3>6, <3>7
  <2> QED
    BY <2>3, <2>4, <2>5
<1> QED
  BY <1>1, <1>2

(***************************************************************************)
(* Removing dust leaves a whole number of shared-decimal units, and the    *)
(* way to shared decimals and back loses nothing of it.                    *)
(***************************************************************************)
LEMMA DustRemoved ==
  ASSUME NEW rate \in Nat \ {0}, NEW a \in Nat
  PROVE  /\ Ld2Sd(rate, a) \in Nat
         /\ RemoveDust(rate, a) = rate * Ld2Sd(rate, a)
         /\ RemoveDust(rate, a) \in Nat
         /\ RemoveDust(rate, a) <= a
<1> DEFINE q == a \div rate
<1>1. q \in Nat /\ a % rate \in Nat /\ a = rate * q + (a % rate)
  OBVIOUS
<1>2. rate * q \in Nat
  BY <1>1
<1> QED
  BY <1>1, <1>2 DEF RemoveDust, Ld2Sd

LEMMA UnitsLossless ==
  ASSUME NEW rate \in Nat \ {0}, NEW q \in Nat
  PROVE  Sd2Ld(rate, Ld2Sd(rate, rate * q)) = rate * q
<1>1. rate * q \in Int /\ rate * q < rate * q + rate
  OBVIOUS
<1>2. (rate * q) \div rate = q
  BY <1>1, DivUnique
<1> QED
  BY <1>2 DEF Sd2Ld, Ld2Sd

\* The OFT's fee on a whole number of units is a whole number of units, and at
\* most all of them.
LEMMA FeeInUnits ==
  ASSUME NEW rate \in Nat \ {0}, NEW bps \in 0 .. (OneInBasisPoints - 1),
         NEW a \in Nat
  PROVE  LET net == RemoveDust(rate, a)
             fee == RemoveDust(rate, CalculateFee(bps, net))
         IN  /\ fee \in Nat /\ fee <= net
             /\ net - fee \in Nat
             /\ Sd2Ld(rate, Ld2Sd(rate, net - fee)) = net - fee
<1> DEFINE D == OneInBasisPoints
           net == RemoveDust(rate, a)
           c == (net * bps) \div D
           n == Ld2Sd(rate, a)
           f == Ld2Sd(rate, c)
<1>1. D \in Nat \ {0} /\ bps \in Nat /\ bps < D
  BY OFTMathAssumption
<1>2. n \in Nat /\ net = rate * n /\ net \in Nat
  BY DustRemoved
<1> HIDE DEF n, net, D
<1>3. net * bps \in Nat /\ net * bps <= net * D
  BY <1>1, <1>2
<1>4. c \in Int /\ D * c <= net * bps /\ net * bps < D * c + D
  BY <1>1, <1>3, DivBounds
<1>5. D * c < D * (net + 1) /\ D * 0 < D * (c + 1)
  BY <1>1, <1>2, <1>3, <1>4
<1>6. c \in Nat /\ c <= net
  BY <1>1, <1>2, <1>4, <1>5, MulCancels
<1>7. CalculateFee(bps, net) = c
  BY DEF CalculateFee, D
<1> HIDE DEF c
<1>8. f \in Nat /\ RemoveDust(rate, c) = rate * f /\ RemoveDust(rate, c) <= c
  BY <1>6, DustRemoved
<1> HIDE DEF f
<1>9. rate * f < rate * (n + 1)
  BY <1>2, <1>6, <1>8
<1>10. f <= n
  BY <1>2, <1>8, <1>9, MulCancels
<1>11. n - f \in Nat /\ rate * n - rate * f = rate * (n - f)
  BY <1>2, <1>8, <1>10
<1>12. Sd2Ld(rate, Ld2Sd(rate, rate * (n - f))) = rate * (n - f)
  BY <1>11, UnitsLossless
<1>13. rate * (n - f) \in Nat /\ rate * f \in Nat
  BY <1>8, <1>11
<1>14. /\ rate * f <= net /\ net - rate * f = rate * (n - f)
  BY <1>2, <1>8, <1>11, <1>13
<1> QED
  BY <1>7, <1>8, <1>12, <1>13, <1>14 DEF net

(***************************************************************************)
(* compute_fee_and_adjust_amount, whatever the type of the OFT, its        *)
(* decimals and the fees: the debit is within what was asked for, the      *)
(* amounts are natural numbers, the received amount survives the           *)
(* conversion to shared decimals, and the debit covers received amount and *)
(* fee to the unit (after the transfer fee, for an Adapter).               *)
(***************************************************************************)
THEOREM ReceiptSound ==
  ASSUME NEW rate \in Nat \ {0}, NEW fee \in TransferFee \cup {None},
         NEW bps \in 0 .. (OneInBasisPoints - 1), NEW a \in Nat, NEW oft_type
  PROVE  LET r == ComputeFeeAndAdjustAmount(oft_type, rate, fee, bps, a)
         IN  /\ r.sent \in Nat /\ r.received \in Nat /\ r.fee \in Nat
             /\ r.sent <= a
             /\ Sd2Ld(rate, Ld2Sd(rate, r.received)) = r.received
             /\ oft_type = "Adapter" => PostFeeAmount(fee, r.sent) = r.received + r.fee
             /\ oft_type # "Adapter" => r.sent = r.received + r.fee
<1>1. CASE oft_type = "Adapter"
  <2> DEFINE p == PostFeeAmount(fee, a)
             net == RemoveDust(rate, p)
             f == RemoveDust(rate, CalculateFee(bps, net))
             sent == PreFeeAmount(fee, net)
  <2>1. p \in Nat
    BY PostFeeType
  <2>2. net \in Nat /\ net <= p
    BY <2>1, DustRemoved
  <2>3. f \in Nat /\ net - f \in Nat /\ Sd2Ld(rate, Ld2Sd(rate, net - f)) = net - f
    BY <2>1, FeeInUnits
  <2>4. sent \in Nat /\ PostFeeAmount(fee, sent) = net
    BY <2>2, PostOfPre
  <2>5. sent <= a
    BY <2>2, PreWithinGross
  <2>6. ComputeFeeAndAdjustAmount(oft_type, rate, fee, bps, a) =
          [sent |-> sent, received |-> net - f, fee |-> f]
    BY <1>1 DEF ComputeFeeAndAdjustAmount, AdapterReceipt
  <2> HIDE DEF p, net, f, sent
  <2> QED
    BY <1>1, <2>2, <2>3, <2>4, <2>5, <2>6
<1>2. CASE oft_type # "Adapter"
  <2> DEFINE sent == RemoveDust(rate, a)
             f == RemoveDust(rate, CalculateFee(bps, sent))
  <2>1. sent \in Nat /\ sent <= a
    BY DustRemoved
  <2>2. f \in Nat /\ sent - f \in Nat /\ Sd2Ld(rate, Ld2Sd(rate, sent - f)) = sent - f
    BY FeeInUnits
  <2>3. ComputeFeeAndAdjustAmount(oft_type, rate, fee, bps, a) =
          [sent |-> sent, received |-> sent - f, fee |-> f]
    BY <1>2 DEF ComputeFeeAndAdjustAmount, NativeReceipt
  <2> HIDE DEF f, sent
  <2> QED
    BY <1>2, <2>1, <2>2, <2>3
<1> QED
  BY <1>1, <1>2

-----------------------------------------------------------------------------
(***************************************************************************)
(* Sums over finite sets.  MapThenSumSet takes one element after the other *)
(* from a set, in an order that a CHOOSE fixes.  What it returns is shown  *)
(* to be the same in any order, by an induction that looks at a minimal    *)
(* subset for which the claim fails.                                       *)
(***************************************************************************)

\* Every nonempty set of naturals has a least element.
LEMMA LeastNat ==
  ASSUME NEW T, T \subseteq Nat, T # {}
  PROVE  \E x \in T : \A y \in T : x <= y
<1> DEFINE R == OpToRel(<, Nat)
<1>1. R = {ss \in Nat \X Nat : ss[1] < ss[2]}
  BY DEF OpToRel
<1>2. IsWellFoundedOn(R, Nat)
  BY NatLessThanWellFounded
<1> HIDE DEF R
<1>3. PICK x \in T : \A y \in T : ~(<<y, x>> \in R)
  BY <1>2, WFMin
<1>4. ASSUME NEW y \in T PROVE x <= y
  <2>1. <<y, x>> \notin R /\ <<y, x>> \in Nat \X Nat
    BY <1>3
  <2>2. ~(<<y, x>>[1] < <<y, x>>[2])
    BY <1>1, <2>1
  <2> QED BY <2>2
<1> QED BY <1>4

\* The principle of the inductions below: a nonempty set of subsets of a finite set
\* has a member of which no smaller subset is a member.
LEMMA MinimalSubset ==
  ASSUME NEW S, IsFiniteSet(S), NEW B, B \subseteq SUBSET S, B # {}
  PROVE  \E s \in B : \A t \in SUBSET s : t # s => t \notin B
<1> DEFINE T == {Cardinality(s) : s \in B}
<1>1. \A s \in B : IsFiniteSet(s) /\ Cardinality(s) \in Nat
  BY FS_Subset, FS_CardinalityType
<1>2. PICK n \in T : \A k \in T : n <= k
  <2> T \subseteq Nat /\ T # {} BY <1>1
  <2> HIDE DEF T
  <2> QED BY LeastNat
<1>3. PICK s \in B : n = Cardinality(s)
  BY <1>2
<1>4. ASSUME NEW t \in SUBSET s, t # s, t \in B PROVE FALSE
  <2>1. Cardinality(t) < Cardinality(s) 
    BY <1>1, <1>4, FS_Subset
  <2> QED BY <1>1, <1>2, <1>3, <1>4, <2>1
<1> QED BY <1>4

\* g sums f over each subset of S, taking away one element after the other.
IsSum(g, f, S) ==
  /\ g[{}] = 0
  /\ \A s \in SUBSET S : s # {} => \E x \in s : g[s] = f[x] + g[s \ {x}]

LEMMA SumType ==
  ASSUME NEW S, IsFiniteSet(S), NEW f \in [S -> Int], NEW g, IsSum(g, f, S)
  PROVE  \A s \in SUBSET S : g[s] \in Int
<1> DEFINE B == {s \in SUBSET S : g[s] \notin Int}
<1> SUFFICES ASSUME B # {} PROVE FALSE
  OBVIOUS
<1>1. PICK s \in B : \A t \in SUBSET s : t # s => t \notin B
  <2> B \subseteq SUBSET S OBVIOUS
  <2> HIDE DEF B
  <2> QED BY MinimalSubset
<1>2. s # {}
  <2>1. g[{}] = 0
    BY DEF IsSum
  <2>2. g[s] \notin Int
    OBVIOUS
  <2>3. g[{}] \in Int
    BY <2>1
  <2> HIDE DEF B
  <2> QED BY <2>2, <2>3
<1>3. PICK x \in s : g[s] = f[x] + g[s \ {x}]
  BY <1>2 DEF IsSum
<1>4. s \ {x} \notin B /\ s \ {x} \in SUBSET S
  BY <1>1, <1>3
<1>5. g[s \ {x}] \in Int /\ f[x] \in Int
  BY <1>4, <1>3
<1> QED BY <1>3, <1>5

LEMMA SumNat ==
  ASSUME NEW S, IsFiniteSet(S), NEW f \in [S -> Nat], NEW g, IsSum(g, f, S)
  PROVE  \A s \in SUBSET S : g[s] \in Nat
<1> DEFINE B == {s \in SUBSET S : g[s] \notin Nat}
<1> SUFFICES ASSUME B # {} PROVE FALSE
  OBVIOUS
<1>1. PICK s \in B : \A t \in SUBSET s : t # s => t \notin B
  <2> B \subseteq SUBSET S OBVIOUS
  <2> HIDE DEF B
  <2> QED BY MinimalSubset
<1>2. s # {}
  <2>1. g[{}] = 0
    BY DEF IsSum
  <2>2. g[s] \notin Nat
    OBVIOUS
  <2>3. g[{}] \in Nat
    BY <2>1
  <2> HIDE DEF B
  <2> QED BY <2>2, <2>3
<1>3. PICK x \in s : g[s] = f[x] + g[s \ {x}]
  BY <1>2 DEF IsSum
<1>4. s \ {x} \notin B /\ s \ {x} \in SUBSET S
  BY <1>1, <1>3
<1>5. g[s \ {x}] \in Nat /\ f[x] \in Nat
  BY <1>4, <1>3
<1> QED BY <1>3, <1>5

\* The order in which the elements are taken away does not matter.
LEMMA SumAnyOrder ==
  ASSUME NEW S, IsFiniteSet(S), NEW f \in [S -> Int], NEW g, IsSum(g, f, S)
  PROVE  \A s \in SUBSET S : \A x \in s : g[s] = f[x] + g[s \ {x}]
<1> DEFINE B == {s \in SUBSET S : \E x \in s : g[s] # f[x] + g[s \ {x}]}
<1> SUFFICES ASSUME B # {} PROVE FALSE
  OBVIOUS
<1>1. PICK s \in B : \A t \in SUBSET s : t # s => t \notin B
  <2> B \subseteq SUBSET S OBVIOUS
  <2> HIDE DEF B
  <2> QED BY MinimalSubset
<1>2. PICK x \in s : g[s] # f[x] + g[s \ {x}]
  OBVIOUS
<1>3. PICK y \in s : g[s] = f[y] + g[s \ {y}]
  BY <1>2 DEF IsSum
<1>4. x # y /\ s \in SUBSET S
  BY <1>2, <1>3
<1> DEFINE r == s \ {x, y}
<1>5. s \ {x} \notin B /\ s \ {y} \notin B /\ s \ {x} \in SUBSET S /\ s \ {y} \in SUBSET S
  BY <1>1, <1>2, <1>3
<1>6. g[s \ {x}] = f[y] + g[r]
  <2>1. y \in s \ {x} /\ (s \ {x}) \ {y} = r
    BY <1>3, <1>4
  <2> HIDE DEF r
  <2> QED BY <1>5, <2>1
<1>7. g[s \ {y}] = f[x] + g[r]
  <2>1. x \in s \ {y} /\ (s \ {y}) \ {x} = r
    BY <1>2, <1>4
  <2> HIDE DEF r
  <2> QED BY <1>5, <2>1
<1>8. g[r] \in Int /\ f[x] \in Int /\ f[y] \in Int
  BY <1>4, SumType
<1> QED BY <1>2, <1>3, <1>6, <1>7, <1>8

\* Neither does the set that a sum is taken in.
LEMMA SumUnique ==
  ASSUME NEW S, NEW T, IsFiniteSet(T), S \subseteq T,
         NEW f \in [S -> Int], NEW e \in [T -> Int], \A x \in S : f[x] = e[x],
         NEW g, IsSum(g, f, S), NEW h, IsSum(h, e, T)
  PROVE  \A s \in SUBSET S : g[s] = h[s]
<1> DEFINE B == {s \in SUBSET S : g[s] # h[s]}
<1> SUFFICES ASSUME B # {} PROVE FALSE
  OBVIOUS
<1>1. PICK s \in B : \A t \in SUBSET s : t # s => t \notin B
  <2> IsFiniteSet(S) BY FS_Subset
  <2> B \subseteq SUBSET S OBVIOUS
  <2> HIDE DEF B
  <2> QED BY MinimalSubset
<1>2. s # {}
  BY DEF IsSum
<1>3. PICK x \in s : g[s] = f[x] + g[s \ {x}]
  BY <1>2 DEF IsSum
<1>4. s \ {x} \notin B /\ s \ {x} \in SUBSET S
  BY <1>1, <1>3
<1>5. h[s] = e[x] + h[s \ {x}]
  BY <1>3, SumAnyOrder
<1> QED BY <1>3, <1>4, <1>5

\* One more element adds its value.
LEMMA SumAdd ==
  ASSUME NEW E, IsFiniteSet(E), NEW x \in E, NEW D, D = E \ {x},
         NEW f \in [D -> Int], NEW e \in [E -> Int], \A y \in D : f[y] = e[y],
         NEW g, IsSum(g, f, D), NEW h, IsSum(h, e, E)
  PROVE  g[D] \in Int /\ h[E] = g[D] + e[x]
<1>1. IsFiniteSet(D) /\ D \subseteq E
  BY FS_Subset
<1>2. g[D] \in Int
  BY <1>1, SumType
<1>3. g[D] = h[D]
  BY <1>1, SumUnique
<1>4. h[E] = e[x] + h[E \ {x}]
  BY SumAnyOrder
<1> QED BY <1>2, <1>3, <1>4

-----------------------------------------------------------------------------
\* The recursion of MapThenSumSet with the picks of pick.
Sums(g, f, pick, S) ==
  g = [s \in SUBSET S |-> IF s = {} THEN 0 ELSE f[pick[s]] + g[s \ {pick[s]}]]

LEMMA SumsIsSum ==
  ASSUME NEW S, NEW pick, \A s \in SUBSET S : s # {} => pick[s] \in s,
         NEW f, NEW g, Sums(g, f, pick, S)
  PROVE  IsSum(g, f, S)
<1>1. \A s \in SUBSET S : g[s] = IF s = {} THEN 0 ELSE f[pick[s]] + g[s \ {pick[s]}]
  BY DEF Sums
<1> QED BY <1>1 DEF IsSum

LEMMA SumsExist ==
  ASSUME NEW S, IsFiniteSet(S), NEW f \in [S -> Int],
         NEW pick, \A s \in SUBSET S : s # {} => pick[s] \in s
  PROVE  \E g : Sums(g, f, pick, S)
<1> DEFINE B == {t \in SUBSET S : \A g : ~Sums(g, f, pick, t)}
<1> SUFFICES ASSUME B # {} PROVE FALSE
  <2>1. S \notin B => \E g : Sums(g, f, pick, S) OBVIOUS
  <2> QED BY <2>1
<1>1. PICK t \in B : \A s \in SUBSET t : s # t => s \notin B
  <2> B \subseteq SUBSET S OBVIOUS
  <2> HIDE DEF B
  <2> QED BY MinimalSubset
<1> DEFINE G(s) == CHOOSE g : Sums(g, f, pick, s)
            F == [x \in S |-> f[x]]
            rest == t \ {pick[t]}
            g == [s \in SUBSET t |-> IF s = t THEN IF t = {} THEN 0 ELSE f[pick[t]] + G(rest)[rest]
                                     ELSE G(s)[s]]
<1>2. ASSUME NEW s \in SUBSET t, s # t PROVE Sums(G(s), f, pick, s)
  <2>1. s \in SUBSET S /\ s \notin B
    BY <1>1, <1>2
  <2>2. \E h : Sums(h, f, pick, s)
    BY <2>1
  <2> QED BY <2>2
<1> HIDE DEF G
<1>3. ASSUME NEW s \in SUBSET t, s # t, s # {}
      PROVE  G(s)[s] = f[pick[s]] + G(s \ {pick[s]})[s \ {pick[s]}]
  <2> DEFINE r == s \ {pick[s]}
  <2>1. s \in SUBSET S /\ pick[s] \in s
    BY <1>3
  <2>2. r \in SUBSET s /\ r # t /\ r \in SUBSET t
    BY <1>3, <2>1
  <2>3. G(s)[s] = f[pick[s]] + G(s)[r]
    BY <1>2, <1>3 DEF Sums
  <2>4. G(s)[r] = G(r)[r]
    <3>1. IsSum(G(s), f, s) /\ IsSum(G(r), f, r)
      <4>1. Sums(G(s), f, pick, s) /\ Sums(G(r), f, pick, r)
        BY <1>2, <1>3, <2>2
      <4>2. \A q \in SUBSET s : q # {} => pick[q] \in q
        BY <2>1
      <4>3. \A q \in SUBSET r : q # {} => pick[q] \in q
        BY <2>1, <2>2
      <4> HIDE DEF r
      <4> QED BY <4>1, <4>2, <4>3, SumsIsSum
    <3> DEFINE fs == [x \in s |-> f[x]]
                fr == [x \in r |-> f[x]]
    <3>2. fs \in [s -> Int] /\ fr \in [r -> Int] /\ \A x \in r : fr[x] = fs[x]
      BY <2>1, <2>2
    <3>3. IsSum(G(s), fs, s)
      BY <3>1 DEF IsSum
    <3>4. IsSum(G(r), fr, r)
      BY <3>1 DEF IsSum
    <3>5. IsFiniteSet(s)
      BY <2>1, FS_Subset
    <3>6. r \in SUBSET r /\ r \subseteq s
      BY <2>2
    <3> HIDE DEF r, fs, fr
    <3>7. \A q \in SUBSET r : G(r)[q] = G(s)[q]
      BY ONLY <3>2, <3>3, <3>4, <3>5, <3>6, SumUnique
    <3> QED BY <3>6, <3>7
  <2> QED BY <2>3, <2>4
<1>4. \A s \in SUBSET t : g[s] = IF s = {} THEN 0 ELSE f[pick[s]] + g[s \ {pick[s]}]
  <2> SUFFICES ASSUME NEW s \in SUBSET t, s # {}
                PROVE  g[s] = f[pick[s]] + g[s \ {pick[s]}]
    <3>1. g[{}] = 0
      <4>1. ASSUME t # {} PROVE G({})[{}] = 0
        <5>1. {} \in SUBSET t /\ {} # t
          BY <4>1
        <5>2. Sums(G({}), f, pick, {})
          BY <1>2, <5>1
        <5> QED BY <5>2 DEF Sums
      <4> QED BY <4>1
    <3> HIDE DEF g
    <3> QED BY <3>1
  <2>1. pick[s] \in s /\ s \ {pick[s]} \in SUBSET t /\ s \ {pick[s]} # t
    <3>1. s \in SUBSET S OBVIOUS
    <3> QED BY <3>1
  <2>2. g[s \ {pick[s]}] = G(s \ {pick[s]})[s \ {pick[s]}]
    BY <2>1
  <2>3. CASE s = t
    BY <2>2, <2>3
  <2>4. CASE s # t
    <3>1. g[s] = G(s)[s]
      BY <2>4
    <3> QED BY <3>1, <1>3, <2>2, <2>4
  <2> QED BY <2>3, <2>4
<1>5. Sums(g, f, pick, t)
  <2>1. g = [s \in SUBSET t |-> g[s]]
    OBVIOUS
  <2> HIDE DEF g
  <2>2. [s \in SUBSET t |-> g[s]] = [s \in SUBSET t |-> IF s = {} THEN 0 ELSE f[pick[s]] + g[s \ {pick[s]}]]
    BY <1>4
  <2> QED BY <2>1, <2>2 DEF Sums
<1> QED BY <1>5, <1>1
=============================================================================
