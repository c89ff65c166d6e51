---------------------------- MODULE ComputeBudget ----------------------------
(***************************************************************************)
(* The compute budget of a transaction of the Solana tasks: the price of a *)
(* compute unit, from the fees that were paid in recent slots, and the     *)
(* limit of units, from a simulation that is tried again when the node     *)
(* fails to answer, or else from an estimate that the operator accepts.    *)
(***************************************************************************)
EXTENDS Sequences, FiniteSetsExt

CONSTANTS
  Samples, \* sequences of the fees that recent slots paid; <<>> also stands for
           \*   a request that failed
  Scales,  \* the values of computeUnitPriceScaleFactor, a float, in tenths
  Usages   \* the units that a simulation may report, 0 for none

ComputeBudgetAssumption ==
  /\ \A s \in Samples : s \in Seq(Nat)
  /\ Scales \subseteq Nat /\ Usages \subseteq Nat

VARIABLES
  type,     \* the TransactionType
  scale,    \* the scale factor given to the task
  phase,    \* "lookup", "fees", "simulate", "prompt", "ready", "built" or "failed"
  sample,   \* the recent fees
  attempts, \* the simulations that failed
  agreed,   \* the operator accepted the estimate
  units,    \* computeUnits
  budget    \* the price and the limit of the instructions

vars == <<type, scale, phase, sample, attempts, agreed, units, budget>>

-----------------------------------------------------------------------------
(* getPrioritizationFees. *)

\* The slots that paid for priority: nonZeroFees.
Paid(s) == {i \in DOMAIN s : s[i] # 0}

Sum(s, slots) == MapThenSumSet(LAMBDA i : s[i], slots)
Average(s, slots) == IF slots = {} THEN 0 ELSE Sum(s, slots) \div Cardinality(slots)

\* A bug: the slots without fees count.
AverageFeeOfAll(s) == Average(s, DOMAIN s)

AverageFeeExcludingZeros(s) == Average(s, Paid(s))

\* sortedFees: in some order of the slots the fees do not fall.
SortedFees(s) ==
  LET n == Cardinality(Paid(s))
      order == CHOOSE p \in [1..n -> Paid(s)] :
                 \A i, j \in 1..n : i < j => p[i] # p[j] /\ s[p[i]] <= s[p[j]]
  IN  [k \in 1..n |-> s[order[k]]]

MedianFee(s) ==
  LET n == Cardinality(Paid(s))
      mid == n \div 2  \* from 0 in the code
  IN  IF n = 0 THEN 0
      ELSE IF n % 2 # 0 THEN SortedFees(s)[mid + 1]
      ELSE (SortedFees(s)[mid] + SortedFees(s)[mid + 1]) \div 2

-----------------------------------------------------------------------------
TransactionCuEstimates ==
  [CreateToken |-> 125000, CreateMultisig |-> 5000, InitOft |-> 70000,
   SetAuthority |-> 8000, InitConfig |-> 42000, SendOFT |-> 230000]

\* Most of the units of the samples beside each estimate.
ActualSamples ==
  [CreateToken |-> 123539, CreateMultisig |-> 3230, InitOft |-> 65198,
   SetAuthority |-> 6472, InitConfig |-> 40657, SendOFT |-> 217784]

TransactionType == DOMAIN TransactionCuEstimates

numOfAttempts == 3

\* units * computeUnitLimitScaleFactor, 1.1, stored as an integer.
Limit(u) == (u * 11) \div 10

\* computeUnitPrice * BigInt(Math.floor(computeUnitPriceScaleFactor))
Price(s, tenths) == AverageFeeExcludingZeros(s) * (tenths \div 10)

-----------------------------------------------------------------------------
Init ==
  /\ type \in TransactionType /\ scale \in Scales
  /\ phase = "lookup" /\ sample = <<>> /\ attempts = 0 /\ agreed = FALSE
  /\ units = 0 /\ budget = [price |-> 0, limit |-> 0]

\* getAddressLookupTable: there is a table for the endpoint and it is found.
FindLookupTable(found) ==
  /\ phase = "lookup"
  /\ phase' = IF found THEN "fees" ELSE "failed"
  /\ UNCHANGED <<type, scale, sample, attempts, agreed, units, budget>>

GetFee(s) ==
  /\ phase = "fees"
  /\ sample' = s /\ phase' = "simulate"
  /\ UNCHANGED <<type, scale, attempts, agreed, units, budget>>

\* A simulation that reports no units is an answer, and ends the task.
Simulate(u) ==
  /\ phase = "simulate"
  /\ units' = u /\ phase' = IF u = 0 THEN "failed" ELSE "ready"
  /\ UNCHANGED <<type, scale, sample, attempts, agreed, budget>>

\* backOff: it is tried again, after the last attempt the operator is asked.
SimulationFails ==
  /\ phase = "simulate"
  /\ attempts' = attempts + 1
  /\ phase' = IF attempts' = numOfAttempts THEN "prompt" ELSE "simulate"
  /\ UNCHANGED <<type, scale, sample, agreed, units, budget>>

Prompt(yes) ==
  /\ phase = "prompt"
  /\ agreed' = yes
  /\ units' = IF yes THEN TransactionCuEstimates[type] ELSE 0
  /\ phase' = IF yes THEN "ready" ELSE "failed"
  /\ UNCHANGED <<type, scale, sample, attempts, budget>>

AddInstructions ==
  /\ phase = "ready"
  /\ budget' = [price |-> Price(sample, scale), limit |-> Limit(units)]
  /\ phase' = "built"
  /\ UNCHANGED <<type, scale, sample, attempts, agreed, units>>

Next ==
  \/ \E found \in BOOLEAN : FindLookupTable(found)
  \/ \E s \in Samples : GetFee(s)
  \/ \E u \in Usages : Simulate(u)
  \/ SimulationFails
  \/ \E yes \in BOOLEAN : Prompt(yes)
  \/ AddInstructions

Spec == Init /\ [][Next]_vars

-----------------------------------------------------------------------------
\* The operator is asked after three attempts, and no number goes below zero.
TypeOK ==
  /\ type \in TransactionType /\ scale \in Scales
  /\ phase \in {"lookup", "fees", "simulate", "prompt", "ready", "built", "failed"}
  /\ sample \in Samples \cup {<<>>}
  /\ attempts \in 0..3 /\ agreed \in BOOLEAN /\ units \in Nat
  /\ budget \in [price : Nat, limit : Nat]

\* The median is in the middle of the fees that were paid: half of them are not
\* above it, half of them not below.
MedianIsMiddle ==
  LET AtMost(m) == {i \in Paid(sample) : sample[i] <= m}
      AtLeast(m) == {i \in Paid(sample) : sample[i] >= m}
  IN  /\ 2 * Cardinality(AtMost(MedianFee(sample))) >= Cardinality(Paid(sample))
      /\ 2 * Cardinality(AtLeast(MedianFee(sample))) >= Cardinality(Paid(sample))

\* As soon as a recent slot paid for priority, a task with a scale factor of one
\* or more pays too, however many of the slots were free.
PaysForPriority ==
  phase = "built" /\ Paid(sample) # {} /\ scale >= 10 => budget.price > 0

\* A transaction that was simulated may use nearly a tenth more on chain.
LimitLeavesMargin ==
  phase = "built" /\ ~agreed => \A more \in 0..(units \div 10) : budget.limit >= units + more

\* A transaction that could not be simulated may use what its kind ever did.
EstimateCoversSamples ==
  phase = "built" /\ agreed => budget.limit >= ActualSamples[type]
=============================================================================
