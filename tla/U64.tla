-------------------------------- MODULE U64 --------------------------------
(***************************************************************************)
(* Token amounts of the OFT program are u64, and the build checks          *)
(* overflow (overflow-checks = true in Cargo.toml): an operation that      *)
(* leaves the range panics and its transaction has no effect.  Modules     *)
(* state that as a guard: the result is in Amount.                         *)
(***************************************************************************)
EXTENDS Integers

CONSTANTS
  MaxU64,       \* the largest amount: 2^64 - 1 in the program
  None          \* Rust's Option::None

ASSUME U64Assumption ==
  /\ MaxU64 \in Nat \ {0}
  /\ None \notin Int

Amount == 0 .. MaxU64

Least(a, b) == IF a <= b THEN a ELSE b
SaturatingAdd(a, b) == Least(a + b, MaxU64)
SaturatingMul(a, b) == Least(a * b, MaxU64)
=============================================================================
