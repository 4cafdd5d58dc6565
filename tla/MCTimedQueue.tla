---------------------------- MODULE MCTimedQueue ----------------------------
(***************************************************************************)
(* A small instance of TimedQueue for TLC.  Its doubles have four          *)
(* significant bits: the subnormal numbers are 0 to 7 times 3125, and      *)
(* twelve exponents follow.  With five decimal places (100000 = 32 * 3125) *)
(* the whole numbers up to 16 are among them.                              *)
(***************************************************************************)
EXTENDS TimedQueue

DoubleHere ==
  [n \in 0..96 |-> 3125 * (IF n < 8 THEN n ELSE (8 + (n % 8)) * 2^((n \div 8) - 1))]

BoundsHere == <<1>>

\* What the gauge says, tick by tick: three doubles that make the reader throw (a
\* subnormal number; the smallest normal number, written as 0.2; the largest
\* double, written as 500); 48, which is written as 50 and read as 48; infinity.
\* The last two leave the answers to be read whose sums have two digits.
LoadHere ==
  [t \in 0..4 |-> IF t = 4 THEN Inf ELSE <<6250, 25000, 48000000, 4800000>>[t + 1]]

Alike == Permutations(Queues) \cup Permutations(Timers)
=============================================================================
