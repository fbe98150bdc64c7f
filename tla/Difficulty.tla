----------------------------- MODULE Difficulty -----------------------------
(***************************************************************************)
(* The adjustment of the difficulty: core/blockchain/difficulty.go and     *)
(* nextBlockTarget of branch.go, along one branch as blocks are found.     *)
(*                                                                         *)
(* A difficulty is the number below which the hash of a block must lie, so *)
(* a larger one is easier. Headers carry it as a target: its length in     *)
(* bits and its first PrefixBits bits, which loses the rest. Times are in  *)
(* seconds. The code scales with floating point numbers of 53 bits; here   *)
(* the quotient is exact and then truncated, as big.Float.Int does.        *)
(***************************************************************************)
EXTENDS Integers, Sequences, FiniteSetsExt, SequencesExt, PowerOfTwo

CONSTANTS
  PrefixBits,        \* diffPrefixBitsLen
  ReferenceBlocks,   \* how many blocks the adjustment looks back
  Alpha,             \* weight of the last duration is 1 / Alpha
  BlockInterval,     \* expected seconds between two blocks
  BlockTargetLimit,  \* the easiest target
  MaxGap,            \* bound: seconds between two blocks
  MinDiff            \* bound: harder blocks than this are not found

ASSUME DifficultyAssumption ==
  /\ {PrefixBits, ReferenceBlocks, Alpha, BlockInterval} \subseteq Nat \ {0}
  /\ {BlockTargetLimit, MaxGap, MinDiff} \subseteq Nat
  /\ MinDiff >= Pow2[PrefixBits - 1]   \* a whole prefix: 2^23 of 2^256

VARIABLES
  target,            \* of the head
  gaps,              \* seconds between the last blocks, the newest at the end
  height             \* of the head, up to the first one that looks back

vars == <<target, gaps, height>>

-----------------------------------------------------------------------------
(* Targets *)

\* Digits of d in binary: the length of fmt.Sprintf("%b").
BitLen(d) == IF d = 0 THEN 1 ELSE CHOOSE n \in 1 .. d : Pow2[n-1] <= d /\ d < Pow2[n]

TargetToDiff(t) ==
  LET length == t \div Pow2[PrefixBits]
      prefix == t % Pow2[PrefixBits]
  IN  IF length > PrefixBits THEN prefix * Pow2[length - PrefixBits] ELSE prefix

DiffToTarget(d) ==
  LET length == BitLen(d)
  IN  IF d = 0 THEN 0
      ELSE length * Pow2[PrefixBits]
             + (IF length > PrefixBits THEN d \div Pow2[length - PrefixBits] ELSE d)

BlockDifficultyLimit == TargetToDiff(BlockTargetLimit)

-----------------------------------------------------------------------------
(* CalculateTarget *)

\* averageInterval / BlockInterval is Slowness / Expected.
Slowness(lastDuration, preDuration) ==
  Max({lastDuration, 1}) * ReferenceBlocks + (Alpha - 1) * preDuration

Expected == Alpha * ReferenceBlocks * BlockInterval

\* Mutant: the lower bound is left out.
Scaled_unbounded(diff, slowness) == (diff * slowness) \div Expected

\* The lower bound of the scale is 1/2.
Scaled(diff, slowness) ==
  IF 2 * slowness < Expected THEN diff \div 2
  ELSE (diff * slowness) \div Expected

\* Mutant: the limit is compared with the last difficulty.
CalculateTarget_late(lastTarget, lastDuration, preDuration) ==
  LET diff == Scaled(TargetToDiff(lastTarget), Slowness(lastDuration, preDuration))
  IN  IF TargetToDiff(lastTarget) > BlockDifficultyLimit THEN BlockTargetLimit
      ELSE DiffToTarget(diff)

CalculateTarget(lastTarget, lastDuration, preDuration) ==
  LET diff == Scaled(TargetToDiff(lastTarget), Slowness(lastDuration, preDuration))
  IN  IF diff > BlockDifficultyLimit THEN BlockTargetLimit ELSE DiffToTarget(diff)

-----------------------------------------------------------------------------
(* The branch *)

Sum(s) ==
  LET total[i \in 0 .. Len(s)] == IF i = 0 THEN 0 ELSE total[i-1] + s[i]
  IN  total[Len(s)]

\* The first blocks, and the genesis block's time, do not count.
nextBlockTarget(gap) ==
  IF height <= ReferenceBlocks + 1 THEN BlockTargetLimit
  ELSE CalculateTarget(target, gap, Sum(gaps))

\* A block after gap seconds is found and passes verifyBlock, which asks for a
\* time not before the head's. The gap between genesis and the next block is
\* never in the window.
Add(gap) ==
  /\ TargetToDiff(target) >= MinDiff
  /\ target' = nextBlockTarget(gap)
  /\ height' = Min({height + 1, ReferenceBlocks + 2})
  /\ gaps' = IF height = 1 THEN <<>>
             ELSE IF Len(gaps) < ReferenceBlocks THEN Append(gaps, gap)
             ELSE Append(Tail(gaps), gap)

Init == target = BlockTargetLimit /\ gaps = <<>> /\ height = 1

Next == \E gap \in 0 .. MaxGap : Add(gap)

Spec == Init /\ [][Next]_vars

-----------------------------------------------------------------------------
(* Properties *)

Diff == TargetToDiff(target)

\* No block is easier than the limit, and the target of a header is the only
\* one for its difficulty: nodes compare targets, not difficulties
\* (difficulty.go CalculateTarget, branch.go verifyBlock).
WithinLimit ==
  /\ Diff <= BlockDifficultyLimit
  /\ target = BlockTargetLimit \/ DiffToTarget(Diff) = target

\* The distance to the next difficulty that a target can express.
Precision(d) ==
  IF BitLen(d) > PrefixBits THEN Pow2[BitLen(d) - PrefixBits] ELSE 1

Adjusting == height = ReferenceBlocks + 2

\* Of the block that a step adds, whose gap is the newest.
PastSlowness == Slowness(Last(gaps'), Sum(gaps))

\* Blocks that come faster than one per interval on average never make the
\* next one easier, slower ones never make it harder, and one block at most
\* halves the difficulty, with all the rounding (difficulty.go CalculateTarget).
\* The adjustment does not get stuck on the bits a target loses: an average
\* that is off by more than one unit of the prefix, relative to the interval,
\* makes the next block easier, up to the limit (difficulty.go DiffToTarget).
FollowsRate ==
  [][Adjusting =>
       /\ PastSlowness <= Expected => Diff' <= Diff
       /\ PastSlowness >= Expected => Diff' >= Diff
       /\ Diff' + Precision(Diff) > Diff \div 2
       /\ PastSlowness * Pow2[PrefixBits - 1] >= Expected * (Pow2[PrefixBits - 1] + 1)
            => Diff' > Diff \/ Diff' = BlockDifficultyLimit]_vars
=============================================================================
