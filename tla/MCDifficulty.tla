---------------------------- MODULE MCDifficulty ----------------------------
EXTENDS Difficulty

\* Eleven bits, of which the prefix keeps four: 1101 0000000.
MCLimit == 11 * Pow2[PrefixBits] + 13
=============================================================================
