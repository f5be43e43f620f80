---------------------------- MODULE MCCharacter -----------------------------
EXTENDS Character, TLC

CONSTANTS alice, bob, a1, a2

\* Ids far apart, as those of different clock ticks are: a hash each.
Apart(id) == id
\* Ids of one tick: one hash.
Together(id) == 0

\* Accounts are alike.
Symmetry == Permutations(Account)
=============================================================================
