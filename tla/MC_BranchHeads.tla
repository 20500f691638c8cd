--------------------------- MODULE MC_BranchHeads ---------------------------
EXTENDS BranchHeads, TLC

CONSTANTS a1, a2, w1, w2

\* A branch that only grows, and one that is rewritten: 1 <- 2 gives way to 1 <- 3 <- 4.
McLinear == [c \in Commits |-> 1..c]
McForked == [c \in Commits |-> IF c <= 2 THEN 1..c ELSE (1..c) \ {2}]
McFork == {<<2, 3>>}

\* One commit touches each app's directory, or the second commit that of a1 and the third that of a2.
McTouching == [a \in Apps |-> {2}]
McMonorepo == [a \in Apps |-> IF a = a1 THEN {2} ELSE {3}]

McWorkers == Permutations({w1, w2})
=============================================================================
