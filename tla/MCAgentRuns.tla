----------------------------- MODULE MCAgentRuns -----------------------------
EXTENDS AgentRuns, TLC

\* Three repairs in cells, two sessions, and one session beside one repair.
MCSizes == {[cells |-> 4, sessions |-> 0, runs |-> 1],
            [cells |-> 0, sessions |-> 2, runs |-> 2],
            [cells |-> 2, sessions |-> 1, runs |-> 1]}

\* Two runs in cells
MCSharedSizes == {[cells |-> 4, sessions |-> 0, runs |-> 2]}

\* Callers, trees and repositories are compared and nothing else.
MCSymmetry == Permutations(Callers) \cup Permutations(Trees) \cup Permutations(Repos)

=============================================================================
