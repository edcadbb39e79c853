----------------------------- MODULE MCNodePool -----------------------------
EXTENDS NodePool, TLC
Symmetry == Permutations(Workers)

\* Which part of the environment acts, fixed at the start, to keep the graphs
\* small: what a status means and what a batch dials ("status") do not depend on
\* how long ago a node was listed, and what a sweep deletes ("deletion") hardly
\* on blames, since blacklisted nodes are exempt.
VARIABLE scenario

Ages == [n \in Nodes |-> row[n].age]

Start(S) == Init /\ scenario \in S

SafetySpec ==
    /\ Start({"status", "deletion"})
    /\ [][/\ Next /\ UNCHANGED scenario
          /\ scenario = "status"   => \A n \in rows \cap rows' : Ages'[n] <= Ages[n]
          /\ scenario = "deletion" => UNCHANGED blames]_<<vars, scenario>>

\* Progress while the daemon stays up; sweeps, which owe nothing, are left out.
\* The pool is walked ("walk") without blames; cooldowns are lifted ("lift") for
\* one of the nodes.
ProgressSpec ==
    /\ Start({"walk", "lift"})
    /\ [][/\ Run /\ UNCHANGED <<sweeps, Ages, scenario>>
          /\ scenario = "walk" => UNCHANGED blames
          /\ scenario = "lift" => offer' \subseteq {CHOOSE n \in Nodes : TRUE}]_<<vars, scenario>>
    /\ Fairness

\* What the writers do to each other without a crash.
RunSpec == Start({"all"}) /\ [][Run /\ UNCHANGED scenario]_<<vars, scenario>>
=============================================================================
