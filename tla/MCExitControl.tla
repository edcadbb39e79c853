--------------------------- MODULE MCExitControl ---------------------------
EXTENDS ExitControl, TLC
Symmetry == Permutations(Nodes)

\* Which of the automatic actors run beside the operator, fixed at the start to
\* keep the graph small.
VARIABLE running

\* An update that turns the switch off leaves the policy alone.
Quietly ==
    /\ UNCHANGED running
    /\ \A a \in Actors \ Operators : pc'[a] # "idle" => a \in running
    /\ settings'.enabled = "off" => settings' = [settings EXCEPT !.enabled = "off"]

\* An update turns the switch off beside maintenance only; elsewhere a Disconnect does.
OffByDisconnect ==
    \A a \in Operators :
        Maint \notin running /\ pc[a] = "idle" /\ pc'[a] = "reread" => settings'.enabled = "on"

SafetyInit == Init /\ running \in {{Health} \cup Handlers, {Maint, Health}}

SafetySpec ==
    /\ SafetyInit
    /\ [][Next /\ Quietly /\ OffByDisconnect]_<<vars, running>>

\* Recovery under each policy, with no operator.
LiveInit == Init /\ settings.enabled = "on" /\ running = Actors \ Operators

LiveSpec ==
    /\ LiveInit
    /\ [][Next /\ Quietly]_<<vars, running>>
    /\ Fairness
============================================================================
