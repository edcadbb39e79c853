--------------------------- MODULE VerifiedInstall ---------------------------
(***************************************************************************)
(* What self-update promises: the installed binary is only ever replaced   *)
(* whole, while the service runs, by a build that a published digest       *)
(* vouches for, that runs on this host, and that is newer than the one     *)
(* running; and a service that starts runs what is installed.              *)
(***************************************************************************)
EXTENDS Naturals

CONSTANTS Builds,    \* records with a field v, the version, 0 when unknown
          Runnable,  \* the builds that run on this host
          Nothing    \* the service is down

VARIABLES installed, running, vouched

vars == <<installed, running, vouched>>

Newer(b) == running.v = 0 \/ b.v > running.v

Init == installed \in Runnable /\ running = installed /\ vouched \subseteq Builds

Publish ==
    /\ vouched' \in SUBSET Builds /\ vouched \subseteq vouched'
    /\ UNCHANGED <<installed, running>>

Replace ==
    /\ running # Nothing
    /\ \E b \in vouched \cap Runnable : Newer(b) /\ installed' = b
    /\ UNCHANGED <<running, vouched>>

Stop == running' = Nothing /\ UNCHANGED <<installed, vouched>>

Start ==
    /\ running = Nothing /\ running' = installed
    /\ UNCHANGED <<installed, vouched>>

Next == Publish \/ Replace \/ Stop \/ Start

Spec == Init /\ [][Next]_vars
=============================================================================
