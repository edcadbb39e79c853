----------------------------- MODULE HostProofs -----------------------------
(***************************************************************************)
(* The host: policy routing and tunnel devices, and the three of its       *)
(* models side by side.                                                    *)
(*                                                                         *)
(* PolicyRoutes: type correctness; what a Cleanup and a Setup promise,     *)
(* each as a statement of how far the call has come (Cleaned, SetUp); and  *)
(* that neither takes a route of another program it has seen.              *)
(*                                                                         *)
(* TunnelDevices: type correctness, and that no two probes at work share a *)
(* device, nor one with the exit, for any range and number of probes.      *)
(*                                                                         *)
(* With SelfUpdateProofs, the types of all three as MCHost runs them.      *)
(***************************************************************************)
EXTENDS MCHost, SelfUpdateProofs, TLAPS

-----------------------------------------------------------------------------
(* PolicyRoutes.                                                           *)

\* Where Cleanup returns to, for the service's threads, and the installer's
\* tables.
Returns == {"boot", "idle", "done", "addroute", "retry", "recover"}
TableNames == {"ours", "legacy"}
Locals == [at : Positions, back : Returns \cup TableNames, listed : SUBSET Routes,
           tables : SUBSET TableNames, try : 1..SetupRetries, clean : BOOLEAN, alone : BOOLEAN]

KernelOK ==
    /\ links \subseteq {Ours, Legacy} /\ routes \subseteq Routes /\ rules \subseteq Rules
    /\ rpFilter \in {"orig", "loose"} /\ saved \in {"none", "orig", "loose"}
    /\ faults \in 0..MaxFaults

ThreadsOK ==
    /\ thread \in [Threads -> Locals]
    /\ \A t \in Threads \ {Installer} : thread[t].back \in Returns

\* The positions after Cleanup has dealt with the routes, and with the rule.
Unrouted == {"restore", "reset", "done", "addroute", "retry", "failed"}
Unruled  == {"routes", "clear"} \cup Unrouted

\* What a Cleanup that nothing disturbed has done so far.
Cleaned(th, rt, ru) ==
    th.clean /\ th.alone =>
        /\ th.at \in Unruled => OurRule \notin ru
        /\ th.at = "clear" /\ OurRoute \in rt => OurRoute \in th.listed
        /\ th.at \in Unrouted => OurRoute \notin rt

\* What a Setup that nothing disturbed has done so far.
SetUp(th, ln, rt, ru) ==
    th.alone /\ Ours \in ln =>
        /\ th.at \in {"addrule", "read", "write", "up"} => OurRoute \in rt
        /\ th.at \in {"read", "write", "up"} => OurRule \in ru

RoutesIInv ==
    /\ KernelOK /\ ThreadsOK
    /\ \A t \in Cleaners \cup {Main} : Cleaned(thread[t], routes, rules)
    /\ SetUp(thread[Main], links, routes, rules)

-----------------------------------------------------------------------------

LEMMA Words ==
    /\ Returns \subseteq Positions
    /\ {"rules", "delrule", "routes", "clear", "restore", "reset", "addrule", "read", "write",
        "up", "failed", "orphans", "next", "list", "unroute", "idle"} \subseteq Positions
    /\ Main \in Threads /\ Installer \in Threads /\ Main # Installer
    /\ \A t \in Cleaners : t \in Threads /\ t # Main /\ t # Installer
  BY RoutesAssumption DEF Returns, Positions, Threads

LEMMA Things ==
    /\ OurRoute \in Routes /\ OurRule \in Rules /\ ForeignRoutes \subseteq Routes
    /\ \A r \in ForeignRoutes : r # OurRoute
    /\ OldRoutes \subseteq Routes /\ OldRules \subseteq Rules
    /\ OurRoute \notin OldRoutes /\ OurRule \notin OldRules
  BY RoutesAssumption DEF OurRoute, OurRule, Routes, Rules, OldRoutes, OldRules, Ours, Theirs, Legacy

LEMMA RestingOK ==
    ASSUME NEW p \in Returns
    PROVE  /\ Resting(p) \in Locals /\ Resting(p).at = p /\ Resting(p).back = p
           /\ Resting(p).clean /\ Resting(p).alone
  BY Words, RoutesAssumption DEF Resting, Locals

LEMMA CalledOK ==
    ASSUME NEW t \in Threads, NEW p \in Returns, thread[t] \in Locals
    PROVE  /\ Called(t, p) \in Locals /\ Called(t, p).at = "rules" /\ Called(t, p).back = p
           /\ Called(t, p).try = thread[t].try
  BY Words DEF Called, Resting, Locals

LEMMA InitRoutes == RoutesInit => RoutesIInv
<1> SUFFICES ASSUME RoutesInit PROVE RoutesIInv
  OBVIOUS
<1>1. KernelOK
  BY Things, RoutesAssumption DEF RoutesInit, KernelOK
<1>2. \A t \in Threads : thread[t] = Resting(IF t = Main THEN "boot" ELSE "idle")
  BY DEF RoutesInit
<1>3. {"boot", "idle"} \subseteq Returns
  BY DEF Returns
<1>4. ThreadsOK
  BY <1>2, <1>3, RestingOK DEF ThreadsOK, RoutesInit
<1>5. \A t \in Threads : thread[t].at \in {"boot", "idle"}
  BY <1>2, <1>3, RestingOK
<1>6. \A t \in Threads : Cleaned(thread[t], routes, rules) /\ SetUp(thread[t], links, routes, rules)
  BY <1>5 DEF Cleaned, SetUp, Unruled, Unrouted
<1> QED
  BY <1>1, <1>4, <1>6, Words DEF RoutesIInv

\* A thread takes a step.  One that changes the kernel either tells the others
\* (Alter) or disturbs nothing they rely on.
LEMMA ThreadStep ==
    ASSUME RoutesIInv, KernelOK', NEW t \in Threads, NEW new \in Locals,
           t # Installer => new.back \in Returns,
           \/ Alter(t, new)
           \/ /\ Go(t, new)
              /\ OurRule \in rules' => OurRule \in rules
              /\ OurRoute \in routes' => OurRoute \in routes
              /\ t # Main /\ Ours \in links' => /\ Ours \in links
                                                /\ OurRoute \in routes => OurRoute \in routes'
                                                /\ OurRule \in rules => OurRule \in rules',
           t # Installer => Cleaned(new, routes', rules'),
           t = Main => SetUp(new, links', routes', rules')
    PROVE  RoutesIInv'
<1>1. /\ thread \in [Threads -> Locals]
      /\ \A u \in Threads \ {Installer} : thread[u].back \in Returns
  BY DEF RoutesIInv, ThreadsOK
<1>2. CASE Alter(t, new)
  <2>1. \A u \in Threads : [thread[u] EXCEPT !.alone = FALSE] \in Locals
                           /\ [thread[u] EXCEPT !.alone = FALSE].back = thread[u].back
                           /\ ~[thread[u] EXCEPT !.alone = FALSE].alone
    BY <1>1 DEF Locals
  <2>2. thread' \in [Threads -> Locals] /\ thread'[t] = new
        /\ \A u \in Threads \ {t} : thread'[u].back = thread[u].back /\ ~thread'[u].alone
    BY <1>2, <2>1 DEF Alter
  <2>3. ThreadsOK'
    BY <1>1, <2>2 DEF ThreadsOK
  <2>4. \A u \in Cleaners \cup {Main} : Cleaned(thread'[u], routes', rules')
    BY <2>2, Words DEF Cleaned
  <2>5. SetUp(thread'[Main], links', routes', rules')
    BY <2>2, Words DEF SetUp
  <2> QED
    BY <2>3, <2>4, <2>5 DEF RoutesIInv
<1>3. CASE /\ Go(t, new)
           /\ OurRule \in rules' => OurRule \in rules
           /\ OurRoute \in routes' => OurRoute \in routes
           /\ t # Main /\ Ours \in links' => /\ Ours \in links
                                             /\ OurRoute \in routes => OurRoute \in routes'
                                             /\ OurRule \in rules => OurRule \in rules'
  <2>1. thread' \in [Threads -> Locals] /\ thread'[t] = new
        /\ \A u \in Threads \ {t} : thread'[u] = thread[u]
    BY <1>1, <1>3 DEF Go
  <2>2. ThreadsOK'
    BY <1>1, <2>1 DEF ThreadsOK
  <2>3. \A u \in Cleaners \cup {Main} : Cleaned(thread'[u], routes', rules')
    BY <1>3, <2>1, Words DEF Cleaned, RoutesIInv
  <2>4. SetUp(thread'[Main], links', routes', rules')
    BY <1>3, <2>1, Words DEF SetUp, RoutesIInv
  <2> QED
    BY <2>2, <2>3, <2>4 DEF RoutesIInv
<1> QED
  BY <1>2, <1>3

\* A step that leaves links, routes and rules as they are.
LEMMA Quietly ==
    ASSUME RoutesIInv, KernelOK', NEW t \in Threads, NEW new \in Locals,
           t # Installer => new.back \in Returns, Go(t, new), UNCHANGED <<links, routes, rules>>,
           t # Installer => Cleaned(new, routes, rules),
           t = Main => SetUp(new, links, routes, rules)
    PROVE  RoutesIInv'
  BY ThreadStep

\* What a thread of the service relies on.
LEMMA Relied ==
    ASSUME RoutesIInv, NEW t \in Cleaners \cup {Main}
    PROVE  /\ t \in Threads /\ t # Installer /\ thread[t] \in Locals /\ thread[t].back \in Returns
           /\ Cleaned(thread[t], routes, rules) /\ KernelOK
           /\ t = Main => SetUp(thread[t], links, routes, rules)
  BY Words DEF RoutesIInv, ThreadsOK

\* The variables of a command that runs or fails.
LEMMA FaultsOK == ASSUME KernelOK, Runs \/ Fails PROVE faults' \in 0..MaxFaults
  BY RoutesAssumption DEF KernelOK, Runs, Fails

\* A thread's locals once it has moved, and once it has moved on from a
\* command that failed.
Moved(t, p)  == [thread[t] EXCEPT !.at = p]
Failing(t, p) == [thread[t] EXCEPT !.at = p, !.clean = FALSE]

LEMMA MovedOK ==
    ASSUME NEW t \in Threads, thread[t] \in Locals, NEW p \in Positions
    PROVE  /\ Moved(t, p) \in Locals /\ Moved(t, p).at = p /\ Moved(t, p).back = thread[t].back
           /\ Moved(t, p).listed = thread[t].listed
           /\ Moved(t, p).clean = thread[t].clean /\ Moved(t, p).alone = thread[t].alone
           /\ Failing(t, p) \in Locals /\ Failing(t, p).at = p
           /\ Failing(t, p).back = thread[t].back /\ ~Failing(t, p).clean
           /\ Cleaned(Failing(t, p), routes, rules)
  BY DEF Moved, Failing, Locals, Cleaned

\* Nothing is promised of Setup while Cleanup runs or where it is at rest.
LEMMA NoSetUp ==
    ASSUME NEW th, th.at \notin {"addrule", "read", "write", "up"}, NEW ln, NEW rt, NEW ru
    PROVE  SetUp(th, ln, rt, ru)
  BY DEF SetUp

Settling == {"addrule", "read", "write", "up"}

LEMMA MoveQuietly ==
    ASSUME RoutesIInv, KernelOK', NEW t \in Cleaners \cup {Main}, NEW p \in Positions,
           p \notin Settling, Go(t, Moved(t, p)), UNCHANGED <<links, routes, rules>>,
           Cleaned(Moved(t, p), routes, rules)
    PROVE  RoutesIInv'
<1>1. /\ t \in Threads /\ t # Installer /\ thread[t] \in Locals /\ thread[t].back \in Returns
  BY Relied
<1>2. Moved(t, p) \in Locals /\ Moved(t, p).at = p /\ Moved(t, p).back \in Returns
  BY <1>1, MovedOK
<1>3. SetUp(Moved(t, p), links, routes, rules)
  BY <1>2, NoSetUp DEF Settling
<1> QED
  BY <1>1, <1>2, <1>3, Quietly

LEMMA FailQuietly ==
    ASSUME RoutesIInv, KernelOK', NEW t \in Cleaners \cup {Main}, NEW p \in Positions,
           p \notin Settling, Go(t, Failing(t, p)), UNCHANGED <<links, routes, rules>>
    PROVE  RoutesIInv'
<1>1. /\ t \in Threads /\ t # Installer /\ thread[t] \in Locals /\ thread[t].back \in Returns
  BY Relied
<1>2. /\ Failing(t, p) \in Locals /\ Failing(t, p).at = p /\ Failing(t, p).back \in Returns
      /\ Cleaned(Failing(t, p), routes, rules)
  BY <1>1, MovedOK
<1>3. SetUp(Failing(t, p), links, routes, rules)
  BY <1>2, NoSetUp DEF Settling
<1> QED
  BY <1>1, <1>2, <1>3, Quietly

\* A command of Cleanup that changes the kernel.
LEMMA MoveLoudly ==
    ASSUME RoutesIInv, KernelOK', NEW t \in Cleaners \cup {Main}, NEW p \in Positions,
           p \notin Settling, Alter(t, Moved(t, p)), Cleaned(Moved(t, p), routes', rules')
    PROVE  RoutesIInv'
<1>1. /\ t \in Threads /\ t # Installer /\ thread[t] \in Locals /\ thread[t].back \in Returns
  BY Relied
<1>2. Moved(t, p) \in Locals /\ Moved(t, p).at = p /\ Moved(t, p).back \in Returns
  BY <1>1, MovedOK
<1>3. SetUp(Moved(t, p), links', routes', rules')
  BY <1>2, NoSetUp DEF Settling
<1> QED
  BY <1>1, <1>2, <1>3, ThreadStep

LEMMA ShowRulesKeeps ==
    ASSUME RoutesIInv, NEW t \in Cleaners \cup {Main}, ShowRules(t)
    PROVE  RoutesIInv'
<1>1. t \in Threads /\ thread[t] \in Locals /\ KernelOK
  BY Relied
<1>2. KernelOK' /\ UNCHANGED <<links, routes, rules>>
  BY <1>1, FaultsOK DEF ShowRules, KernelOK
<1>3. /\ "delrule" \in Positions /\ "routes" \in Positions
      /\ "delrule" \notin Settling /\ "routes" \notin Settling
  BY Words DEF Settling
<1>4. CASE Go(t, Moved(t, "delrule"))
  <2>1. Cleaned(Moved(t, "delrule"), routes, rules)
    BY <1>1, <1>3, MovedOK DEF Cleaned, Unruled, Unrouted
  <2> QED
    BY <1>2, <1>3, <1>4, <2>1, MoveQuietly
<1>5. CASE Go(t, Moved(t, "routes")) /\ OurRule \notin rules
  <2>1. Cleaned(Moved(t, "routes"), routes, rules)
    BY <1>1, <1>3, <1>5, MovedOK DEF Cleaned, Unruled, Unrouted
  <2> QED
    BY <1>2, <1>3, <1>5, <2>1, MoveQuietly
<1>6. CASE Go(t, Failing(t, "routes"))
  BY <1>2, <1>3, <1>6, FailQuietly
<1> QED
  BY <1>4, <1>5, <1>6 DEF ShowRules, Continue, Moved, Failing

LEMMA DelRuleKeeps ==
    ASSUME RoutesIInv, NEW t \in Cleaners \cup {Main}, DelRule(t)
    PROVE  RoutesIInv'
<1>1. t \in Threads /\ thread[t] \in Locals /\ KernelOK
  BY Relied
<1>2. KernelOK' /\ UNCHANGED <<links, routes>>
  BY <1>1, FaultsOK DEF DelRule, KernelOK
<1>3. "routes" \in Positions /\ "routes" \notin Settling
  BY Words DEF Settling
<1>4. CASE rules' = rules \ {OurRule} /\ Alter(t, Moved(t, "routes"))
  <2>1. Cleaned(Moved(t, "routes"), routes', rules')
    BY <1>1, <1>3, <1>4, MovedOK DEF Cleaned, Unruled, Unrouted
  <2> QED
    BY <1>2, <1>3, <1>4, <2>1, MoveLoudly
<1>5. CASE Go(t, Failing(t, "routes")) /\ UNCHANGED rules
  BY <1>2, <1>3, <1>5, FailQuietly
<1> QED
  BY <1>4, <1>5 DEF DelRule, AlterTo, Moved, Failing

LEMMA ShowRoutesKeeps ==
    ASSUME RoutesIInv, NEW t \in Cleaners \cup {Main}, ShowRoutes(t)
    PROVE  RoutesIInv'
<1>1. /\ t \in Threads /\ t # Installer /\ thread[t] \in Locals /\ KernelOK
      /\ thread[t].back \in Returns /\ thread[t].at = "routes"
      /\ Cleaned(thread[t], routes, rules)
  BY Relied DEF ShowRoutes, At
<1>2. KernelOK' /\ UNCHANGED <<links, routes, rules>>
  BY <1>1, FaultsOK DEF ShowRoutes, KernelOK
<1>3. "clear" \in Positions
  BY Words
<1> DEFINE after(l) == [thread[t] EXCEPT !.at = "clear", !.listed = l]
           blind == [thread[t] EXCEPT !.at = "clear", !.listed = {}, !.clean = FALSE]
<1>4. CASE Go(t, after(InTable("ours")))
  <2> DEFINE new == after(InTable("ours"))
  <2>1. InTable("ours") \subseteq Routes
    BY <1>1 DEF InTable, KernelOK
  <2>2. /\ new \in Locals /\ new.at = "clear" /\ new.listed = InTable("ours")
        /\ new.back = thread[t].back /\ new.clean = thread[t].clean
        /\ new.alone = thread[t].alone
    BY <1>1, <1>3, <2>1 DEF Locals
  <2> HIDE DEF new
  <2>3. OurRoute \in routes => OurRoute \in InTable("ours")
    BY DEF OurRoute, InTable
  <2>4. Cleaned(new, routes, rules)
    BY <1>1, <2>2, <2>3 DEF Cleaned, Unruled, Unrouted
  <2>5. SetUp(new, links, routes, rules)
    BY <2>2, NoSetUp
  <2>6. Go(t, new)
    BY <1>4 DEF new
  <2> QED
    BY <1>1, <1>2, <2>2, <2>4, <2>5, <2>6, Quietly
<1>5. CASE Go(t, blind)
  <2>1. blind \in Locals /\ blind.at = "clear" /\ blind.back = thread[t].back /\ ~blind.clean
    BY <1>1, <1>3 DEF Locals
  <2> HIDE DEF blind
  <2>2. Cleaned(blind, routes, rules) /\ SetUp(blind, links, routes, rules)
    BY <2>1 DEF Cleaned, SetUp
  <2> QED
    BY <1>1, <1>2, <1>5, <2>1, <2>2, Quietly
<1> QED
  BY <1>4, <1>5 DEF ShowRoutes

LEMMA ClearKeeps ==
    ASSUME RoutesIInv, NEW t \in Cleaners \cup {Main}, Clear(t)
    PROVE  RoutesIInv'
<1>1. /\ t \in Threads /\ thread[t] \in Locals /\ KernelOK /\ thread[t].at = "clear"
      /\ Cleaned(thread[t], routes, rules)
  BY Relied DEF Clear, At
<1>2. KernelOK' /\ UNCHANGED <<links, rules>>
  BY <1>1, FaultsOK DEF Clear, KernelOK
<1>3. "restore" \in Positions /\ "restore" \notin Settling
  BY Words DEF Settling
<1>4. CASE routes' = routes \ Doomed(thread[t].listed) /\ Alter(t, Moved(t, "restore"))
  <2>1. OurRoute \in routes => OurRoute \in InTable("ours")
    BY DEF OurRoute, InTable
  <2>2. OurRoute \in routes /\ OurRoute \in thread[t].listed => OurRoute \in Doomed(thread[t].listed)
    BY <2>1 DEF Doomed, Owns, OurRoute
  <2>3. Cleaned(Moved(t, "restore"), routes', rules')
    BY <1>1, <1>2, <1>3, <1>4, <2>2, MovedOK DEF Cleaned, Unruled, Unrouted
  <2> QED
    BY <1>2, <1>3, <1>4, <2>3, MoveLoudly
<1>5. CASE Go(t, Failing(t, "restore")) /\ UNCHANGED routes
  BY <1>2, <1>3, <1>5, FailQuietly
<1> QED
  BY <1>4, <1>5 DEF Clear, AlterTo, Moved, Failing

LEMMA RestoreKeeps ==
    ASSUME RoutesIInv, NEW t \in Cleaners \cup {Main}, Restore(t)
    PROVE  RoutesIInv'
<1>1. /\ t \in Threads /\ thread[t] \in Locals /\ KernelOK /\ thread[t].at = "restore"
      /\ Cleaned(thread[t], routes, rules)
  BY Relied DEF Restore, At
<1>2. KernelOK' /\ UNCHANGED <<links, routes, rules>>
  BY <1>1, FaultsOK DEF Restore, KernelOK
<1>3. "reset" \in Positions /\ "reset" \notin Settling
  BY Words DEF Settling
<1>4. Cleaned(Moved(t, "reset"), routes, rules)
  BY <1>1, <1>3, MovedOK DEF Cleaned, Unruled, Unrouted
<1>5. Go(t, Moved(t, "reset"))
  BY DEF Restore, Continue, Moved
<1> QED
  BY <1>2, <1>3, <1>4, <1>5, MoveQuietly

LEMMA ResetKeeps ==
    ASSUME RoutesIInv, NEW t \in Cleaners \cup {Main}, Reset(t)
    PROVE  RoutesIInv'
<1>1. /\ t \in Threads /\ thread[t] \in Locals /\ KernelOK /\ thread[t].at = "reset"
      /\ Cleaned(thread[t], routes, rules) /\ thread[t].back \in Returns
  BY Relied DEF Reset, At
<1> DEFINE p == thread[t].back
<1>2. KernelOK' /\ UNCHANGED <<links, routes, rules>>
  BY <1>1 DEF Reset, KernelOK
<1>3. p \in Positions /\ p \notin Settling /\ p # "clear"
  BY <1>1, Words DEF Settling, Returns
<1>4. Go(t, Moved(t, p))
  BY DEF Reset, Continue, Moved
<1>5. Cleaned(Moved(t, p), routes, rules)
  BY <1>1, <1>3, MovedOK DEF Cleaned, Unruled, Unrouted
<1> QED
  BY <1>2, <1>3, <1>4, <1>5, MoveQuietly

\* A call of Cleanup begins.
LEMMA CallKeeps ==
    ASSUME RoutesIInv, KernelOK', NEW t \in Cleaners \cup {Main}, NEW p \in Returns,
           Go(t, Called(t, p)), UNCHANGED <<links, routes, rules>>
    PROVE  RoutesIInv'
<1>1. /\ t \in Threads /\ t # Installer /\ thread[t] \in Locals
  BY Relied
<1>2. Called(t, p) \in Locals /\ Called(t, p).at = "rules" /\ Called(t, p).back = p
  BY <1>1, CalledOK
<1>3. Cleaned(Called(t, p), routes, rules) /\ SetUp(Called(t, p), links, routes, rules)
  BY <1>2 DEF Cleaned, SetUp, Unruled, Unrouted
<1> QED
  BY <1>1, <1>2, <1>3, Quietly

LEMMA CallCleanupKeeps ==
    ASSUME RoutesIInv, NEW t \in Cleaners \cup {Main}, CallCleanup(t)
    PROVE  RoutesIInv'
<1>1. KernelOK' /\ UNCHANGED <<links, routes, rules>>
  BY DEF CallCleanup, RoutesIInv, KernelOK
<1> QED
  BY <1>1, CallKeeps DEF CallCleanup, Returns

LEMMA StartKeeps == RoutesIInv /\ Start => RoutesIInv'
<1> SUFFICES ASSUME RoutesIInv, Start PROVE RoutesIInv'
  OBVIOUS
<1>1. KernelOK' /\ UNCHANGED <<links, routes, rules>>
  BY DEF Start, RoutesIInv, KernelOK
<1> QED
  BY <1>1, CallKeeps DEF Start, Returns

\* Setup calls Cleanup, or Cleanup is what it comes to.
LEMMA AttemptKeeps ==
    ASSUME RoutesIInv, KernelOK', NEW p \in Returns, AttemptFails(p),
           UNCHANGED <<links, routes, rules>>
    PROVE  RoutesIInv'
  BY CallKeeps DEF AttemptFails

LEMMA ConnectKeeps == RoutesIInv /\ Connect => RoutesIInv'
<1> SUFFICES ASSUME RoutesIInv, Connect PROVE RoutesIInv'
  OBVIOUS
<1> DEFINE new == [Resting("rules") EXCEPT !.back = "addroute"]
<1>1. new \in Locals /\ new.at = "rules" /\ new.back = "addroute"
  <2>1. 1 \in 1..SetupRetries /\ "addroute" \in Returns
    BY RoutesAssumption DEF Returns
  <2> DEFINE calling == Resting("rules")
  <2>2. /\ calling \in [at : Positions, back : Positions, listed : SUBSET Routes,
                        tables : SUBSET TableNames, try : 1..SetupRetries, clean : BOOLEAN,
                        alone : BOOLEAN]
        /\ calling.at = "rules"
    BY <2>1, Words DEF Resting
  <2> HIDE DEF calling
  <2>3. /\ [calling EXCEPT !.back = "addroute"] \in Locals
        /\ [calling EXCEPT !.back = "addroute"].at = "rules"
        /\ [calling EXCEPT !.back = "addroute"].back = "addroute"
    BY <2>1, <2>2 DEF Locals
  <2> QED
    BY <2>3 DEF calling
<1>2. KernelOK' /\ routes' \subseteq routes /\ UNCHANGED rules /\ Go(Main, new)
  BY DEF Connect, WithoutOurs, RoutesIInv, KernelOK
<1> HIDE DEF new
<1>3. Cleaned(new, routes', rules') /\ SetUp(new, links', routes', rules')
  BY <1>1 DEF Cleaned, SetUp, Unruled, Unrouted
<1>4. Main \in Threads /\ "addroute" \in Returns
  BY Words DEF Returns
<1> QED
  BY <1>1, <1>2, <1>3, <1>4, ThreadStep

LEMMA AddRouteKeeps == RoutesIInv /\ AddRoute => RoutesIInv'
<1> SUFFICES ASSUME RoutesIInv, AddRoute PROVE RoutesIInv'
  OBVIOUS
<1>1. /\ Main \in Threads /\ Main # Installer /\ thread[Main] \in Locals /\ KernelOK
      /\ thread[Main].back \in Returns /\ thread[Main].at = "addroute"
      /\ Cleaned(thread[Main], routes, rules)
  BY Relied DEF AddRoute, At
<1>2. KernelOK' /\ UNCHANGED <<links, rules>>
  BY <1>1, FaultsOK, Things DEF AddRoute, KernelOK
<1>3. CASE routes' = routes \cup {OurRoute} /\ Alter(Main, Moved(Main, "addrule"))
  <2>1. "addrule" \in Positions
    BY Words
  <2>2. /\ Moved(Main, "addrule") \in Locals /\ Moved(Main, "addrule").at = "addrule"
        /\ Moved(Main, "addrule").back \in Returns
    BY <1>1, <2>1, MovedOK
  <2>3. Cleaned(Moved(Main, "addrule"), routes', rules')
    BY <2>2 DEF Cleaned, Unruled, Unrouted
  <2>4. SetUp(Moved(Main, "addrule"), links', routes', rules')
    BY <1>3, <2>2 DEF SetUp
  <2> QED
    BY <1>1, <1>2, <1>3, <2>2, <2>3, <2>4, ThreadStep
<1>4. CASE AttemptFails("retry") /\ UNCHANGED routes
  BY <1>2, <1>4, AttemptKeeps DEF Returns
<1> QED
  BY <1>3, <1>4 DEF AddRoute, AlterTo, Moved

LEMMA AddRuleKeeps == RoutesIInv /\ AddRule => RoutesIInv'
<1> SUFFICES ASSUME RoutesIInv, AddRule PROVE RoutesIInv'
  OBVIOUS
<1>1. /\ Main \in Threads /\ Main # Installer /\ thread[Main] \in Locals /\ KernelOK
      /\ thread[Main].back \in Returns /\ thread[Main].at = "addrule"
      /\ SetUp(thread[Main], links, routes, rules)
  BY Relied DEF AddRule, At
<1>2. KernelOK' /\ UNCHANGED <<links, routes>>
  BY <1>1, FaultsOK, Things DEF AddRule, KernelOK
<1>3. CASE rules' = rules \cup {OurRule} /\ Alter(Main, Moved(Main, "read"))
  <2>1. "read" \in Positions
    BY Words
  <2>2. /\ Moved(Main, "read") \in Locals /\ Moved(Main, "read").at = "read"
        /\ Moved(Main, "read").back \in Returns /\ Moved(Main, "read").alone = thread[Main].alone
    BY <1>1, <2>1, MovedOK
  <2>3. Cleaned(Moved(Main, "read"), routes', rules')
    BY <2>2 DEF Cleaned, Unruled, Unrouted
  <2>4. SetUp(Moved(Main, "read"), links', routes', rules')
    BY <1>1, <1>2, <1>3, <2>2 DEF SetUp
  <2> QED
    BY <1>1, <1>2, <1>3, <2>2, <2>3, <2>4, ThreadStep
<1>4. CASE AttemptFails("recover") /\ UNCHANGED rules
  BY <1>2, <1>4, AttemptKeeps DEF Returns
<1> QED
  BY <1>3, <1>4 DEF AddRule, AlterTo, Moved

LEMMA RecoverKeeps == RoutesIInv /\ Recover => RoutesIInv'
<1> SUFFICES ASSUME RoutesIInv, Recover PROVE RoutesIInv'
  OBVIOUS
<1>1. KernelOK' /\ UNCHANGED <<links, routes, rules>>
  BY DEF Recover, RoutesIInv, KernelOK
<1> QED
  BY <1>1, AttemptKeeps DEF Recover, Returns

LEMMA FilterKeeps == RoutesIInv /\ (ReadFilter \/ WriteFilter) => RoutesIInv'
<1> SUFFICES ASSUME RoutesIInv, ReadFilter \/ WriteFilter PROVE RoutesIInv'
  OBVIOUS
<1>1. /\ Main \in Threads /\ Main # Installer /\ thread[Main] \in Locals /\ KernelOK
      /\ thread[Main].back \in Returns /\ thread[Main].at \in {"read", "write"}
      /\ SetUp(thread[Main], links, routes, rules)
  BY Relied DEF ReadFilter, WriteFilter, At
<1>2. KernelOK' /\ UNCHANGED <<links, routes, rules>>
  BY <1>1, FaultsOK DEF ReadFilter, WriteFilter, KernelOK
<1>3. ASSUME NEW p \in {"write", "up"}, Go(Main, Moved(Main, p)) PROVE RoutesIInv'
  <2>1. p \in Positions
    BY Words
  <2>2. /\ Moved(Main, p) \in Locals /\ Moved(Main, p).at = p
        /\ Moved(Main, p).back \in Returns /\ Moved(Main, p).alone = thread[Main].alone
    BY <1>1, <2>1, MovedOK
  <2>3. Cleaned(Moved(Main, p), routes, rules)
    BY <2>2 DEF Cleaned, Unruled, Unrouted
  <2>4. SetUp(Moved(Main, p), links, routes, rules)
    BY <1>1, <2>2 DEF SetUp
  <2> QED
    BY <1>1, <1>2, <1>3, <2>2, <2>3, <2>4, Quietly
<1>4. CASE AttemptFails("retry")
  BY <1>2, <1>4, AttemptKeeps DEF Returns
<1>5. Go(Main, Moved(Main, "write")) \/ Go(Main, Moved(Main, "up")) \/ AttemptFails("retry")
  BY DEF ReadFilter, WriteFilter, Continue, Moved
<1> QED
  BY <1>3, <1>4, <1>5

LEMMA RetryKeeps == RoutesIInv /\ Retry => RoutesIInv'
<1> SUFFICES ASSUME RoutesIInv, Retry PROVE RoutesIInv'
  OBVIOUS
<1>1. /\ Main \in Threads /\ Main # Installer /\ thread[Main] \in Locals /\ KernelOK
      /\ thread[Main].at = "retry" /\ Cleaned(thread[Main], routes, rules)
  BY Relied DEF Retry, At
<1>2. KernelOK' /\ UNCHANGED <<links, routes, rules>>
  BY <1>1 DEF Retry, KernelOK
<1>3. CASE Go(Main, Moved(Main, "failed"))
  <2>1. "failed" \in Positions /\ "failed" \notin Settling
    BY Words DEF Settling
  <2>2. Cleaned(Moved(Main, "failed"), routes, rules)
    BY <1>1, <2>1, MovedOK DEF Cleaned, Unruled, Unrouted
  <2> QED
    BY <1>2, <1>3, <2>1, <2>2, MoveQuietly
<1>4. CASE /\ thread[Main].try < SetupRetries
           /\ Go(Main, [Called(Main, "addroute") EXCEPT !.try = @ + 1])
  <2> DEFINE called == Called(Main, "addroute")
             new == [called EXCEPT !.try = called.try + 1]
  <2>1. "addroute" \in Returns
    BY DEF Returns
  <2>2. /\ called \in Locals /\ called.at = "rules" /\ called.back = "addroute"
        /\ called.try = thread[Main].try
    BY <1>1, <2>1, CalledOK
  <2>3. Go(Main, new)
    BY <1>4
  <2> HIDE DEF called
  <2>4. called.try + 1 \in 1..SetupRetries
    BY <1>1, <1>4, <2>2, RoutesAssumption DEF Locals
  <2>5. new \in Locals /\ new.at = "rules" /\ new.back = "addroute"
    BY <2>2, <2>4 DEF Locals
  <2> HIDE DEF new
  <2>6. Cleaned(new, routes, rules) /\ SetUp(new, links, routes, rules)
    BY <2>5 DEF Cleaned, SetUp, Unruled, Unrouted
  <2> QED
    BY <1>1, <1>2, <2>1, <2>3, <2>5, <2>6, Quietly
<1> QED
  BY <1>3, <1>4 DEF Retry, Continue, Moved

LEMMA GiveUpKeeps == RoutesIInv /\ GiveUpTunnel => RoutesIInv'
<1> SUFFICES ASSUME RoutesIInv, GiveUpTunnel PROVE RoutesIInv'
  OBVIOUS
<1>1. Main \in Threads /\ "idle" \in Returns
  BY Words DEF Returns
<1>2. Resting("idle") \in Locals /\ Resting("idle").at = "idle" /\ Resting("idle").back = "idle"
  BY <1>1, RestingOK
<1>3. KernelOK' /\ routes' \subseteq routes /\ UNCHANGED rules /\ Go(Main, Resting("idle"))
  BY DEF GiveUpTunnel, WithoutOurs, RoutesIInv, KernelOK
<1>4. Cleaned(Resting("idle"), routes', rules') /\ SetUp(Resting("idle"), links', routes', rules')
  BY <1>2 DEF Cleaned, SetUp, Unruled, Unrouted
<1> QED
  BY <1>1, <1>2, <1>3, <1>4, ThreadStep

-----------------------------------------------------------------------------
(* The installer and the host.                                             *)

\* The installer touches neither our rule nor our route.
LEMMA InstallerKeeps == RoutesIInv /\ CleanupOrphanedRules => RoutesIInv'
<1> SUFFICES ASSUME RoutesIInv, CleanupOrphanedRules PROVE RoutesIInv'
  OBVIOUS
<1> DEFINE th == thread[Installer]
<1>1. Installer \in Threads /\ th \in Locals /\ Installer # Main /\ KernelOK
  BY Words DEF RoutesIInv, ThreadsOK
<1>2. /\ KernelOK' /\ UNCHANGED links
      /\ OurRule \in rules' <=> OurRule \in rules
      /\ OurRoute \in routes' <=> OurRoute \in routes
  <2>1. \A q \in TableNames : OurRule # [oif |-> Legacy, table |-> q]
    BY DEF OurRule, Ours, Legacy
  <2>2. th.tables \subseteq TableNames
    BY <1>1 DEF Locals
  <2>3. faults' \in 0..MaxFaults
    BY <1>1, FaultsOK DEF CleanupOrphanedRules, Look, ShowOrphans, DelOrphan, ShowOrphanRoutes,
                          DelOrphanRoute, KernelOK
  <2>4. UNCHANGED <<links, rpFilter, saved>>
    BY DEF CleanupOrphanedRules, Look, ShowOrphans, DelOrphan, ShowOrphanRoutes, DelOrphanRoute
  <2>5. rules' \subseteq rules /\ (OurRule \in rules => OurRule \in rules')
    BY <2>1, <2>2 DEF CleanupOrphanedRules, Look, ShowOrphans, DelOrphan, ShowOrphanRoutes,
                      DelOrphanRoute
  <2>6. routes' \subseteq routes /\ (OurRoute \in routes => OurRoute \in routes')
    <3>1. CASE UNCHANGED routes
      BY <3>1
    <3>2. CASE \E r \in th.listed : r.dev = Legacy /\ routes' = routes \ {r}
      <4>1. OurRoute.dev = Ours /\ Ours # Legacy
        BY DEF OurRoute, Ours, Legacy
      <4> QED
        BY <3>2, <4>1
    <3>3. CASE DelOrphanRoute
      BY <3>1, <3>2, <3>3 DEF DelOrphanRoute
    <3>4. CASE Look \/ ShowOrphans \/ DelOrphan \/ ShowOrphanRoutes
      BY <3>1, <3>4 DEF Look, ShowOrphans, DelOrphan, ShowOrphanRoutes
    <3> QED
      BY <3>3, <3>4 DEF CleanupOrphanedRules
  <2> QED
    BY <1>1, <2>3, <2>4, <2>5, <2>6 DEF KernelOK
<1>3. \E new \in Locals \cup {th} : Go(Installer, new) \/ UNCHANGED thread
  <2>1. "idle" \in Returns /\ Resting("idle") \in Locals
    BY RestingOK DEF Returns
  <2>2. {"orphans", "next", "list", "unroute"} \subseteq Positions
    BY Words
  <2>3. \A p \in Positions : Moved(Installer, p) \in Locals
    BY <1>1, MovedOK
  <2>4. CASE Look
    BY <2>2, <2>3, <2>4 DEF Look, Continue, Moved
  <2>5. CASE ShowOrphans
    <3>1. OrphanTables \subseteq TableNames
      BY <1>1 DEF OrphanTables, KernelOK, Rules, TableNames
    <3>2. [th EXCEPT !.at = "next", !.tables = OrphanTables] \in Locals
      BY <1>1, <2>2, <3>1 DEF Locals
    <3> QED
      BY <2>1, <2>5, <3>2 DEF ShowOrphans
  <2>6. CASE DelOrphan
    <3>1. CASE Go(Installer, Resting("idle"))
      BY <2>1, <3>1
    <3>2. ASSUME NEW q \in th.tables,
                 LET rest == [th EXCEPT !.tables = @ \ {q}]
                 IN Go(Installer, [rest EXCEPT !.at = "list", !.back = q]) \/ Go(Installer, rest)
          PROVE  \E new \in Locals \cup {th} : Go(Installer, new)
      <4> DEFINE rest == [th EXCEPT !.tables = th.tables \ {q}]
                 listing == [rest EXCEPT !.at = "list", !.back = q]
      <4>1. rest \in Locals /\ q \in TableNames
        BY <1>1 DEF Locals
      <4>2. Go(Installer, listing) \/ Go(Installer, rest)
        BY <3>2
      <4> HIDE DEF rest
      <4>3. listing \in Locals
        BY <2>2, <4>1 DEF Locals
      <4> QED
        BY <4>1, <4>2, <4>3
    <3> QED
      BY <2>6, <3>1, <3>2 DEF DelOrphan
  <2>7. CASE ShowOrphanRoutes
    <3>1. InTable(th.back) \subseteq Routes
      BY <1>1 DEF InTable, KernelOK
    <3>2. [th EXCEPT !.at = "unroute", !.listed = InTable(th.back)] \in Locals
      BY <1>1, <2>2, <3>1 DEF Locals
    <3> QED
      BY <2>2, <2>3, <2>7, <3>2 DEF ShowOrphanRoutes, Continue, Moved
  <2>8. CASE DelOrphanRoute
    <3>1. [th EXCEPT !.at = "next", !.listed = {}] \in Locals
      BY <1>1, <2>2 DEF Locals
    <3>2. \A r : [th EXCEPT !.listed = th.listed \ {r}] \in Locals
      BY <1>1 DEF Locals
    <3> QED
      BY <2>8, <3>1, <3>2 DEF DelOrphanRoute
  <2> QED
    BY <2>4, <2>5, <2>6, <2>7, <2>8 DEF CleanupOrphanedRules
<1>4. CASE UNCHANGED thread
  <2>1. ThreadsOK'
    BY <1>4 DEF RoutesIInv, ThreadsOK
  <2>2. \A t \in Cleaners \cup {Main} : Cleaned(thread'[t], routes', rules')
    BY <1>2, <1>4 DEF RoutesIInv, Cleaned
  <2>3. SetUp(thread'[Main], links', routes', rules')
    BY <1>2, <1>4 DEF RoutesIInv, SetUp
  <2> QED
    BY <1>2, <2>1, <2>2, <2>3 DEF RoutesIInv
<1>5. CASE \E new \in Locals : Go(Installer, new)
  BY <1>1, <1>2, <1>5, ThreadStep
<1> QED
  BY <1>1, <1>3, <1>4, <1>5

\* The host leaves our rule alone, and our route unless our device goes.
LEMMA HostKeeps == RoutesIInv /\ HostSteps => RoutesIInv'
<1> SUFFICES ASSUME RoutesIInv, HostSteps PROVE RoutesIInv'
  OBVIOUS
<1>1. UNCHANGED <<rules, rpFilter, saved, thread, faults>>
  BY DEF HostSteps, ForeignAdds, ForeignRemoves, DeviceGone
<1>2. /\ links' \subseteq links /\ routes' \subseteq Routes
      /\ OurRoute \in routes' => OurRoute \in routes
      /\ Ours \in links' /\ OurRoute \in routes => OurRoute \in routes'
  <2>1. CASE ForeignAdds \/ ForeignRemoves
    BY <2>1, Things DEF ForeignAdds, ForeignRemoves, RoutesIInv, KernelOK
  <2>2. CASE DeviceGone
    <3>1. PICK d \in links : links' = links \ {d} /\ routes' = {r \in routes : r.dev # d}
      BY <2>2 DEF DeviceGone
    <3>2. OurRoute.dev = Ours
      BY DEF OurRoute
    <3> QED
      BY <3>1, <3>2 DEF RoutesIInv, KernelOK
  <2> QED
    BY <2>1, <2>2 DEF HostSteps
<1>3. KernelOK' /\ ThreadsOK'
  BY <1>1, <1>2 DEF RoutesIInv, KernelOK, ThreadsOK
<1>4. \A t \in Cleaners \cup {Main} : Cleaned(thread'[t], routes', rules')
  BY <1>1, <1>2 DEF RoutesIInv, Cleaned
<1>5. SetUp(thread'[Main], links', routes', rules')
  BY <1>1, <1>2 DEF RoutesIInv, SetUp
<1> QED
  BY <1>3, <1>4, <1>5 DEF RoutesIInv

LEMMA DeathKeeps == RoutesIInv /\ ProcessDies => RoutesIInv'
<1> SUFFICES ASSUME RoutesIInv, ProcessDies PROVE RoutesIInv'
  OBVIOUS
<1>1. KernelOK' /\ UNCHANGED <<links, routes, rules>>
  BY DEF ProcessDies, RoutesIInv, KernelOK
<1>2. {"boot", "idle"} \subseteq Returns
  BY DEF Returns
<1>3. \A t \in Threads \ {Installer} : thread'[t] = Resting(IF t = Main THEN "boot" ELSE "idle")
  BY DEF ProcessDies
<1>4. \A t \in Threads \ {Installer} :
        /\ thread'[t] \in Locals /\ thread'[t].back \in Returns
        /\ thread'[t].at \in {"boot", "idle"}
  BY <1>2, <1>3, RestingOK
<1>5. ThreadsOK'
  <2>1. thread' = [t \in Threads |-> thread'[t]] /\ (thread \in [Threads -> Locals])
    BY DEF ProcessDies, RoutesIInv, ThreadsOK
  <2>2. thread'[Installer] = thread[Installer]
    BY Words DEF ProcessDies
  <2>3. \A t \in Threads : thread'[t] \in Locals
    BY <1>4, <2>1, <2>2, Words
  <2> QED
    BY <1>4, <2>1, <2>3 DEF ThreadsOK
<1>6. \A t \in Cleaners \cup {Main} : Cleaned(thread'[t], routes', rules')
  BY <1>4, Words DEF Cleaned, Unruled, Unrouted
<1>7. SetUp(thread'[Main], links', routes', rules')
  BY <1>4, Words DEF SetUp
<1> QED
  BY <1>1, <1>5, <1>6, <1>7 DEF RoutesIInv

LEMMA StepRoutes == RoutesIInv /\ [RoutesNext]_routesVars => RoutesIInv'
<1> SUFFICES ASSUME RoutesIInv, [RoutesNext]_routesVars PROVE RoutesIInv'
  OBVIOUS
<1>1. CASE ServiceSteps
  BY <1>1, StartKeeps, ConnectKeeps, AddRouteKeeps, AddRuleKeeps, RecoverKeeps, FilterKeeps,
     RetryKeeps, GiveUpKeeps, ShowRulesKeeps, DelRuleKeeps, ShowRoutesKeeps, ClearKeeps,
     RestoreKeeps, ResetKeeps, CallCleanupKeeps, DeathKeeps
  DEF ServiceSteps, Setup, Cleanup
<1>2. CASE UNCHANGED routesVars
  BY <1>2 DEF routesVars, RoutesIInv, KernelOK, ThreadsOK
<1> QED
  BY <1>1, <1>2, InstallerKeeps, HostKeeps DEF RoutesNext

LEMMA RoutesInvariant == RoutesSpec => []RoutesIInv
  BY InitRoutes, StepRoutes, PTL DEF RoutesSpec

\* PolicyRouter.Cleanup, by any number of callers beside a Setup, after any
\* crash: a call none of whose commands failed and that no other call disturbed
\* leaves no rule and no route of ours.
THEOREM CleanupTotal == RoutesSpec => []CleanupComplete
<1>1. RoutesIInv => CleanupComplete
  BY DEF RoutesIInv, CleanupComplete, Cleaned, Unruled, Unrouted
<1> QED
  BY <1>1, RoutesInvariant, PTL

\* PolicyRouter.Setup: an exit that is up has its route and its rule, unless
\* another call disturbed it or its device has gone.
THEOREM SetupTotal == RoutesSpec => []SetupWhole
<1>1. RoutesIInv => SetupWhole
  BY DEF RoutesIInv, SetupWhole, SetUp, At
<1> QED
  BY <1>1, RoutesInvariant, PTL

LEMMA RoutesTyped == RoutesIInv => RoutesTypeOK
  BY DEF RoutesIInv, RoutesTypeOK, KernelOK, ThreadsOK, Locals

\* Every variable of the routing model keeps its type.
THEOREM RoutesTypeCorrect == RoutesSpec => []RoutesTypeOK
  BY RoutesTyped, RoutesInvariant, PTL

\* A step of one thread leaves the place and the listing of the others.
LEMMA OthersStay ==
    ASSUME ThreadsOK, NEW t \in Threads, NEW u \in Threads, t # u, NEW new,
           Go(u, new) \/ Alter(u, new)
    PROVE  ~Stepped(t)
<1>1. thread[t] \in Locals
  BY DEF ThreadsOK
<1>2. [thread[t] EXCEPT !.alone = FALSE].at = thread[t].at
      /\ [thread[t] EXCEPT !.alone = FALSE].listed = thread[t].listed
  BY <1>1 DEF Locals
<1>3. CASE Go(u, new)
  BY <1>3 DEF Go, Stepped, ThreadsOK
<1>4. CASE Alter(u, new)
  BY <1>2, <1>4 DEF Alter, Stepped
<1> QED
  BY <1>3, <1>4

\* Another program's route that a thread has listed survives what it does.
LEMMA SeenSurvives ==
    ASSUME RoutesIInv, RoutesNext, NEW t \in Threads, NEW r, Stepped(t),
           r \in thread[t].listed, r.dev = Theirs, r \in routes
    PROVE  r \in routes'
<1>1. Theirs # Ours /\ Theirs # Legacy
  BY DEF Theirs, Ours, Legacy
<1>2. CASE routes \subseteq routes'
  BY <1>2
<1>3. ASSUME NEW d, d # Theirs, routes' = {q \in routes : q.dev # d} PROVE r \in routes'
  BY <1>3
<1>4. ASSUME UNCHANGED thread PROVE FALSE
  BY <1>4 DEF Stepped
<1>5. ASSUME NEW u \in Cleaners \cup {Main}, Clear(u) PROVE r \in routes'
  <2>1. u \in Threads
    BY Words
  <2>2. CASE routes' = routes \ Doomed(thread[u].listed) /\ AlterTo(u, "restore")
    <3>1. t = u
      BY <2>1, <2>2, OthersStay DEF AlterTo, RoutesIInv
    <3>2. r \notin Doomed(thread[u].listed)
      BY <1>1, <3>1 DEF Doomed, Owns
    <3> QED
      BY <2>2, <3>2
  <2> QED
    BY <1>2, <1>5, <2>2 DEF Clear
<1>6. CASE Connect \/ GiveUpTunnel
  BY <1>1, <1>3, <1>6 DEF Connect, GiveUpTunnel, WithoutOurs
<1>7. CASE DelOrphanRoute
  <2>1. CASE \E q \in thread[Installer].listed : q.dev = Legacy /\ routes' = routes \ {q}
    BY <1>1, <2>1
  <2> QED
    BY <1>2, <1>7, <2>1 DEF DelOrphanRoute
<1>8. CASE HostSteps
  BY <1>4, <1>8 DEF HostSteps, ForeignAdds, ForeignRemoves, DeviceGone
<1>9. CASE Start \/ Setup \/ ProcessDies
  BY <1>2, <1>9 DEF Start, Setup, ProcessDies, AddRoute, AddRule, Recover, ReadFilter, WriteFilter,
                    Retry
<1>10. CASE Look \/ ShowOrphans \/ DelOrphan \/ ShowOrphanRoutes
  BY <1>2, <1>10 DEF Look, ShowOrphans, DelOrphan, ShowOrphanRoutes
<1>11. ASSUME NEW u \in Cleaners \cup {Main},
              \/ CallCleanup(u) \/ ShowRules(u) \/ DelRule(u) \/ ShowRoutes(u) \/ Restore(u)
              \/ Reset(u)
       PROVE  r \in routes'
  BY <1>2, <1>11 DEF CallCleanup, ShowRules, DelRule, ShowRoutes, Restore, Reset
<1> QED
  BY <1>5, <1>6, <1>7, <1>8, <1>9, <1>10, <1>11
  DEF RoutesNext, ServiceSteps, CleanupOrphanedRules, Cleanup

\* PolicyRouter.Cleanup and CleanupOrphanedRules never take a route of another
\* program that the call's own listing showed, whatever runs beside them,
\* fails or crashes.
THEOREM ForeignSpared == RoutesSpec => SeenForeignKept
<1>1. RoutesIInv /\ [RoutesNext]_routesVars =>
        [\A t \in Threads : \A r \in ForeignRoutes \cup OldRoutes :
           Stepped(t) /\ r \in thread[t].listed /\ r.dev = Theirs /\ r \in routes
           => r \in routes']_routesVars
  BY SeenSurvives
<1> QED
  BY <1>1, RoutesInvariant, PTL DEF RoutesSpec, SeenForeignKept

-----------------------------------------------------------------------------
(* TunnelDevices.                                                          *)

Where == {"idle", "given", "probing", "released"}
Busy(p) == prober[p].at \in {"given", "probing"}

DevicesTyped ==
    /\ active \in Names /\ present \subseteq Names
    /\ tunnels \subseteq [dev : Names, by : Owners, open : BOOLEAN]
    /\ service \in {"boot", "list", "reclaim", "ready", "held", "remove", "dial"}
    /\ held \subseteq Names /\ listed \subseteq Pool
    /\ prober \in [Probers -> [at : Where, dev : Names \cup {NoDevice}]]

\* What is allocated lies in the probes' range, which the active device is
\* not in; what a probe at work has is allocated, and nobody else's.
AllocInv ==
    /\ allocated \subseteq FirstProbe..RangeEnd
    /\ \A p \in Probers : Busy(p) => prober[p].dev \in allocated
    /\ \A p, q \in Probers : p # q /\ Busy(p) /\ Busy(q) => prober[p].dev # prober[q].dev

DevicesIInv == DevicesTyped /\ AllocInv

-----------------------------------------------------------------------------

\* finalizeNaming: the range starts above the active device or leaves it out.
LEMMA RangeSparesActive ==
    ASSUME active \in Names
    PROVE  /\ FirstProbe \in Nat /\ FirstProbe >= RangeStart
           /\ active \notin FirstProbe..RangeEnd
           /\ FirstProbe..RangeEnd \subseteq RangeStart..RangeEnd
           /\ FirstProbe..RangeEnd \subseteq Names
  BY DevicesAssumption DEF FirstProbe, Names, Pool, Outside

\* A fresh service starts with nothing allocated.
LEMMA InitDevices == DevicesInit => DevicesIInv
  BY DevicesAssumption DEF DevicesInit, DevicesIInv, DevicesTyped, AllocInv, Busy, Where, Names, Pool, Outside

\* Steps that leave the allocator and its users alone.
LEMMA PoolsKept ==
    ASSUME AllocInv, UNCHANGED <<active, allocated, prober>>
    PROVE  AllocInv'
  BY DEF AllocInv, Busy, FirstProbe

LEMMA StepDevices == DevicesIInv /\ [DevicesNext]_devicesVars => DevicesIInv'
<1> SUFFICES ASSUME DevicesIInv, [DevicesNext]_devicesVars PROVE DevicesIInv'
  OBVIOUS
<1> USE DEF DevicesIInv
<1> DEFINE T == [dev : Names, by : Owners, open : BOOLEAN]
<1>1. \A d \in Names, b \in Owners, o \in BOOLEAN : Tunnel(d, b, o) \in T
  BY DEF Tunnel
<1>2. \A read \in SUBSET tunnels : HeldNames(read) \subseteq Names
  BY DEF HeldNames, DevicesTyped
<1>3. CASE ReclaimScan
  <2>1. PICK read \in SUBSET tunnels' : held' = HeldNames(read)
    BY <1>3 DEF ReclaimScan
  <2>2. read \in SUBSET tunnels
    BY <1>3, <2>1 DEF ReclaimScan
  <2>3. held' \subseteq Names
    BY <1>2, <2>1, <2>2
  <2> QED
    BY <1>3, <2>3, PoolsKept DEF ReclaimScan, DevicesTyped, pools
<1>4. CASE StaleDevices
  <2>1. listed' \subseteq Pool
    BY <1>4 DEF StaleDevices, DevicesTyped, HasPrefix, Names
  <2> QED
    BY <1>4, <2>1, PoolsKept DEF StaleDevices, DevicesTyped, host, pools
<1>5. CASE Reclaim
  BY <1>5, PoolsKept DEF Reclaim, DevicesTyped, RemoveDevice, Looked, pools
<1>6. CASE EnsureDeviceAvailable
  BY <1>6, PoolsKept DEF EnsureDeviceAvailable, DevicesTyped, scans, pools
<1>7. CASE ScanActive
  BY <1>7, <1>2, PoolsKept DEF ScanActive, DevicesTyped, Looked, host, pools
<1>8. CASE RemoveActive
  BY <1>8, PoolsKept DEF RemoveActive, DevicesTyped, RemoveDevice, Looked, pools
<1>9. CASE DialExit
  <2>1. Tunnel(active, "exit", FALSE) \in T
    BY <1>1 DEF DevicesTyped, Owners
  <2> QED
    BY <1>9, <2>1, PoolsKept DEF DialExit, DevicesTyped, scans, pools
<1>10. ASSUME NEW p \in Probers, Allocate(p) PROVE DevicesIInv'
  <2>1. PICK d \in Free : /\ allocated' = allocated \cup {d}
                          /\ prober' = [prober EXCEPT ![p] = [at |-> "given", dev |-> d]]
    BY <1>10 DEF Allocate
  <2>2. d \in FirstProbe..RangeEnd /\ d \notin allocated /\ d \in Names
    BY RangeSparesActive DEF Free, DevicesTyped
  <2>3. UNCHANGED <<active, host, service, scans>>
    BY <1>10 DEF Allocate
  <2>4. DevicesTyped'
    BY <2>1, <2>2, <2>3 DEF DevicesTyped, host, scans, Where
  <2>5. \A q \in Probers : prober'[q] = IF q = p THEN [at |-> "given", dev |-> d] ELSE prober[q]
    BY <2>1 DEF DevicesTyped
  <2>6. AllocInv'
    BY <2>1, <2>2, <2>3, <2>5 DEF AllocInv, Busy, FirstProbe
  <2> QED
    BY <2>4, <2>6
<1>11. ASSUME NEW p \in Probers, Probe(p) PROVE DevicesIInv'
  <2>1. prober' = [prober EXCEPT ![p].at = "probing"]
    BY <1>11 DEF Probe
  <2>2. prober[p].dev \in Names
    BY <1>11, RangeSparesActive DEF Probe, AllocInv, DevicesTyped, Busy
  <2>3. Tunnel(prober[p].dev, "probe", FALSE) \in T
    BY <1>1, <2>2 DEF Owners
  <2> DEFINE u == tunnels \cup {Tunnel(prober[p].dev, "probe", FALSE)}
  <2>4. DevicesTyped'
    <3>1. u \subseteq T
      BY <2>3 DEF DevicesTyped
    <3>2. tunnels' = u /\ UNCHANGED <<active, present, service, scans, allocated>>
      BY <1>11 DEF Probe
    <3> HIDE DEF u
    <3>3. prober' \in [Probers -> [at : Where, dev : Names \cup {NoDevice}]]
      BY <2>1 DEF DevicesTyped, Where
    <3> QED
      BY <3>1, <3>2, <3>3 DEF DevicesTyped, scans
  <2>5. \A q \in Probers : /\ prober'[q].dev = prober[q].dev
                           /\ q # p => prober'[q].at = prober[q].at
    BY <2>1 DEF DevicesTyped
  <2>6. AllocInv'
    BY <1>11, <2>5 DEF Probe, AllocInv, Busy, FirstProbe
  <2> QED
    BY <2>4, <2>6
<1>12. ASSUME NEW p \in Probers, Release(p) PROVE DevicesIInv'
  <2>1. /\ allocated' = allocated \ {prober[p].dev}
        /\ prober' = [prober EXCEPT ![p] = [@ EXCEPT !.at = "released"]]
        /\ UNCHANGED <<active, host, service, scans>> /\ Busy(p)
    BY <1>12 DEF Release, Busy
  <2>2. DevicesTyped'
    BY <2>1 DEF DevicesTyped, host, scans, Where
  <2>3. \A q \in Probers : /\ q # p => prober'[q] = prober[q]
                           /\ q = p => prober'[q].at = "released"
    BY <2>1 DEF DevicesTyped
  <2>4. AllocInv'
    BY <2>1, <2>3 DEF AllocInv, Busy, FirstProbe
  <2> QED
    BY <2>2, <2>4
<1>13. ASSUME NEW p \in Probers, ReleaseAgain(p) PROVE DevicesIInv'
  <2>1. /\ prober' = [prober EXCEPT ![p] = [at |-> "idle", dev |-> NoDevice]]
        /\ UNCHANGED <<active, host, service, scans, allocated>>
    BY <1>13 DEF ReleaseAgain
  <2>2. DevicesTyped'
    BY <2>1 DEF DevicesTyped, host, scans, Where
  <2>3. \A q \in Probers : /\ q # p => prober'[q] = prober[q]
                           /\ q = p => prober'[q].at = "idle"
    BY <2>1 DEF DevicesTyped
  <2>4. AllocInv'
    BY <2>1, <2>3 DEF AllocInv, Busy, FirstProbe
  <2> QED
    BY <2>2, <2>4
<1>14. CASE Open
  <2>1. PICK t \in tunnels :
          IF OpenAt(t.dev)
          THEN tunnels' = tunnels \ {t} /\ UNCHANGED present
          ELSE /\ tunnels' = (tunnels \ {t}) \cup {[t EXCEPT !.open = TRUE]}
               /\ present' = present \cup {t.dev}
    BY <1>14 DEF Open
  <2>2. t.dev \in Names /\ [t EXCEPT !.open = TRUE] \in T
    BY DEF DevicesTyped
  <2>3. tunnels' \subseteq T /\ present' \subseteq Names
    BY <2>1, <2>2 DEF DevicesTyped
  <2> QED
    BY <1>14, <2>3, PoolsKept DEF Open, DevicesTyped, scans, pools
<1>15. CASE TunnelEnds
  BY <1>15, PoolsKept DEF TunnelEnds, DevicesTyped, scans, pools
<1>16. CASE OtherStarts
  <2>1. PICK d \in Pool : tunnels' = tunnels \cup {Tunnel(d, "other", FALSE)}
    BY <1>16 DEF OtherStarts
  <2>2. Tunnel(d, "other", FALSE) \in T
    BY <1>1 DEF Names, Owners
  <2> QED
    BY <1>16, <2>1, <2>2, PoolsKept DEF OtherStarts, DevicesTyped, scans, pools
<1>17. CASE InstanceDies
  <2>1. DevicesTyped'
    BY <1>17 DEF InstanceDies, DevicesTyped, host, Where
  <2>2. AllocInv'
    BY <1>17 DEF InstanceDies, AllocInv, Busy
  <2> QED
    BY <2>1, <2>2
<1>18. CASE UNCHANGED devicesVars
  BY <1>18, PoolsKept DEF devicesVars, DevicesTyped, pools
<1> QED
  BY <1>3, <1>4, <1>5, <1>6, <1>7, <1>8, <1>9, <1>10, <1>11, <1>12, <1>13, <1>14,
     <1>15, <1>16, <1>17, <1>18 DEF DevicesNext

LEMMA DevicesInvariant == DevicesSpec => []DevicesIInv
  BY InitDevices, StepDevices, PTL DEF DevicesSpec

-----------------------------------------------------------------------------

LEMMA DevicesAreTyped == DevicesIInv => DevicesTypeOK
  BY RangeSparesActive DEF DevicesIInv, DevicesTyped, AllocInv, DevicesTypeOK, Where

\* Every variable of the device model keeps its type: what the service removes
\* is a device it may name, what the allocator gives lies in its range.
THEOREM DevicesTypeCorrect == DevicesSpec => []DevicesTypeOK
  BY DevicesAreTyped, DevicesInvariant, PTL

\* TunAllocator.Allocate and its release function: whatever number of probes
\* run, however often a release is called again, and wherever the configuration
\* puts the active device, no two probes at work have one device.
THEOREM DevicesApart == DevicesSpec => []ProbesApart
<1>1. DevicesIInv => ProbesApart
  BY RangeSparesActive DEF DevicesIInv, DevicesTyped, AllocInv, ProbesApart, Busy
<1> QED
  BY <1>1, DevicesInvariant, PTL

\* What a scan found: held names the devices of the processes it could read,
\* and the exit's device is only removed when it was none of them.
ScanInv ==
    /\ held = {t.dev : t \in atScan}
    /\ service = "remove" => HasPrefix(active) /\ active \notin held

LEMMA StepScan == DevicesIInv /\ ScanInv /\ [DevicesNext]_devicesVars => ScanInv'
<1> SUFFICES ASSUME ScanInv, [DevicesNext]_devicesVars PROVE ScanInv'
  OBVIOUS
<1>1. CASE UNCHANGED <<active, service, scans>>
  BY <1>1 DEF ScanInv, scans, HasPrefix
<1>2. CASE ReclaimScan
  BY <1>2 DEF ReclaimScan, ScanInv, HeldNames
<1>3. CASE ScanActive
  BY <1>3 DEF ScanActive, ScanInv, Looked, HeldNames, HasPrefix, host, pools
<1>4. ASSUME NEW there, there # "remove", Looked(there) PROVE ScanInv'
  BY <1>4 DEF Looked, ScanInv
<1>5. CASE service' # "remove" /\ UNCHANGED <<held, atScan>>
  BY <1>5 DEF ScanInv
<1>6. CASE InstanceDies
  BY <1>6 DEF InstanceDies, ScanInv
<1>7. CASE StaleDevices \/ EnsureDeviceAvailable \/ DialExit
  BY <1>5, <1>7 DEF StaleDevices, EnsureDeviceAvailable, DialExit, scans
<1>8. CASE Reclaim \/ RemoveActive
  BY <1>4, <1>5, <1>8 DEF Reclaim, RemoveActive
<1>9. CASE \E p \in Probers : Allocate(p) \/ Probe(p) \/ Release(p) \/ ReleaseAgain(p)
  BY <1>1, <1>9 DEF Allocate, Probe, Release, ReleaseAgain
<1>10. CASE Open \/ TunnelEnds \/ OtherStarts \/ UNCHANGED devicesVars
  BY <1>1, <1>10 DEF Open, TunnelEnds, OtherStarts, devicesVars, scans
<1> QED
  BY <1>2, <1>3, <1>6, <1>7, <1>8, <1>9, <1>10 DEF DevicesNext

LEMMA RemovesUnheld ==
    ASSUME DevicesIInv, ScanInv, [DevicesNext]_devicesVars, NEW d \in present \ present',
           service \in {"reclaim", "remove"}, tunnels' = tunnels
    PROVE  HasPrefix(d) /\ ~\E t \in atScan \cap tunnels : t.dev = d
<1>1. SUFFICES HasPrefix(d) /\ d \notin held
  BY <1>1 DEF ScanInv
<1>2. CASE Reclaim
  BY <1>2 DEF Reclaim, RemoveDevice
<1>3. CASE RemoveActive
  BY <1>3 DEF RemoveActive, RemoveDevice, ScanInv
<1>4. ~TunnelEnds \/ UNCHANGED present
  BY DEF TunnelEnds
<1>5. ~Open
  BY DEF Open
<1>6. UNCHANGED present \/ Reclaim \/ RemoveActive
  BY <1>4, <1>5 DEF DevicesNext, ReclaimScan, StaleDevices, EnsureDeviceAvailable, ScanActive,
     DialExit, Allocate, Probe, Release, ReleaseAgain, OtherStarts, InstanceDies, devicesVars, host
<1> QED
  BY <1>2, <1>3, <1>6

\* ReclaimStaleDevices and EnsureDeviceAvailable delete neither a device
\* outside our prefix nor one whose tunnel their scan read and still runs,
\* whatever opens, ends or starts between the scan and the removal.  A tunnel the
\* scan could not read, or one that started after it, is not spared.
THEOREM ReclaimSpares == DevicesSpec => RunningTunnelSpared
<1>1. DevicesInit => ScanInv
  BY DEF DevicesInit, ScanInv
<1>2. DevicesIInv /\ ScanInv /\ [DevicesNext]_devicesVars =>
        [\A d \in present \ present' :
           service \in {"reclaim", "remove"} /\ tunnels' = tunnels
           => HasPrefix(d) /\ ~\E t \in atScan \cap tunnels : t.dev = d]_devicesVars
  BY RemovesUnheld
<1>3. DevicesSpec => []ScanInv
  BY <1>1, StepScan, DevicesInvariant, PTL DEF DevicesSpec
<1> QED
  BY <1>2, <1>3, DevicesInvariant, PTL DEF DevicesSpec, RunningTunnelSpared

-----------------------------------------------------------------------------
(* The three models side by side.                                          *)

hostVars == <<part, routesVars, devicesVars, updateVars>>

LEMMA HostInvariant == Spec => [](RoutesIInv /\ DevicesIInv /\ IInv)
<1>1. Init => RoutesIInv /\ DevicesIInv /\ IInv
  BY InitRoutes, InitDevices, InitIInv DEF Init
<1>2. RoutesIInv /\ DevicesIInv /\ IInv /\ [Next]_hostVars => RoutesIInv' /\ DevicesIInv' /\ IInv'
  <2> SUFFICES ASSUME RoutesIInv, DevicesIInv, IInv, [Next]_hostVars
               PROVE  RoutesIInv' /\ DevicesIInv' /\ IInv'
    OBVIOUS
  <2>1. [RoutesNext]_routesVars
    BY DEF Next, RoutesPart, DevicesPart, UpdatePart, RoutesNext, hostVars
  <2>2. [DevicesNext]_devicesVars
    BY DEF Next, RoutesPart, DevicesPart, UpdatePart, hostVars
  <2>3. [UpdateNext]_updateVars
    BY DEF Next, RoutesPart, DevicesPart, UpdatePart, hostVars
  <2> QED
    BY <2>1, <2>2, <2>3, StepRoutes, StepDevices, StepIInv
<1> QED
  BY <1>1, <1>2, PTL DEF Spec, hostVars

\* Every variable of the three models of the host keeps its type when they run
\* side by side, whichever of them acts.
THEOREM HostTypesCorrect == Spec => []HostTypeOK
<1>1. RoutesIInv /\ DevicesIInv /\ IInv => HostTypeOK
  BY RoutesTyped, DevicesAreTyped, UpdateTyped DEF HostTypeOK
<1> QED
  BY <1>1, HostInvariant, PTL
=============================================================================
