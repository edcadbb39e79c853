-------------------------- MODULE ExitControlProofs --------------------------
(***************************************************************************)
(* ExitControl for any nodes, any number of request handlers and exit      *)
(* handlers and any number of tries: its type invariant, and that a node   *)
(* an operator has switched to is not replaced.                            *)
(***************************************************************************)
EXTENDS ExitControl, TLAPS

OpHeld == {"enable", "validate", "drop", "dial", "off", "down"}

\* A pinned node is all the policy permits, and whoever has validated a choice
\* and not yet dialled it (which takes opMu) has chosen that node.
PinInv ==
    pinned # NoNode =>
        /\ settings.nodes = {pinned}
        /\ active \in {pinned, NoNode}
        /\ \A a \in Actors : pc[a] \in {"drop", "dial"} => frame[a].target = pinned

\* Whoever activates or blames has a node to do it to.
Choosing == {"begin", "pin", "blame", "clear", "exited"} \cup Activating
TargetInv == \A a \in Actors : pc[a] \in Choosing => frame[a].target \in Nodes

IInv == TypeOK /\ PinInv /\ TargetInv

\* The records of an actor's locals.
LEMMA FreshFrame == Fresh \in Frames
  BY ControlAssumption DEF Fresh, Frames

\* Writing a local of the right type leaves a frame.
LEMMA FrameEdits ==
    ASSUME NEW f \in Frames
    PROVE  /\ \A n \in Nodes : [f EXCEPT !.target = n] \in Frames /\ [f EXCEPT !.target = n].target = n
           /\ \A s \in Policies : [f EXCEPT !.snap = s] \in Frames
           /\ \A x \in {"idle", "recheck", "unpin", "cycled"} :
                 [f EXCEPT !.after = x] \in Frames /\ [f EXCEPT !.after = x].target = f.target
           /\ \A S \in SUBSET Nodes :
                 [f EXCEPT !.excluded = S] \in Frames /\ [f EXCEPT !.excluded = S].tries = f.tries
           /\ \A i \in 0..(Tries - 1) : [f EXCEPT !.tries = i] \in Frames
           /\ [f EXCEPT !.rotating = TRUE] \in Frames
<1>1. \A n \in Nodes : [f EXCEPT !.target = n] \in Frames /\ [f EXCEPT !.target = n].target = n
  BY DEF Frames
<1>2. \A s \in Policies : [f EXCEPT !.snap = s] \in Frames
  BY DEF Frames
<1>3. \A x \in {"idle", "recheck", "unpin", "cycled"} :
         [f EXCEPT !.after = x] \in Frames /\ [f EXCEPT !.after = x].target = f.target
  BY DEF Frames
<1>4. \A S \in SUBSET Nodes :
         [f EXCEPT !.excluded = S] \in Frames /\ [f EXCEPT !.excluded = S].tries = f.tries
  BY DEF Frames
<1>5. \A i \in 0..(Tries - 1) : [f EXCEPT !.tries = i] \in Frames
  BY DEF Frames
<1>6. [f EXCEPT !.rotating = TRUE] \in Frames
  BY DEF Frames
<1> QED
  BY <1>1, <1>2, <1>3, <1>4, <1>5, <1>6

LEMMA Retargeted ==
    \A f \in Frames, n \in Nodes :
        [f EXCEPT !.target = n] \in Frames /\ [f EXCEPT !.target = n].target = n
  BY FrameEdits

\* Turning the switch leaves the permitted nodes alone; a pin permits its node.
LEMMA PolicyEdits ==
    /\ \A s \in Policies, e \in {"on", "off"} :
          [s EXCEPT !.enabled = e] \in Policies /\ [s EXCEPT !.enabled = e].nodes = s.nodes
    /\ \A n \in Nodes : FixedOn(n) \in Policies /\ FixedOn(n).nodes = {n}
    /\ \A s \in Policies : s.nodes \subseteq Nodes
  BY DEF Policies, FixedOn

\* A step moves one actor and leaves the others where they are.
LEMMA GotoEffect ==
    ASSUME NEW a \in Actors, NEW there \in Positions, NEW locals \in Frames,
           pc \in [Actors -> Positions], frame \in [Actors -> Frames],
           Goto(a, there, locals)
    PROVE  /\ pc' \in [Actors -> Positions] /\ frame' \in [Actors -> Frames]
           /\ pc'[a] = there
           /\ frame'[a] = IF there = "idle" THEN Fresh ELSE locals
           /\ \A b \in Actors \ {a} : pc'[b] = pc[b] /\ frame'[b] = frame[b]
  BY FreshFrame DEF Goto

\* The daemon as it starts satisfies the invariant.
LEMMA Start == Init => IInv
<1> SUFFICES ASSUME Init PROVE IInv
  OBVIOUS
<1>1. pc \in [Actors -> Positions] /\ frame \in [Actors -> Frames]
  BY FreshFrame DEF Init, Positions
<1>2. TypeOK
  BY <1>1, ControlAssumption DEF Init, TypeOK, Policies
<1>3. PinInv /\ TargetInv
  BY ControlAssumption DEF Init, PinInv, TargetInv, Choosing, Activating
<1> QED
  BY <1>2, <1>3 DEF IInv

\* What the invariant says of one actor's locals.
LEMMA Typed ==
    ASSUME IInv, NEW a \in Actors
    PROVE  /\ frame[a] \in Frames /\ frame[a].target \in Nodes \cup {NoNode}
           /\ frame[a].excluded \in SUBSET Nodes /\ frame[a].tries \in 0..(Tries - 1)
           /\ frame[a].after \in Positions \ (OpHeld \cup Choosing)
           /\ frame[a].snap \in Policies \cup {Unset}
  BY DEF IInv, TypeOK, Frames, Positions, OpHeld, Choosing, Activating

\* A step outside opMu that chooses nothing to dial: it may take the exit down, or
\* change the settings if it ends the pin.
LEMMA Inert ==
    ASSUME IInv, NEW a \in Actors, NEW there \in Positions \ OpHeld, NEW locals \in Frames,
           Goto(a, there, locals), pc[a] \notin OpHeld,
           there \in Choosing => locals.target \in Nodes,
           active' \in {active, NoNode}, dead' \in BOOLEAN, ready' \subseteq Nodes,
           coord' \in Actors \cup {NoActor}, outer' \in Actors \cup {NoActor}, op' = op,
           UNCHANGED <<settings, pinned>> \/ (settings' \in Policies /\ pinned' = NoNode),
           wish' \in {"on", "off"}
    PROVE  IInv'
<1>1. /\ pc' \in [Actors -> Positions] /\ frame' \in [Actors -> Frames] /\ pc'[a] = there
      /\ there # "idle" => frame'[a] = locals
      /\ \A b \in Actors \ {a} : pc'[b] = pc[b] /\ frame'[b] = frame[b]
  BY GotoEffect DEF IInv, TypeOK
<1>2. TypeOK'
  BY <1>1 DEF IInv, TypeOK, OpHeld
<1>3. PinInv'
  BY <1>1 DEF IInv, PinInv, OpHeld
<1>4. TargetInv'
  BY <1>1 DEF IInv, TargetInv, Choosing, Activating
<1> QED
  BY <1>2, <1>3, <1>4 DEF IInv

\* An activation's result leads out of opMu, to its caller or to another choice.
LEMMA ResultEffect ==
    ASSUME IInv, NEW a \in Actors, frame[a].target \in Nodes, NEW r, Result(a, r)
    PROVE  \E there \in Positions \ (OpHeld \cup Choosing), locals \in Frames : Goto(a, there, locals)
<1> DEFINE f == frame[a]
           next == [f EXCEPT !.excluded = @ \cup {f.target}, !.tries = @ + 1]
<1>1. CASE Move(a, f.after)
  BY <1>1, Typed DEF Move
<1>2. CASE Goto(a, "select", next) /\ next.tries < Tries
  <2>1. next \in Frames
    <3> DEFINE S == f.excluded \cup {f.target}
               i == f.tries + 1
               g == [f EXCEPT !.excluded = S]
    <3>1. f \in Frames /\ S \in SUBSET Nodes /\ f.tries \in Nat
      BY Typed
    <3>2. g \in Frames /\ g.tries = f.tries
      <4> HIDE DEF f, S
      <4> QED
        BY <3>1, FrameEdits
    <3>3. next = [g EXCEPT !.tries = i]
      OBVIOUS
    <3>4. next.tries = i
      BY <3>1 DEF Frames
    <3>5. i \in 0..(Tries - 1)
      BY <1>2, <3>1, <3>4, ControlAssumption
    <3> HIDE DEF g, i, next
    <3> QED
      BY <3>2, <3>3, <3>5, FrameEdits
  <2> QED
    BY <1>2, <2>1 DEF Positions, OpHeld, Choosing, Activating
<1> QED
  BY <1>1, <1>2 DEF Result

USE DEF At, exit, locks, asked

\* The steps of a rotation keep the invariant.
LEMMA RotationKeeps ==
    ASSUME IInv, NEW a \in Actors, Rotate(a) \/ ExcludeActive(a) \/ Select(a) \/ GiveUp(a)
    PROVE  IInv'
<1> USE DEF OpHeld, Choosing, Activating, Positions
<1>0. /\ settings \in Policies /\ settings.nodes \subseteq Nodes
      /\ active \in Nodes \cup {NoNode} /\ dead \in BOOLEAN /\ ready \subseteq Nodes
      /\ coord \in Actors \cup {NoActor} /\ outer \in Actors \cup {NoActor}
      /\ wish \in {"on", "off"}
  BY PolicyEdits DEF IInv, TypeOK
<1>1. CASE Rotate(a)
  <2>1. \E there \in Positions \ OpHeld, locals \in Frames :
            Goto(a, there, locals) /\ (there \in Choosing => locals.target \in Nodes)
    <3>1. CASE \E n \in settings.nodes : Goto(a, "begin", [frame[a] EXCEPT !.target = n])
      <4> PICK n \in settings.nodes : Goto(a, "begin", [frame[a] EXCEPT !.target = n])
        BY <3>1
      <4>1. [frame[a] EXCEPT !.target = n] \in Frames /\ [frame[a] EXCEPT !.target = n].target = n
        <5>1. frame[a] \in Frames /\ n \in Nodes
          BY <1>0, Typed
        <5> QED
          BY ONLY <5>1, Retargeted
      <4> QED
        BY <1>0, <4>1
    <3>2. CASE Move(a, frame[a].after) \/ Move(a, "exclude")
      BY <3>2, Typed DEF Move
    <3> QED
      BY <1>1, <3>1, <3>2 DEF Rotate
  <2> QED
    BY <1>0, <1>1, <2>1, Inert DEF Rotate
<1>2. CASE ExcludeActive(a)
  <2> DEFINE S == frame[a].excluded \cup ({active} \ {NoNode})
             f == [frame[a] EXCEPT !.excluded = S]
             g == [f EXCEPT !.tries = 0]
             h == [g EXCEPT !.rotating = TRUE]
  <2>1. h \in Frames
    <3>1. S \in SUBSET Nodes /\ frame[a] \in Frames
      BY <1>0, Typed
    <3>2. f \in Frames
      BY <3>1, FrameEdits
    <3>3. 0 \in 0..(Tries - 1)
      BY ControlAssumption
    <3>4. g \in Frames
      BY <3>2, <3>3, FrameEdits
    <3> HIDE DEF g, f
    <3> QED
      BY <3>4, FrameEdits
  <2>2. Goto(a, "select", h)
    BY <1>2 DEF ExcludeActive
  <2> HIDE DEF h
  <2> QED
    BY <1>0, <1>2, <2>1, <2>2, Inert DEF ExcludeActive
<1>3. CASE Select(a)
  <2>1. \E there \in Positions \ OpHeld, locals \in Frames :
            Goto(a, there, locals) /\ (there \in Choosing => locals.target \in Nodes)
    <3>1. CASE \E n \in Nodes : Goto(a, "begin", [frame[a] EXCEPT !.target = n])
      <4> PICK n \in Nodes : Goto(a, "begin", [frame[a] EXCEPT !.target = n])
        BY <3>1
      <4>1. [frame[a] EXCEPT !.target = n] \in Frames /\ [frame[a] EXCEPT !.target = n].target = n
        <5>1. frame[a] \in Frames
          BY Typed
        <5> QED
          BY ONLY <5>1, Retargeted, n \in Nodes
      <4> QED
        BY <4>1
    <3>2. CASE Move(a, "giveup")
      BY <3>2, Typed DEF Move
    <3> QED
      BY <1>0, <1>3, <3>1, <3>2 DEF Select
  <2> QED
    BY <1>0, <1>3, <2>1, Inert DEF Select
<1>4. CASE GiveUp(a)
  BY <1>0, <1>4, Typed, Inert DEF GiveUp, Teardown, Move
<1> QED
  BY <1>1, <1>2, <1>3, <1>4

\* Before the tear-down only the validated choice counts.
LEMMA ActivationKeeps ==
    ASSUME IInv, NEW a \in Actors, Activate(a) PROVE IInv'
<1> USE DEF OpHeld, Choosing, Activating, Positions
<1>0. /\ settings \in Policies /\ settings.nodes \subseteq Nodes
      /\ active \in Nodes \cup {NoNode} /\ dead \in BOOLEAN /\ ready \subseteq Nodes
      /\ coord \in Actors \cup {NoActor} /\ outer \in Actors \cup {NoActor}
      /\ wish \in {"on", "off"} /\ pc \in [Actors -> Positions] /\ frame \in [Actors -> Frames]
      /\ \A b \in Actors : frame[b] \in Frames
  BY PolicyEdits DEF IInv, TypeOK
<1>1. CASE Begin(a)
  <2>1. frame[a].target \in Nodes
    BY <1>1 DEF Begin, IInv, TargetInv
  <2>2. CASE coord' = a /\ Move(a, "lock")
    BY <1>0, <1>1, <2>1, <2>2, Inert DEF Begin, Move
  <2>3. CASE UNCHANGED coord /\ Result(a, "conflict")
    BY <1>0, <1>1, <2>1, <2>3, ResultEffect, Inert DEF Begin
  <2> QED
    BY <1>1, <2>2, <2>3 DEF Begin
<1>2. CASE LockOp(a, "lock", "enable")
  <2>1. /\ pc' \in [Actors -> Positions] /\ frame' \in [Actors -> Frames]
        /\ pc'[a] = "enable" /\ frame'[a] = frame[a]
        /\ \A b \in Actors \ {a} : pc'[b] = pc[b] /\ frame'[b] = frame[b]
    BY <1>0, <1>2, GotoEffect DEF LockOp, Move
  <2> QED
    BY <1>2, <2>1, ControlAssumption DEF LockOp, IInv, TypeOK, PinInv, TargetInv
<1>3. CASE Enable(a)
  <2>1. /\ pc' \in [Actors -> Positions] /\ frame' \in [Actors -> Frames]
        /\ pc'[a] = "validate" /\ frame'[a] = frame[a]
        /\ \A b \in Actors \ {a} : pc'[b] = pc[b] /\ frame'[b] = frame[b]
    BY <1>0, <1>3, GotoEffect DEF Enable, Move
  <2>2. settings' \in Policies /\ settings'.nodes = settings.nodes
    BY <1>0, <1>3, PolicyEdits DEF Enable
  <2> QED
    BY <1>3, <2>1, <2>2 DEF Enable, IInv, TypeOK, PinInv, TargetInv
<1>4. CASE FailLocally(a) \/ DialUp(a) \/ DialRefused(a)
  <2>1. frame[a].target \in Nodes /\ op = a
    BY <1>4 DEF FailLocally, DialUp, DialRefused, IInv, TypeOK, TargetInv
  <2>2. PICK there \in Positions \ (OpHeld \cup Choosing), locals \in Frames : Goto(a, there, locals)
    BY <1>4, <2>1, ResultEffect DEF FailLocally, DialUp, DialRefused, End
  <2>3. /\ pc' \in [Actors -> Positions] /\ frame' \in [Actors -> Frames] /\ pc'[a] = there
        /\ \A b \in Actors \ {a} : pc'[b] = pc[b] /\ frame'[b] = frame[b]
    BY <1>0, <2>2, GotoEffect
  <2>4. /\ UNCHANGED <<settings, outer, wish, pinned>> /\ op' = NoActor /\ coord' = outer
        /\ ready' \subseteq ready /\ dead' = dead
        /\ active' = active \/ (pc[a] = "dial" /\ active' = frame[a].target)
    BY <1>4 DEF FailLocally, DialUp, DialRefused, End
  <2>5. TypeOK'
    BY <1>0, <2>1, <2>3, <2>4, ControlAssumption DEF IInv, TypeOK
  <2>6. PinInv' /\ TargetInv'
    BY <2>3, <2>4 DEF IInv, PinInv, TargetInv
  <2> QED
    BY <2>5, <2>6 DEF IInv
<1>5. CASE Validate(a)
  <2>1. /\ pc' \in [Actors -> Positions] /\ frame' \in [Actors -> Frames]
        /\ pc'[a] = "drop" /\ frame'[a] = frame[a]
        /\ \A b \in Actors \ {a} : pc'[b] = pc[b] /\ frame'[b] = frame[b]
    BY <1>0, <1>5, GotoEffect DEF Validate, Move
  <2> QED
    BY <1>5, <2>1 DEF Validate, Permitted, IInv, TypeOK, PinInv, TargetInv
<1>6. CASE Drop(a)
  <2>1. /\ pc' \in [Actors -> Positions] /\ frame' \in [Actors -> Frames]
        /\ pc'[a] = "dial" /\ frame'[a] = frame[a]
        /\ \A b \in Actors \ {a} : pc'[b] = pc[b] /\ frame'[b] = frame[b]
    BY <1>0, <1>6, GotoEffect DEF Drop, Move
  <2>2. op = a /\ frame[a].target \in Nodes
    BY <1>6 DEF Drop, IInv, TypeOK, TargetInv
  <2>3. \A b \in Actors \ {a} : pc[b] \notin {"drop", "dial"}
    BY <2>2 DEF IInv, TypeOK
  <2>4. (pinned' = frame[a].target /\ settings.nodes = {frame[a].target}) \/ pinned' = pinned
    BY <1>6, <2>2, PolicyEdits DEF Drop
  <2>5. TypeOK'
    BY <1>6, <2>1, <2>2, <2>4 DEF Drop, IInv, TypeOK
  <2>6. PinInv'
    BY <1>6, <2>1, <2>3, <2>4 DEF Drop, IInv, PinInv
  <2>7. TargetInv'
    BY <2>1, <2>2 DEF IInv, TargetInv
  <2> QED
    BY <2>5, <2>6, <2>7 DEF IInv
<1> QED
  BY <1>1, <1>2, <1>3, <1>4, <1>5, <1>6 DEF Activate

\* What operators ask for ends the pin or leaves the settings alone.
LEMMA OperatorKeeps ==
    ASSUME IInv, NEW a \in Actors,
           \/ Ask(a)
           \/ LockOp(a, "dlock", "off") \/ SwitchOff(a) \/ TakeDown(a)
           \/ Reread(a) \/ UpdateDown(a) \/ Enforce(a) \/ EnforceDown(a) \/ Pin(a)
    PROVE  IInv'
<1> USE DEF OpHeld, Choosing, Activating, Positions
<1>0. /\ settings \in Policies /\ settings.nodes \subseteq Nodes
      /\ active \in Nodes \cup {NoNode} /\ dead \in BOOLEAN /\ ready \subseteq Nodes
      /\ coord \in Actors \cup {NoActor} /\ outer \in Actors \cup {NoActor}
      /\ wish \in {"on", "off"} /\ pc \in [Actors -> Positions] /\ frame \in [Actors -> Frames]
      /\ frame[a] \in Frames /\ Fresh \in Frames
  BY PolicyEdits, FreshFrame DEF IInv, TypeOK
<1>1. CASE CallDisconnect(a) \/ CallRotate(a)
  BY <1>0, <1>1, Inert DEF CallDisconnect, CallRotate, Move
<1>2. CASE \E s \in Policies : CallUpdate(a, s)
  <2> PICK s \in Policies : CallUpdate(a, s)
    BY <1>2
  <2>1. s.enabled \in {"on", "off"}
    BY DEF Policies
  <2> QED
    BY <1>0, <2>1, Inert DEF CallUpdate, Move
<1>3. CASE \E n \in Nodes : CallSwitchNode(a, n)
  <2> PICK n \in Nodes : CallSwitchNode(a, n)
    BY <1>3
  <2> DEFINE f == [Fresh EXCEPT !.target = n]
             g == [f EXCEPT !.after = "unpin"]
  <2>1. f \in Frames /\ f.target = n
    BY <1>0, FrameEdits
  <2> HIDE DEF f
  <2>2. g \in Frames /\ g.target = n
    BY <2>1, FrameEdits
  <2> USE DEF f
  <2>3. Goto(a, "pin", g)
    BY DEF CallSwitchNode
  <2> HIDE DEF g
  <2> QED
    BY <1>0, <2>2, <2>3, Inert DEF CallSwitchNode
<1>4. CASE LockOp(a, "dlock", "off") \/ SwitchOff(a) \/ TakeDown(a)
  <2>1. PICK there \in {"off", "down", "idle"} : Move(a, there) /\ (there = "idle" <=> pc[a] = "down")
    BY <1>4 DEF LockOp, SwitchOff, TakeDown
  <2>2. /\ pc' \in [Actors -> Positions] /\ frame' \in [Actors -> Frames] /\ pc'[a] = there
        /\ \A b \in Actors \ {a} : pc'[b] = pc[b] /\ frame'[b] = frame[b]
    BY <1>0, <2>1, GotoEffect DEF Move
  <2>3. settings' \in Policies /\ settings'.nodes = settings.nodes
    BY <1>0, <1>4, PolicyEdits DEF LockOp, SwitchOff, TakeDown
  <2>4. \A b \in Actors : op' = b <=> pc'[b] \in OpHeld
    BY <1>4, <2>1, <2>2, ControlAssumption DEF LockOp, SwitchOff, TakeDown, IInv, TypeOK
  <2>5. /\ active' \in {active, NoNode} /\ dead' \in BOOLEAN /\ op' \in Actors \cup {NoActor}
        /\ UNCHANGED <<ready, coord, outer>> /\ wish' \in {"on", "off"}
        /\ pinned' \in {pinned, NoNode}
    BY <1>0, <1>4 DEF LockOp, SwitchOff, TakeDown, IInv, TypeOK
  <2>6. TypeOK'
    BY <2>2, <2>3, <2>4, <2>5 DEF IInv, TypeOK
  <2>7. PinInv' /\ TargetInv'
    BY <2>2, <2>3, <2>5 DEF IInv, PinInv, TargetInv
  <2> QED
    BY <2>6, <2>7 DEF IInv
<1>5. CASE Reread(a)
  <2>1. CASE Goto(a, IF settings.enabled = "off" THEN "udown" ELSE "enforce", [frame[a] EXCEPT !.snap = settings])
    BY <1>0, <1>5, <2>1, FrameEdits, Inert DEF Reread
  <2>2. CASE Move(a, "idle")
    BY <1>0, <1>5, <2>2, Inert DEF Reread, Move
  <2> QED
    BY <1>5, <2>1, <2>2 DEF Reread
<1>6. CASE UpdateDown(a) \/ Enforce(a)
  BY <1>0, <1>6, Inert DEF UpdateDown, Enforce, Teardown, Move
<1>7. CASE EnforceDown(a)
  BY <1>0, <1>7, FrameEdits, Inert DEF EnforceDown, Teardown, Move
<1>8. CASE Pin(a)
  <2>1. frame[a].target \in Nodes
    BY <1>8 DEF Pin, IInv, TargetInv
  <2> QED
    BY <1>0, <1>8, <2>1, PolicyEdits, Inert DEF Pin, Move
<1> QED
  BY <1>1, <1>2, <1>3, <1>4, <1>5, <1>6, <1>7, <1>8 DEF Ask

\* Neither the monitors nor the exit handlers change the settings.
LEMMA AutomaticKeeps ==
    ASSUME IInv,
           \/ \E a \in Actors : \/ Reconnect(a, "recheck", "idle") \/ Reconnect(a, "probed", "cycled")
                               \/ Release(a, "unpin") \/ Release(a, "cycled")
           \/ HealthTick \/ HealthBlame \/ MaintBegin
           \/ \E h \in Handlers : TunnelDies(h) \/ ClearExited(h) \/ HandleUnexpectedExit(h)
           \/ \E n \in Nodes : Probed(n)
    PROVE  IInv'
<1> USE DEF OpHeld, Choosing, Activating, Positions
<1>0. /\ settings \in Policies /\ settings.nodes \subseteq Nodes
      /\ active \in Nodes \cup {NoNode} /\ dead \in BOOLEAN /\ ready \subseteq Nodes
      /\ coord \in Actors \cup {NoActor} /\ outer \in Actors \cup {NoActor}
      /\ wish \in {"on", "off"} /\ pc \in [Actors -> Positions] /\ frame \in [Actors -> Frames]
      /\ Fresh \in Frames /\ Health \in Actors /\ Maint \in Actors /\ Handlers \subseteq Actors
      /\ \A b \in Actors : frame[b] \in Frames
  BY PolicyEdits, FreshFrame DEF IInv, TypeOK, Actors
<1>1. ASSUME NEW a \in Actors, NEW from \in {"recheck", "probed"}, NEW after \in {"idle", "cycled"},
             Reconnect(a, from, after)
      PROVE  IInv'
  <2> DEFINE f == [Fresh EXCEPT !.after = after]
  <2>1. f \in Frames
    BY <1>0, FrameEdits
  <2>2. frame[a].snap \in Policies \cup {Unset}
    BY <1>0 DEF Frames
  <2>3. frame[a].snap.nodes \subseteq Nodes
    BY <2>2, PolicyEdits DEF Unset
  <2>4. \E there \in Positions \ OpHeld, locals \in Frames :
            Goto(a, there, locals) /\ (there \in Choosing => locals.target \in Nodes)
    <3>1. CASE \E n \in frame[a].snap.nodes : Goto(a, "begin", [f EXCEPT !.target = n])
      <4> PICK n \in frame[a].snap.nodes : Goto(a, "begin", [f EXCEPT !.target = n])
        BY <3>1
      <4> HIDE DEF f
      <4>1. [f EXCEPT !.target = n] \in Frames /\ [f EXCEPT !.target = n].target = n
        BY <2>1, <2>3, FrameEdits
      <4> QED
        BY <2>3, <4>1
    <3>2. CASE Move(a, after) \/ Goto(a, "rotate", f)
      BY <1>0, <2>1, <3>2 DEF Move
    <3> QED
      BY <1>1, <3>1, <3>2 DEF Reconnect
  <2> QED
    BY <1>0, <1>1, <2>4, Inert DEF Reconnect
<1>2. ASSUME NEW a \in Actors, Release(a, "unpin") \/ Release(a, "cycled") PROVE IInv'
  BY <1>0, <1>2, Inert DEF Release, Move
<1>3. CASE HealthTick
  <2>1. CASE active = NoNode
    BY <1>0, <1>3, <2>1, Inert DEF HealthTick, Move
  <2>2. CASE active # NoNode
    BY <1>0, <1>3, <2>2, FrameEdits, Inert DEF HealthTick
  <2> QED
    BY <2>1, <2>2
<1>4. CASE HealthBlame
  <2>1. frame[Health].target \in Nodes
    BY <1>0, <1>4 DEF HealthBlame, IInv, TargetInv
  <2> QED
    BY <1>0, <1>4, <2>1, Inert DEF HealthBlame, Move
<1>5. CASE MaintBegin
  BY <1>0, <1>5, FrameEdits, Inert DEF MaintBegin
<1>6. ASSUME NEW h \in Handlers, TunnelDies(h) PROVE IInv'
  BY <1>0, <1>6, FrameEdits, Inert DEF TunnelDies
<1>7. ASSUME NEW h \in Handlers, ClearExited(h) PROVE IInv'
  <2>1. frame[h].target \in Nodes
    BY <1>0, <1>7 DEF ClearExited, IInv, TargetInv
  <2> QED
    BY <1>0, <1>7, <2>1, Inert DEF ClearExited, Move
<1>8. ASSUME NEW h \in Handlers, HandleUnexpectedExit(h) PROVE IInv'
  <2>1. frame[h].target \in Nodes
    BY <1>0, <1>8 DEF HandleUnexpectedExit, IInv, TargetInv
  <2> QED
    BY <1>0, <1>8, <2>1, FrameEdits, Inert DEF HandleUnexpectedExit, Move
<1>9. ASSUME NEW n \in Nodes, Probed(n) PROVE IInv'
  BY <1>9 DEF Probed, IInv, TypeOK, PinInv, TargetInv
<1> QED
  BY <1>1, <1>2, <1>3, <1>4, <1>5, <1>6, <1>7, <1>8, <1>9

\* Every step of the specification keeps the invariant.
LEMMA NextKeeps == IInv /\ [Next]_vars => IInv'
<1> SUFFICES ASSUME IInv, [Next]_vars PROVE IInv'
  OBVIOUS
<1>1. CASE \E a \in Actors : Step(a)
  BY <1>1, RotationKeeps, ActivationKeeps, OperatorKeeps, AutomaticKeeps DEF Step
<1>2. CASE \E a \in Operators : Ask(a)
  BY <1>2, OperatorKeeps DEF Actors
<1>3. CASE \/ HealthTick \/ HealthBlame \/ MaintBegin
           \/ \E h \in Handlers : TunnelDies(h) \/ ClearExited(h) \/ HandleUnexpectedExit(h)
           \/ \E n \in Nodes : Probed(n)
  BY <1>3, AutomaticKeeps
<1>4. CASE UNCHANGED vars
  BY <1>4 DEF vars, IInv, TypeOK, PinInv, TargetInv
<1> QED
  BY <1>1, <1>2, <1>3, <1>4 DEF Next

\* Hence it always holds.
LEMMA Invariance == Spec => []IInv
  BY Start, NextKeeps, PTL DEF Spec

\* Every variable keeps its type, and opMu is held exactly by the activation past
\* its lock or the Disconnect, however many requests and handlers there are.
THEOREM TypeCorrect == Spec => []TypeOK
  BY Invariance, PTL DEF IInv

\* However many operators, exit handlers and monitors act at once, and however
\* long ago they chose, none of them replaces a node that an operator has
\* switched to before some operator asks for something else.
THEOREM PinHolds == Spec => []PinKept
<1>1. IInv => PinKept
  BY DEF IInv, PinInv, PinKept
<1> QED
  BY <1>1, Invariance, PTL

-----------------------------------------------------------------------------
(* What its callers take the gateway for is ExitGateway.                   *)

\* While a node is dialled there is no exit, alive or dead.
DialInv == \A a \in Actors : pc[a] = "dial" => active = NoNode /\ ~dead

\* A step of an actor moves nobody else.
LEMMA OthersStay ==
    ASSUME IInv, NEW a \in Actors, NEW there, NEW locals, Goto(a, there, locals)
    PROVE  /\ pc'[a] = there
           /\ there # "idle" => frame'[a] = locals
           /\ \A b \in Actors \ {a} : pc'[b] = pc[b] /\ frame'[b] = frame[b]
  BY DEF Goto, IInv, TypeOK

\* What the steps outside opMu do: they take the exit down when nobody dials, find
\* it dead, or leave it.
Aside(a) ==
    /\ pc[a] \notin OpHeld /\ op' = op
    /\ \E there \in Positions \ OpHeld : \E locals : Goto(a, there, locals)
    /\ \/ UNCHANGED exit
       \/ /\ UNCHANGED settings /\ \A b \in Actors : pc[b] # "dial"
          /\ active' = NoNode /\ dead' = FALSE
       \/ UNCHANGED <<settings, active>> /\ active # NoNode /\ ~dead /\ dead' = TRUE

Refined == Contract!Next \/ UNCHANGED Contract!vars

LEMMA AsideRefines ==
    ASSUME IInv, IInv', NEW a \in Actors, Aside(a)
    PROVE  Refined
<1> PICK there \in Positions \ OpHeld : \E locals : Goto(a, there, locals)
  BY DEF Aside
<1> PICK locals : Goto(a, there, locals)
  OBVIOUS
<1>1. op' = op /\ op # a /\ (op = NoActor \/ op \in Actors \ {a})
  BY DEF Aside, IInv, TypeOK, OpHeld
<1>2. \A b \in Actors \ {a} : pc'[b] = pc[b] /\ frame'[b] = frame[b]
  BY OthersStay
<1>3. OpPhase' = OpPhase /\ OpTarget' = OpTarget
  BY <1>1, <1>2 DEF OpPhase, OpTarget
<1>4. CASE UNCHANGED exit
  <2>1. settings'.enabled \in {"on", "off"} /\ Carrying' = Carrying
    BY <1>4 DEF IInv, TypeOK, Policies, Carrying
  <2> QED
    BY <1>1, <1>3, <1>4, <2>1 DEF Refined, Contract!Next, Contract!SetSwitch, Contract!Still
<1>5. CASE UNCHANGED settings /\ (\A b \in Actors : pc[b] # "dial") /\ active' = NoNode /\ dead' = FALSE
  <2>1. OpPhase # "dialling" /\ Carrying' = Carrying \cap {NoNode}
    BY <1>1, <1>5 DEF OpPhase, Carrying
  <2> QED
    BY <1>1, <1>3, <1>5, <2>1
    DEF Refined, Contract!Next, Contract!TearDown, Contract!Down, Contract!Still
<1>6. CASE UNCHANGED <<settings, active>> /\ active # NoNode /\ ~dead /\ dead' = TRUE
  <2>1. Carrying' = {}
    BY <1>6 DEF Carrying
  <2> QED
    BY <1>1, <1>3, <1>6, <2>1 DEF Refined, Contract!Next, Contract!TunnelDies, Contract!Still
<1> QED
  BY <1>4, <1>5, <1>6 DEF Aside

LEMMA AsideKeepsDial ==
    ASSUME IInv, DialInv, NEW a \in Actors, Aside(a)
    PROVE  DialInv'
<1> PICK there \in Positions \ OpHeld : \E locals : Goto(a, there, locals)
  BY DEF Aside
<1> PICK locals : Goto(a, there, locals)
  OBVIOUS
<1>1. pc'[a] # "dial" /\ \A b \in Actors \ {a} : pc'[b] = pc[b]
  BY OthersStay DEF OpHeld
<1> QED
  BY <1>1 DEF Aside, DialInv

\* The steps of a rotation and of the callers are outside opMu.
LEMMA RotationAside ==
    ASSUME IInv, NEW a \in Actors, Rotate(a) \/ ExcludeActive(a) \/ Select(a) \/ GiveUp(a)
    PROVE  Aside(a)
<1> USE DEF Aside, OpHeld, Positions, Activating
<1>1. frame[a].after \in Positions \ OpHeld
  BY Typed
<1>2. CASE Rotate(a)
  BY <1>1, <1>2 DEF Rotate, Move
<1>3. CASE ExcludeActive(a)
  BY <1>3 DEF ExcludeActive
<1>4. CASE Select(a)
  BY <1>4 DEF Select, Move
<1>5. CASE GiveUp(a)
  BY <1>1, <1>5 DEF GiveUp, Teardown, Move
<1> QED
  BY <1>2, <1>3, <1>4, <1>5

LEMMA CallersAside ==
    ASSUME IInv, NEW a \in Actors,
           \/ Begin(a)
           \/ Reread(a) \/ UpdateDown(a) \/ Enforce(a) \/ EnforceDown(a)
           \/ Reconnect(a, "recheck", "idle") \/ Reconnect(a, "probed", "cycled")
           \/ Pin(a) \/ Release(a, "unpin") \/ Release(a, "cycled")
           \/ Ask(a)
    PROVE  Aside(a)
<1> USE DEF Aside, OpHeld, Positions, Activating
<1>1. CASE Reread(a) \/ UpdateDown(a)
  BY <1>1 DEF Reread, UpdateDown, Teardown, Move
<1>2. CASE Enforce(a) \/ EnforceDown(a)
  BY <1>2 DEF Enforce, EnforceDown, Teardown, Move
<1>3. CASE Reconnect(a, "recheck", "idle") \/ Reconnect(a, "probed", "cycled")
  BY <1>3 DEF Reconnect, Move
<1>4. CASE Pin(a) \/ Release(a, "unpin") \/ Release(a, "cycled")
  BY <1>4 DEF Pin, Release, Move
<1>5. CASE Ask(a)
  BY <1>5 DEF Ask, CallDisconnect, CallRotate, CallUpdate, CallSwitchNode, Move
<1>6. CASE Begin(a)
  <2>1. CASE Result(a, "conflict")
    <3>1. frame[a].target \in Nodes
      BY <1>6 DEF Begin, IInv, TargetInv, Choosing
    <3>2. \E there \in Positions \ (OpHeld \cup Choosing), locals \in Frames : Goto(a, there, locals)
      BY <2>1, <3>1, ResultEffect
    <3> QED
      BY <1>6, <3>2 DEF Begin
  <2>2. CASE Move(a, "lock")
    BY <1>6, <2>2 DEF Begin, Move
  <2> QED
    BY <1>6, <2>1, <2>2 DEF Begin
<1> QED
  BY <1>1, <1>2, <1>3, <1>4, <1>5, <1>6

\* So are those of the monitors and the exit handlers.
LEMMA AutomaticAside ==
    /\ IInv /\ (HealthTick \/ HealthBlame) => Aside(Health)
    /\ IInv /\ MaintBegin => Aside(Maint)
    /\ \A h \in Handlers :
          IInv /\ (TunnelDies(h) \/ ClearExited(h) \/ HandleUnexpectedExit(h)) => Aside(h)
<1> USE DEF Aside, OpHeld, Positions, Activating
<1>1. IInv /\ (HealthTick \/ HealthBlame) => Aside(Health)
  BY DEF HealthTick, HealthBlame, Move
<1>2. IInv /\ MaintBegin => Aside(Maint)
  BY DEF MaintBegin
<1>3. ASSUME NEW h \in Handlers, IInv, TunnelDies(h) \/ HandleUnexpectedExit(h) PROVE Aside(h)
  BY <1>3 DEF TunnelDies, HandleUnexpectedExit, Move
<1>4. ASSUME NEW h \in Handlers, IInv, ClearExited(h) PROVE Aside(h)
  <2>1. pc[h] = "clear" /\ Move(h, "exited") /\ op' = op /\ UNCHANGED settings
        /\ (\A b \in Actors : pc[b] # "dial") /\ dead \in BOOLEAN
        /\ active' = (IF dead THEN NoNode ELSE active) /\ dead' = FALSE
    BY <1>4 DEF ClearExited, IInv, TypeOK
  <2> QED
    BY <2>1 DEF Move
<1> QED
  BY <1>1, <1>2, <1>3, <1>4

HolderStep(a) ==
    \/ LockOp(a, "lock", "enable") \/ Enable(a) \/ FailLocally(a) \/ Validate(a)
    \/ Drop(a) \/ DialUp(a) \/ DialRefused(a)
    \/ LockOp(a, "dlock", "off") \/ SwitchOff(a) \/ TakeDown(a)

\* An activation that ends leaves opMu behind.
LEMMA Ended ==
    ASSUME IInv, NEW a \in Actors, NEW r, End(a, r), pc[a] \in OpHeld \cap Activating
    PROVE  op = a /\ op' = NoActor /\ OpPhase' = "free" /\ OpTarget' = NoNode
           /\ pc'[a] # "dial" /\ \A b \in Actors \ {a} : pc'[b] = pc[b]
<1>1. frame[a].target \in Nodes /\ op = a
  BY DEF IInv, TypeOK, TargetInv, Choosing, OpHeld, Activating
<1>2. PICK there \in Positions \ (OpHeld \cup Choosing), locals \in Frames : Goto(a, there, locals)
  BY <1>1, ResultEffect DEF End
<1>3. pc'[a] # "dial" /\ \A b \in Actors \ {a} : pc'[b] = pc[b]
  BY <1>2, OthersStay DEF OpHeld
<1> QED
  BY <1>1, <1>3 DEF End, OpPhase, OpTarget

LEMMA HolderKeepsDial ==
    ASSUME IInv, DialInv, NEW a \in Actors, HolderStep(a) PROVE DialInv'
<1>1. \A b \in Actors : pc[a] \in OpHeld /\ b # a => pc[b] # "dial"
  BY DEF IInv, TypeOK, OpHeld
<1>2. CASE LockOp(a, "lock", "enable") \/ LockOp(a, "dlock", "off") \/ Enable(a) \/ Validate(a) \/ SwitchOff(a)
  <2>1. PICK there \in Positions \ {"dial"} : Move(a, there)
    BY <1>2 DEF LockOp, Enable, Validate, SwitchOff, Positions, Activating
  <2>2. pc'[a] # "dial" /\ \A b \in Actors \ {a} : pc'[b] = pc[b]
    BY <2>1, OthersStay DEF Move
  <2> QED
    BY <1>2, <2>2 DEF LockOp, Enable, Validate, SwitchOff, DialInv
<1>3. CASE Drop(a) \/ TakeDown(a)
  BY <1>3 DEF Drop, TakeDown, DialInv
<1>4. CASE FailLocally(a) \/ DialUp(a) \/ DialRefused(a)
  <2>1. pc[a] \in OpHeld \cap Activating /\ \E r : End(a, r)
    BY <1>4 DEF FailLocally, DialUp, DialRefused, OpHeld, Activating
  <2>2. pc'[a] # "dial" /\ \A b \in Actors \ {a} : pc'[b] = pc[b]
    BY <2>1, Ended
  <2> QED
    BY <1>1, <2>1, <2>2 DEF DialInv
<1> QED
  BY <1>2, <1>3, <1>4 DEF HolderStep

\* The holder of opMu: its lock enters, Validate checks, Drop begins the dial, DialUp
\* brings the exit up and returns, TakeDown ends a Disconnect.
LEMMA HolderRefines ==
    ASSUME IInv, IInv', DialInv, NEW a \in Actors, HolderStep(a) PROVE Refined
<1>0. (pc[a] \in OpHeld => op = a) /\ a # NoActor
  BY ControlAssumption DEF IInv, TypeOK, OpHeld
<1>1. CASE LockOp(a, "lock", "enable")
  <2>1. op = NoActor /\ op' = a /\ pc'[a] = "enable" /\ frame'[a].target \in Nodes
        /\ UNCHANGED <<settings, active, dead>>
    BY <1>1, OthersStay DEF LockOp, Move, IInv, TargetInv, Choosing, Activating
  <2>2. OpPhase = "free" /\ OpPhase' = "entered" /\ OpTarget' = frame'[a].target
    BY <1>0, <2>1 DEF OpPhase, OpTarget
  <2> QED
    BY <2>1, <2>2 DEF Refined, Contract!Next, Contract!Enter, Carrying
<1>2. CASE LockOp(a, "dlock", "off")
  <2>1. op = NoActor /\ op' = a /\ pc'[a] = "off" /\ UNCHANGED <<settings, active, dead>>
    BY <1>2, OthersStay DEF LockOp, Move
  <2>2. OpPhase = "free" /\ OpPhase' = "disconnecting" /\ OpTarget' = NoNode
    BY <1>0, <2>1 DEF OpPhase, OpTarget
  <2> QED
    BY <2>1, <2>2 DEF Refined, Contract!Next, Contract!Enter, Carrying
<1>3. CASE Enable(a)
  <2>1. op = a /\ op' = a /\ pc[a] = "enable" /\ pc'[a] = "validate" /\ frame'[a] = frame[a]
        /\ UNCHANGED exit
    BY <1>0, <1>3, OthersStay DEF Enable, Move, OpHeld
  <2>2. OpPhase' = OpPhase /\ OpTarget' = OpTarget /\ Carrying' = Carrying
    BY <1>0, <2>1 DEF OpPhase, OpTarget, Carrying
  <2>3. settings'.enabled \in {"on", "off"}
    BY DEF IInv, TypeOK, Policies
  <2> QED
    BY <2>1, <2>2, <2>3 DEF Refined, Contract!Next, Contract!SetSwitch, Contract!Still
<1>4. CASE SwitchOff(a)
  <2>1. op = a /\ op' = a /\ pc[a] = "off" /\ pc'[a] = "down" /\ UNCHANGED exit
    BY <1>0, <1>4, OthersStay DEF SwitchOff, Move, OpHeld
  <2>2. OpPhase' = OpPhase /\ OpTarget' = OpTarget /\ Carrying' = Carrying
    BY <1>0, <2>1 DEF OpPhase, OpTarget, Carrying
  <2>3. settings'.enabled \in {"on", "off"}
    BY DEF IInv, TypeOK, Policies
  <2> QED
    BY <2>1, <2>2, <2>3 DEF Refined, Contract!Next, Contract!SetSwitch, Contract!Still
<1>5. CASE Validate(a)
  <2>1. op = a /\ op' = a /\ pc[a] = "validate" /\ pc'[a] = "drop" /\ frame'[a] = frame[a]
        /\ UNCHANGED <<settings, exit>> /\ settings.enabled = "on"
    BY <1>0, <1>5, OthersStay DEF Validate, Move, OpHeld
  <2>2. OpPhase = "entered" /\ OpPhase' = "checked" /\ OpTarget' = OpTarget /\ Carrying' = Carrying
    BY <1>0, <2>1 DEF OpPhase, OpTarget, Carrying
  <2> QED
    BY <2>1, <2>2 DEF Refined, Contract!Next, Contract!Check
<1>6. CASE Drop(a)
  <2>1. op = a /\ op' = a /\ pc[a] = "drop" /\ pc'[a] = "dial" /\ frame'[a] = frame[a]
        /\ UNCHANGED settings /\ active' = NoNode /\ dead' = FALSE
    BY <1>0, <1>6, OthersStay DEF Drop, Move, OpHeld
  <2>2. OpPhase = "checked" /\ OpPhase' = "dialling" /\ OpTarget' = OpTarget /\ Carrying' = {}
    BY <1>0, <2>1 DEF OpPhase, OpTarget, Carrying
  <2> QED
    BY <2>1, <2>2 DEF Refined, Contract!Next, Contract!BeginDial
<1>7. CASE TakeDown(a)
  <2>1. op = a /\ op' = NoActor /\ pc[a] = "down" /\ UNCHANGED settings
        /\ active' = NoNode /\ dead' = FALSE
    BY <1>0, <1>7 DEF TakeDown, OpHeld
  <2>2. /\ OpPhase = "disconnecting" /\ OpPhase' = "free" /\ OpTarget' = NoNode
        /\ Carrying' = Carrying \cap {NoNode}
    BY <1>0, <2>1 DEF OpPhase, OpTarget, Carrying
  <2> QED
    BY <2>1, <2>2 DEF Refined, Contract!Next, Contract!EndDisconnect, Contract!Down, Contract!Free
<1>8. CASE FailLocally(a) \/ DialRefused(a)
  <2>1. /\ pc[a] \in {"enable", "validate", "dial"} /\ UNCHANGED <<settings, exit>> /\ op = a
        /\ op' = NoActor /\ OpPhase' = "free" /\ OpTarget' = NoNode
    BY <1>8, Ended DEF FailLocally, DialRefused, OpHeld, Activating
  <2>2. OpPhase = "entered" \/ (OpPhase = "dialling" /\ Carrying = {})
    BY <1>0, <2>1 DEF OpPhase, Carrying, DialInv
  <2>3. UNCHANGED Carrying
    BY <2>1 DEF Carrying
  <2> QED
    BY <2>1, <2>2, <2>3 DEF Refined, Contract!Next, Contract!Return, Contract!Free
<1>9. CASE DialUp(a)
  <2>1. /\ pc[a] = "dial" /\ op = a /\ UNCHANGED <<settings, dead>> /\ active' = frame[a].target
        /\ op' = NoActor /\ OpPhase' = "free" /\ OpTarget' = NoNode
    BY <1>9, Ended DEF DialUp, OpHeld, Activating
  <2>2. frame[a].target \in Nodes /\ ~dead
    BY <2>1 DEF IInv, TargetInv, Choosing, Activating, DialInv
  <2>3. OpPhase = "dialling" /\ OpTarget = frame[a].target /\ Carrying' = {frame[a].target}
    BY <1>0, <2>1, <2>2, ControlAssumption DEF OpPhase, OpTarget, Carrying
  <2> QED
    BY <2>1, <2>3 DEF Refined, Contract!Next, Contract!Up, Contract!Free
<1> QED
  BY <1>1, <1>2, <1>3, <1>4, <1>5, <1>6, <1>7, <1>8, <1>9 DEF HolderStep

LEMMA ContractSteps ==
    IInv /\ IInv' /\ DialInv /\ [Next]_vars => DialInv' /\ [Contract!Next]_(Contract!vars)
<1> SUFFICES ASSUME IInv, IInv', DialInv, [Next]_vars PROVE DialInv' /\ Refined
  BY DEF Refined
<1>1. ASSUME NEW a \in Actors, Aside(a) PROVE DialInv' /\ Refined
  BY <1>1, AsideKeepsDial, AsideRefines
<1>2. ASSUME NEW a \in Actors, Step(a) PROVE DialInv' /\ Refined
  <2>1. HolderStep(a) \/ Aside(a)
    BY <1>2, RotationAside, CallersAside DEF Step, Activate, HolderStep
  <2> QED
    BY <1>1, <2>1, HolderKeepsDial, HolderRefines
<1>3. ASSUME NEW a \in Operators, Ask(a) PROVE DialInv' /\ Refined
  BY <1>1, <1>3, CallersAside DEF Actors
<1>4. CASE \/ HealthTick \/ HealthBlame \/ MaintBegin
           \/ \E h \in Handlers : TunnelDies(h) \/ ClearExited(h) \/ HandleUnexpectedExit(h)
  BY <1>1, <1>4, AutomaticAside DEF Actors
<1>5. CASE UNCHANGED <<settings, exit, op, pc, frame>>
  <2>1. DialInv'
    BY <1>5 DEF DialInv
  <2>2. OpPhase' = OpPhase /\ OpTarget' = OpTarget /\ Carrying' = Carrying
    BY <1>5 DEF OpPhase, OpTarget, Carrying
  <2> QED
    BY <1>5, <2>1, <2>2 DEF Refined, Contract!vars
<1> QED
  BY <1>2, <1>3, <1>4, <1>5 DEF Next, Probed, vars

\* Operators, monitors and exit handlers, however many and whatever they change
\* meanwhile, see of the gateway what GatewayTunnel has been shown to implement.
THEOREM Implements == Spec => ContractKept
<1>1. Init => DialInv /\ Contract!Init
  BY ControlAssumption DEF Init, DialInv, Contract!Init, OpPhase, OpTarget, Carrying, Policies
<1> QED
  BY <1>1, Invariance, ContractSteps, PTL DEF Spec, ContractKept, Contract!Spec
=============================================================================
