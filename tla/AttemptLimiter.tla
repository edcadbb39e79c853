---------------------------- MODULE AttemptLimiter ----------------------------
(***************************************************************************)
(* How often a client may ask the login endpoint to verify a password: the *)
(* fixed windows and the bounded table of security/attempts.go, as Login   *)
(* in api/handlers.go uses them.  Ages are in ticks, up to Window, past    *)
(* which a window has elapsed however long ago it was.                     *)
(***************************************************************************)
EXTENDS Naturals, FiniteSets

CONSTANTS Keys,    \* clients that try to log in
          Limit,   \* LoginAttemptLimit
          Window,  \* LoginAttemptWindow
          MaxKeys  \* loginAttemptMaxKeys

ASSUME LimiterAssumption ==
    Limit \in Nat \ {0} /\ Window \in Nat \ {0} /\ MaxKeys \in Nat \ {0}

VARIABLES
    buckets,  \* per key: the attempts counted, and the age of the window
    allowed   \* history, per key and age: how many attempts of at most this age
              \* were let through since the last login that succeeded

limiterVars == <<buckets, allowed>>

Ages == 0..Window - 1
NoAttempts == [a \in Ages |-> 0]

LimiterInit == buckets = << >> /\ allowed = [k \in Keys |-> NoAttempts]

Elapsed(k) == buckets[k].age >= Window

\* (fault) the attempt that opens a window is not counted
NewWindowEmpty == [count |-> 0, age |-> 0]

NewWindow == [count |-> 1, age |-> 0]

\* (fault) at the limit every window makes room
PurgeAll == {}

\* purgeLocked: only windows that have elapsed make room.
Purged == {k \in DOMAIN buckets : ~Elapsed(k)}

Put(keys, k, b) == buckets' = [x \in keys \cup {k} |-> IF x = k THEN b ELSE buckets[x]]
LetsThrough(k) == allowed' = [allowed EXCEPT ![k] = [a \in Ages |-> @[a] + 1]]

\* Allow for a key that has a window.
AllowKnown(k) ==
    /\ k \in DOMAIN buckets
    /\ \/ /\ Elapsed(k)
          /\ Put(DOMAIN buckets, k, NewWindow) /\ LetsThrough(k)
       \/ /\ ~Elapsed(k) /\ buckets[k].count >= Limit
          /\ UNCHANGED limiterVars
       \/ /\ ~Elapsed(k) /\ buckets[k].count < Limit
          /\ Put(DOMAIN buckets, k, [buckets[k] EXCEPT !.count = @ + 1]) /\ LetsThrough(k)

\* The keys left once room has been looked for.
Room == IF Cardinality(DOMAIN buckets) >= MaxKeys THEN Purged ELSE DOMAIN buckets

\* Allow for a key that has none: refused while the table is full of live ones.
AllowNew(k) ==
    /\ k \notin DOMAIN buckets
    /\ IF Cardinality(Room) >= MaxKeys
       THEN buckets' = [x \in Room |-> buckets[x]] /\ UNCHANGED allowed
       ELSE Put(Room, k, NewWindow) /\ LetsThrough(k)

\* A login that succeeds, some time after it was let through.
ResetKey(k) ==
    /\ allowed[k][Window - 1] > 0
    /\ buckets' = [x \in DOMAIN buckets \ {k} |-> buckets[x]]
    /\ allowed' = [allowed EXCEPT ![k] = NoAttempts]

Tick ==
    /\ buckets' = [k \in DOMAIN buckets |->
           [buckets[k] EXCEPT !.age = IF @ < Window THEN @ + 1 ELSE @]]
    /\ allowed' = [k \in Keys |->
           [a \in Ages |-> IF a = 0 THEN 0 ELSE allowed[k][a - 1]]]

LimiterNext ==
    \/ \E k \in Keys : AllowKnown(k) \/ AllowNew(k) \/ ResetKey(k)
    \/ Tick

LimiterSpec == LimiterInit /\ [][LimiterNext]_limiterVars

-----------------------------------------------------------------------------
(* Properties.                                                             *)

LimiterTypeOK ==
    /\ DOMAIN buckets \subseteq Keys
    /\ \A k \in DOMAIN buckets : buckets[k].count \in 1..Limit /\ buckets[k].age \in 0..Window
    /\ allowed \in [Keys -> [Ages -> Nat]]

\* AttemptLimiter under any number of clients: the table keeps to its limit,
\* and in no stretch of Window ticks, wherever it begins, does a client that
\* keeps failing get more than the end of one window and the whole of the
\* next; filling the table with other clients does not renew its window.
LimitHolds ==
    /\ Cardinality(DOMAIN buckets) <= MaxKeys
    /\ \A k \in Keys : allowed[k][Window - 1] <= 2 * Limit - 1
=============================================================================
