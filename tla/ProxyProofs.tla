----------------------------- MODULE ProxyProofs -----------------------------
(***************************************************************************)
(* What the proxy port promises, for any number of clients, passwords and  *)
(* connections: first its credential cache (types, one derivation at a     *)
(* time per credential, verdicts that are true, a table within its limit), *)
(* then its listener (what a connection may hold, and whose traffic it may *)
(* carry, whatever the settings become).                                   *)
(***************************************************************************)
EXTENDS ProxyAuth, ProxyListener, FiniteSetTheorems, TLAPS

-----------------------------------------------------------------------------
(* The credential cache.                                                   *)

ClientAts == {"outside", "asked", "verify", "queue", "derive", "land", "answered", "refused"}
Passwords == Secrets \cup {Unset}
Client == [at : ClientAts, pw : Passwords, hash : Passwords, ok : BOOLEAN]
Entry == [done : BOOLEAN, ok : BOOLEAN, fresh : BOOLEAN]

Deriving == {c \in Clients : client[c].at = "derive"}
Workers == {c \in Clients : Working(c)}

AuthTypes ==
    /\ stored \in Passwords
    /\ cached \in [hash : Passwords, err : BOOLEAN, fresh : BOOLEAN]
    /\ entries \in [DOMAIN entries -> Entry]
    /\ client \in [Clients -> Client]
    /\ rotations \in 0..MaxRotations

\* Every slot taken is somebody's.
GateInv == gate = Cardinality(Deriving) /\ gate <= GateSlots

\* Who works for a key has the entry in flight, alone; an entry in flight has
\* somebody at work for it.
FlightInv ==
    /\ SingleFlight
    /\ \A k \in DOMAIN entries : ~entries[k].done => \E c \in Clients : Working(c) /\ KeyOf(c) = k

\* What has landed in the table, and what a client carries to it, is true.
VerdictInv ==
    /\ \A pw, hash \in Passwords :
         Key(pw, hash) \in DOMAIN entries /\ entries[Key(pw, hash)].done
         => entries[Key(pw, hash)].ok = (pw = hash)
    /\ \A c \in Clients :
         client[c].at \in {"land", "answered"} => client[c].ok = (client[c].pw = client[c].hash)

BoundInv == IsFiniteSet(DOMAIN entries) /\ CacheBounded

AuthInv == AuthTypes /\ GateInv /\ FlightInv /\ VerdictInv /\ BoundInv

-----------------------------------------------------------------------------
(* Facts about the table.                                                  *)

\* digest tells any two pairs apart.
LEMMA KeysDiffer ==
    \A p, q, g, h : Key(p, g) = Key(q, h) <=> p = q /\ g = h
  BY DEF Key

\* There are no more entries in flight than connections at work.
LEMMA FlightsCounted ==
    ASSUME FlightInv, BoundInv, NEW c \in Clients, ~Working(c),
           NEW keys, \A k \in keys : InFlight(k)
    PROVE  IsFiniteSet(keys) /\ Cardinality(keys) < CacheMax
<1> DEFINE others == Clients \ {c}
           f == [d \in others |-> KeyOf(d)]
           image == {f[d] : d \in others}
<1>1. /\ IsFiniteSet(others) /\ Cardinality(others) = Cardinality(Clients) - 1
      /\ Cardinality(Clients) \in Nat
  BY FS_RemoveElement, FS_CardinalityType, AuthAssumption
<1>2. f \in Surjection(others, image)
  BY DEF Surjection
<1> HIDE DEF f
<1>3. IsFiniteSet(image) /\ Cardinality(image) <= Cardinality(others)
  BY <1>1, <1>2, FS_Surjection
<1>4. keys \subseteq image
  <2>1. ASSUME NEW k \in keys PROVE k \in image
    <3>1. PICK d \in Clients : Working(d) /\ KeyOf(d) = k
      BY DEF FlightInv, InFlight, Known
    <3> QED
      BY <3>1 DEF f
  <2> QED
    BY <2>1
<1>5. IsFiniteSet(keys) /\ Cardinality(keys) <= Cardinality(image)
  BY <1>3, <1>4, FS_Subset
<1>6. Cardinality(keys) \in Nat /\ Cardinality(image) \in Nat /\ Cardinality(others) \in Nat
  BY <1>1, <1>3, <1>5, FS_CardinalityType
<1> QED
  BY <1>1, <1>3, <1>5, <1>6, AuthAssumption

\* evictLocked: when a connection is about to take a place, what is kept are
\* entries of the table, all those in flight among them, and there is room.
LEMMA RoomMade ==
    ASSUME FlightInv, BoundInv, NEW c \in Clients, ~Working(c), NEW keys \in Kept
    PROVE  /\ keys \subseteq DOMAIN entries
           /\ \A k \in DOMAIN entries : ~entries[k].done => k \in keys
           /\ IsFiniteSet(keys) /\ Cardinality(keys) < CacheMax
<1> DEFINE D == DOMAIN entries
           expired == {k \in Evictable(D) : ~entries[k].fresh}
           left == D \ expired
<1>1. \A k \in D : ~entries[k].done => k \notin Evictable(D) /\ k \notin Evictable(left)
  BY DEF Evictable, InFlight, Known
<1>2. IsFiniteSet(D) /\ CacheMax \in Nat
  BY AuthAssumption DEF BoundInv
<1>3. CASE keys = D /\ Cardinality(D) < CacheMax
  BY <1>2, <1>3
<1>4. CASE keys = left /\ Cardinality(left) < CacheMax
  <2>1. left \in SUBSET D
    OBVIOUS
  <2>2. IsFiniteSet(left)
    BY <1>2, <2>1, FS_Subset
  <2> QED
    BY <1>1, <1>4, <2>1, <2>2
<1>5. ASSUME NEW s \in SUBSET Evictable(left), keys = left \ s,
             \/ Cardinality(left \ s) = CacheMax - 1
             \/ s = Evictable(left)
      PROVE  /\ keys \subseteq D
             /\ \A k \in D : ~entries[k].done => k \in keys
             /\ IsFiniteSet(keys) /\ Cardinality(keys) < CacheMax
  <2>1. keys \in SUBSET D
    BY <1>5
  <2>2. IsFiniteSet(keys)
    BY <1>2, <2>1, FS_Subset
  <2>3. \A k \in D : ~entries[k].done => k \in keys
    BY <1>1, <1>5
  <2>4. CASE Cardinality(left \ s) = CacheMax - 1
    BY <1>2, <1>5, <2>1, <2>2, <2>3, <2>4
  <2>5. CASE s = Evictable(left)
    <3>1. \A k \in keys : InFlight(k)
      BY <1>5, <2>5 DEF Evictable
    <3> QED
      BY <2>1, <2>3, <3>1, FlightsCounted
  <2> QED
    BY <1>5, <2>4, <2>5
<1>6. \/ keys = D /\ Cardinality(D) < CacheMax
      \/ keys = left /\ Cardinality(left) < CacheMax
      \/ \E s \in SUBSET Evictable(left) :
            /\ keys = left \ s
            /\ Cardinality(left \ s) = CacheMax - 1 \/ s = Evictable(left)
  BY DEF Kept
<1> QED
  BY <1>3, <1>4, <1>5, <1>6

-----------------------------------------------------------------------------
(* The invariant.                                                          *)

LEMMA InitAuthInv == AuthInit => AuthInv
<1> SUFFICES ASSUME AuthInit PROVE AuthInv
  OBVIOUS
<1>1. entries = << >> /\ DOMAIN entries = {}
  BY DEF AuthInit
<1>2. \A c \in Clients : client[c] = Outsider
  BY DEF AuthInit
<1>3. AuthTypes
  <2>1. entries \in [DOMAIN entries -> Entry]
    BY <1>1
  <2> QED
    BY <2>1, AuthAssumption DEF AuthInit, AuthTypes, NoRead, Outsider, Client, ClientAts, Passwords
<1>4. Deriving = {}
  BY <1>2 DEF Deriving, Outsider
<1>5. GateInv
  BY <1>4, FS_EmptySet, AuthAssumption DEF GateInv, AuthInit
<1>6. FlightInv /\ VerdictInv
  BY <1>1, <1>2 DEF FlightInv, SingleFlight, VerdictInv, Working, Outsider
<1>7. BoundInv
  <2>1. IsFiniteSet({}) /\ Cardinality({}) = 0
    BY FS_EmptySet
  <2>2. 0 <= CacheMax
    BY AuthAssumption
  <2> QED
    BY <1>1, <2>1, <2>2 DEF BoundInv, CacheBounded
<1> QED
  BY <1>3, <1>5, <1>6, <1>7 DEF AuthInv

\* One client moves; another one is as it was.
Moved(c, new) == client' = [client EXCEPT ![c] = new]

LEMMA MoveFacts ==
    ASSUME AuthTypes, NEW c \in Clients, NEW new \in Client, Moved(c, new)
    PROVE  /\ client' \in [Clients -> Client] /\ client'[c] = new
           /\ \A d \in Clients : d # c => client'[d] = client[d]
  BY DEF AuthTypes, Moved

\* A client that neither enters nor leaves the gate changes nothing there.
LEMMA GateKept ==
    ASSUME GateInv, gate' = gate,
           \A d \in Clients : (client'[d].at = "derive") <=> (client[d].at = "derive")
    PROVE  GateInv'
<1>1. Deriving' = Deriving
  BY DEF Deriving
<1> QED
  BY <1>1 DEF GateInv

\* A client that moves beside an unchanged table keeps what the invariant says
\* of it, if it neither starts nor stops working and carries a true verdict.
LEMMA TableKept ==
    ASSUME FlightInv, VerdictInv, BoundInv, AuthTypes, UNCHANGED entries,
           NEW c \in Clients, NEW new \in Client, Moved(c, new),
           Working(c) <=> new.at \in {"queue", "derive", "land"},
           Working(c) => new.pw = client[c].pw /\ new.hash = client[c].hash,
           new.at \in {"land", "answered"} => new.ok = (new.pw = new.hash)
    PROVE  FlightInv' /\ VerdictInv' /\ BoundInv'
<1>1. /\ client'[c] = new /\ \A d \in Clients : d # c => client'[d] = client[d]
  BY MoveFacts
<1>2. \A d \in Clients : /\ Working(d)' <=> Working(d)
                         /\ Working(d) => KeyOf(d)' = KeyOf(d)
  BY <1>1 DEF Working, KeyOf, Key
<1>3. \A k : InFlight(k)' <=> InFlight(k)
  BY DEF InFlight, Known
<1>4. FlightInv'
  BY <1>2, <1>3 DEF FlightInv, SingleFlight
<1>5. VerdictInv'
  <2>1. \A d \in Clients :
          client'[d].at \in {"land", "answered"} => client'[d].ok = (client'[d].pw = client'[d].hash)
    BY <1>1 DEF VerdictInv
  <2>2. \A pw, hash : Key(pw, hash)' = Key(pw, hash)
    BY DEF Key
  <2> QED
    BY <2>1, <2>2 DEF VerdictInv
<1>6. BoundInv'
  BY DEF BoundInv, CacheBounded
<1> QED
  BY <1>4, <1>5, <1>6

LEMMA ReadType ==
    ASSUME AuthTypes, NEW r \in Read
    PROVE  r \in [hash : Passwords, err : BOOLEAN, fresh : BOOLEAN]
<1> DEFINE R == [hash : Passwords, err : BOOLEAN, fresh : BOOLEAN]
           found == [hash |-> stored, err |-> FALSE, fresh |-> TRUE]
           failed == [hash |-> Unset, err |-> TRUE, fresh |-> TRUE]
<1>1. stored \in Passwords /\ Unset \in Passwords /\ cached \in R
  BY DEF AuthTypes, Passwords
<1>2. found \in R
  BY <1>1
<1>3. failed \in R
  BY <1>1
<1>4. r \in {cached, found, failed}
  BY DEF Read
<1> QED
  BY <1>1, <1>2, <1>3, <1>4

\* Before the table.
LEMMA AskSteps ==
    ASSUME AuthInv, NEW c \in Clients, Required(c) \/ Authenticate(c)
    PROVE  AuthInv'
<1> USE DEF AuthInv
<1> DEFINE asked == [client[c] EXCEPT !.at = "asked"]
<1>1. asked \in Client
  BY DEF AuthTypes, Client, ClientAts
<1>2. UNCHANGED <<stored, entries, gate, rotations>>
  BY DEF Required, Authenticate
<1>3. CASE Required(c)
  <2>1. PICK r \in Read : cached' = r /\ (Moved(c, asked) \/ UNCHANGED client)
    BY <1>3 DEF Required, Moves, Moved
  <2>2. CASE UNCHANGED client
    <3>1. AuthTypes'
      BY <1>2, <2>1, <2>2, ReadType DEF AuthTypes
    <3>2. GateInv'
      BY <1>2, <2>2, GateKept
    <3>3. FlightInv' /\ VerdictInv' /\ BoundInv'
      BY <1>2, <2>2 DEF FlightInv, SingleFlight, VerdictInv, BoundInv, CacheBounded,
                        Working, KeyOf, Key, InFlight, Known
    <3> QED
      BY <3>1, <3>2, <3>3
  <2>3. CASE Moved(c, asked)
    <3>1. client[c].at = "outside" /\ asked.at = "asked"
      BY <1>3 DEF Required, AuthTypes, Client
    <3> HIDE DEF asked
    <3>2. /\ client' \in [Clients -> Client] /\ client'[c] = asked
          /\ \A d \in Clients : d # c => client'[d] = client[d]
      BY <1>1, <2>3, MoveFacts
    <3>3. AuthTypes'
      BY <1>2, <2>1, <3>2, ReadType DEF AuthTypes
    <3>4. GateInv'
      BY <1>2, <3>1, <3>2, GateKept
    <3>5. FlightInv' /\ VerdictInv' /\ BoundInv'
      BY <1>1, <1>2, <2>3, <3>1, TableKept DEF Working
    <3> QED
      BY <3>3, <3>4, <3>5
  <2> QED
    BY <2>1, <2>2, <2>3
<1>4. CASE Authenticate(c)
  <2>1. PICK r \in Read, pw \in Secrets, named \in BOOLEAN :
          /\ cached' = r
          /\ client' = [client EXCEPT ![c] =
                [at |-> IF r.err \/ r.hash = Unset \/ ~named THEN "refused" ELSE "verify",
                 pw |-> pw, hash |-> r.hash, ok |-> FALSE]]
    BY <1>4 DEF Authenticate
  <2> DEFINE new == [at |-> IF r.err \/ r.hash = Unset \/ ~named THEN "refused" ELSE "verify",
                     pw |-> pw, hash |-> r.hash, ok |-> FALSE]
  <2>2. new \in Client /\ new.at \in {"refused", "verify"}
    BY ReadType DEF Client, ClientAts, Passwords
  <2>3. Moved(c, new) /\ client[c].at = "asked"
    BY <1>4, <2>1 DEF Moved, Authenticate
  <2> HIDE DEF new
  <2>4. /\ client' \in [Clients -> Client] /\ client'[c] = new
        /\ \A d \in Clients : d # c => client'[d] = client[d]
    BY <2>2, <2>3, MoveFacts
  <2>5. AuthTypes'
    BY <1>2, <2>1, <2>4, ReadType DEF AuthTypes
  <2>6. GateInv'
    BY <1>2, <2>2, <2>3, <2>4, GateKept
  <2>7. FlightInv' /\ VerdictInv' /\ BoundInv'
    BY <1>2, <2>2, <2>3, TableKept DEF Working
  <2> QED
    BY <2>5, <2>6, <2>7
<1> QED
  BY <1>3, <1>4

\* A verdict from the table, and the end.
LEMMA QuickSteps ==
    ASSUME AuthInv, NEW c \in Clients, Hit(c) \/ Leave(c)
    PROVE  AuthInv'
<1> USE DEF AuthInv
<1>1. UNCHANGED <<stored, cached, entries, gate, rotations>>
  BY DEF Hit, Leave
<1>2. PICK new \in Client : /\ Moved(c, new) /\ new.at \in {"answered", "outside"}
                            /\ new.at = "answered" => new.ok = (new.pw = new.hash)
  <2>1. CASE Hit(c)
    <3> DEFINE k == KeyOf(c)
               ok == entries[k].ok
               aside == [client[c] EXCEPT !.at = "answered"]
               new == [aside EXCEPT !.ok = ok]
    <3>1. k \in DOMAIN entries /\ entries[k].done
      BY <2>1 DEF Hit, Known, InFlight
    <3>2. client[c].pw \in Passwords /\ client[c].hash \in Passwords
      BY DEF AuthTypes, Client
    <3>3. ok = (client[c].pw = client[c].hash)
      BY <3>1, <3>2 DEF VerdictInv, KeyOf
    <3>4. aside \in Client /\ aside.at = "answered" /\ aside.pw = client[c].pw /\ aside.hash = client[c].hash
      BY DEF AuthTypes, Client, ClientAts
    <3>5. client' = [client EXCEPT ![c].at = "answered", ![c].ok = ok]
      BY <2>1 DEF Hit, Answers
    <3> HIDE DEF ok
    <3>6. Moved(c, new)
      BY <3>5 DEF Moved, AuthTypes
    <3>7. ok \in BOOLEAN
      BY <3>3
    <3> HIDE DEF aside
    <3>8. new \in Client /\ new.at = "answered" /\ new.ok = ok
          /\ new.pw = client[c].pw /\ new.hash = client[c].hash
      BY <3>4, <3>7 DEF Client
    <3> QED
      BY <3>3, <3>6, <3>8
  <2>2. CASE Leave(c)
    <3>1. Outsider \in Client /\ Outsider.at = "outside"
      BY DEF Outsider, Client, ClientAts, Passwords
    <3> QED
      BY <2>2, <3>1 DEF Leave, Moved
  <2> QED
    BY <2>1, <2>2
<1>3. client[c].at \in {"verify", "answered", "refused"}
  BY DEF Hit, Leave
<1>4. /\ client' \in [Clients -> Client] /\ client'[c] = new
      /\ \A d \in Clients : d # c => client'[d] = client[d]
  BY <1>2, MoveFacts
<1>5. AuthTypes'
  BY <1>1, <1>4 DEF AuthTypes
<1>6. GateInv'
  BY <1>1, <1>2, <1>3, <1>4, GateKept
<1>7. FlightInv' /\ VerdictInv' /\ BoundInv'
  BY <1>1, <1>2, <1>3, TableKept DEF Working
<1> QED
  BY <1>5, <1>6, <1>7

\* A miss takes a place in the table and goes to work.
LEMMA MissStep ==
    ASSUME AuthInv, NEW c \in Clients, Miss(c)
    PROVE  AuthInv'
<1> USE DEF AuthInv
<1> DEFINE K == KeyOf(c)
           new == [client[c] EXCEPT !.at = "queue"]
<1>1. PICK keys \in Kept :
        entries' = [k \in keys \cup {K} |-> IF k = K THEN Flying ELSE entries[k]]
  BY DEF Miss
<1>2. ~Working(c) /\ client[c].at = "verify" /\ ~InFlight(K)
  BY DEF Miss, Working, Answered
<1>3. /\ keys \subseteq DOMAIN entries
      /\ \A k \in DOMAIN entries : ~entries[k].done => k \in keys
      /\ IsFiniteSet(keys) /\ Cardinality(keys) < CacheMax
  BY <1>2, RoomMade
<1>4. UNCHANGED <<stored, cached, gate, rotations>> /\ Moved(c, new)
  BY DEF Miss, Moves, Moved
<1>5. /\ new \in Client /\ new.at = "queue"
      /\ new.pw = client[c].pw /\ new.hash = client[c].hash
  BY DEF AuthTypes, Client, ClientAts
<1> HIDE DEF new
<1>6. /\ client' \in [Clients -> Client] /\ client'[c] = new
      /\ \A d \in Clients : d # c => client'[d] = client[d]
  BY <1>4, <1>5, MoveFacts
<1>7. /\ \A d \in Clients : KeyOf(d)' = KeyOf(d)
      /\ \A d \in Clients : Working(d)' <=> d = c \/ Working(d)
  BY <1>5, <1>6 DEF KeyOf, Key, Working
<1> HIDE DEF K
<1>8. Flying \in Entry /\ ~Flying.done
  BY DEF Flying, Entry
<1>9. /\ DOMAIN entries' = keys \cup {K}
      /\ \A k \in keys \cup {K} : entries'[k] = IF k = K THEN Flying ELSE entries[k]
  BY <1>1
<1>10. AuthTypes'
  <2>1. \A k \in keys \cup {K} : entries'[k] \in Entry
    BY <1>3, <1>8, <1>9 DEF AuthTypes
  <2>2. entries' \in [DOMAIN entries' -> Entry]
    BY <1>1, <1>9, <2>1
  <2> QED
    BY <1>4, <1>6, <2>2 DEF AuthTypes
<1>11. GateInv'
  BY <1>2, <1>4, <1>5, <1>6, GateKept
<1>12. FlightInv'
  <2>1. \A k : InFlight(k)' <=> k = K \/ InFlight(k)
    BY <1>3, <1>8, <1>9 DEF InFlight, Known
  <2>2. \A d \in Clients : Working(d) => KeyOf(d) # K
    BY <1>2 DEF FlightInv, SingleFlight
  <2>3. SingleFlight'
    BY <1>7, <2>1, <2>2 DEF FlightInv, SingleFlight, K
  <2>4. ASSUME NEW k \in DOMAIN entries', ~entries'[k].done
        PROVE  \E d \in Clients : Working(d)' /\ KeyOf(d)' = k
    <3>1. CASE k = K
      BY <1>7, <3>1 DEF K
    <3>2. CASE k # K
      <4>1. k \in DOMAIN entries /\ ~entries[k].done
        BY <1>3, <1>9, <2>4, <3>2
      <4> QED
        BY <1>7, <4>1 DEF FlightInv
    <3> QED
      BY <3>1, <3>2
  <2> QED
    BY <2>3, <2>4 DEF FlightInv
<1>13. VerdictInv'
  <2>1. \A k \in DOMAIN entries' : entries'[k].done => k \in DOMAIN entries /\ entries'[k] = entries[k]
    BY <1>3, <1>8, <1>9
  <2>2. \A pw, hash : Key(pw, hash)' = Key(pw, hash)
    BY DEF Key
  <2>3. \A pw, hash \in Passwords :
          Key(pw, hash) \in DOMAIN entries' /\ entries'[Key(pw, hash)].done
          => entries'[Key(pw, hash)].ok = (pw = hash)
    BY <2>1 DEF VerdictInv
  <2>4. \A d \in Clients :
          client'[d].at \in {"land", "answered"} => client'[d].ok = (client'[d].pw = client'[d].hash)
    BY <1>5, <1>6 DEF VerdictInv
  <2> QED
    BY <2>2, <2>3, <2>4 DEF VerdictInv
<1>14. BoundInv'
  <2>1. Cardinality(keys) \in Nat /\ CacheMax \in Nat
    BY <1>3, FS_CardinalityType, AuthAssumption
  <2>2. /\ IsFiniteSet(keys \cup {K})
        /\ \/ Cardinality(keys \cup {K}) = Cardinality(keys)
           \/ Cardinality(keys \cup {K}) = Cardinality(keys) + 1
    BY <1>3, FS_AddElement
  <2> QED
    BY <1>3, <1>9, <2>1, <2>2 DEF BoundInv, CacheBounded
<1> QED
  BY <1>10, <1>11, <1>12, <1>13, <1>14

\* The gate counts those who derive.
LEMMA DerivingFinite == IsFiniteSet(Deriving) /\ Cardinality(Deriving) \in Nat
<1>1. Deriving \in SUBSET Clients
  BY DEF Deriving
<1> QED
  BY <1>1, FS_Subset, FS_CardinalityType, AuthAssumption

LEMMA DeriveSteps ==
    ASSUME AuthInv, NEW c \in Clients, Enter(c) \/ Derived(c)
    PROVE  AuthInv'
<1> USE DEF AuthInv
<1>1. UNCHANGED <<stored, cached, entries, rotations>>
  BY DEF Enter, Derived
<1>2. CASE Enter(c)
  <2> DEFINE new == [client[c] EXCEPT !.at = "derive"]
  <2>1. /\ new \in Client /\ new.at = "derive"
        /\ new.pw = client[c].pw /\ new.hash = client[c].hash
    BY DEF AuthTypes, Client, ClientAts
  <2>2. Moved(c, new) /\ client[c].at = "queue" /\ gate < GateSlots /\ gate' = gate + 1
    BY <1>2 DEF Enter, Moves, Moved
  <2> HIDE DEF new
  <2>3. /\ client' \in [Clients -> Client] /\ client'[c] = new
        /\ \A d \in Clients : d # c => client'[d] = client[d]
    BY <2>1, <2>2, MoveFacts
  <2>4. AuthTypes'
    BY <1>1, <2>3 DEF AuthTypes
  <2>5. GateInv'
    <3>1. Deriving' = Deriving \cup {c} /\ c \notin Deriving
      BY <2>1, <2>2, <2>3 DEF Deriving
    <3>2. Cardinality(Deriving') = Cardinality(Deriving) + 1
      BY <3>1, DerivingFinite, FS_AddElement
    <3> QED
      BY <2>2, <3>2, DerivingFinite, AuthAssumption DEF GateInv
  <2>6. FlightInv' /\ VerdictInv' /\ BoundInv'
    BY <1>1, <2>1, <2>2, TableKept DEF Working
  <2> QED
    BY <2>4, <2>5, <2>6
<1>3. CASE Derived(c)
  <2> DEFINE ok == client[c].pw = client[c].hash
             aside == [client[c] EXCEPT !.at = "land"]
             new == [aside EXCEPT !.ok = ok]
  <2>1. /\ aside \in Client /\ aside.at = "land"
        /\ aside.pw = client[c].pw /\ aside.hash = client[c].hash
    BY DEF AuthTypes, Client, ClientAts
  <2>2. client' = [client EXCEPT ![c].at = "land", ![c].ok = ok]
    BY <1>3 DEF Derived
  <2>3. ok \in BOOLEAN
    OBVIOUS
  <2>4. client[c].at = "derive" /\ gate' = gate - 1
    BY <1>3 DEF Derived
  <2>5. ok = (client[c].pw = client[c].hash)
    OBVIOUS
  <2> HIDE DEF ok
  <2>6. Moved(c, new)
    BY <2>2 DEF Moved, AuthTypes
  <2> HIDE DEF aside
  <2>7. /\ new \in Client /\ new.at = "land" /\ new.ok = ok
        /\ new.pw = client[c].pw /\ new.hash = client[c].hash
    BY <2>1, <2>3 DEF Client
  <2> HIDE DEF new
  <2>8. /\ client' \in [Clients -> Client] /\ client'[c] = new
        /\ \A d \in Clients : d # c => client'[d] = client[d]
    BY <2>6, <2>7, MoveFacts
  <2>9. AuthTypes'
    BY <1>1, <2>8 DEF AuthTypes
  <2>10. GateInv'
    <3>1. Deriving' = Deriving \ {c} /\ c \in Deriving
      BY <2>4, <2>7, <2>8 DEF Deriving
    <3>2. Cardinality(Deriving') = Cardinality(Deriving) - 1
      BY <3>1, DerivingFinite, FS_RemoveElement
    <3> QED
      BY <2>4, <3>2, DerivingFinite, AuthAssumption DEF GateInv
  <2>11. FlightInv' /\ VerdictInv' /\ BoundInv'
    BY <1>1, <2>4, <2>5, <2>6, <2>7, TableKept DEF Working
  <2> QED
    BY <2>9, <2>10, <2>11
<1> QED
  BY <1>2, <1>3

\* The verdict takes the place of the entry that was in flight for it.
LEMMA LandStep ==
    ASSUME AuthInv, NEW c \in Clients, Land(c)
    PROVE  AuthInv'
<1> USE DEF AuthInv
<1> DEFINE K == KeyOf(c)
           new == [client[c] EXCEPT !.at = "answered"]
           verdict == Landed(client[c].ok)
<1>1. /\ client[c].at = "land" /\ Moved(c, new)
      /\ entries' = [k \in DOMAIN entries \cup {K} |-> IF k = K THEN verdict ELSE entries[k]]
      /\ UNCHANGED <<stored, cached, gate, rotations>>
  BY DEF Land, Moves, Moved
<1>2. /\ new \in Client /\ new.at = "answered" /\ new.ok = client[c].ok
      /\ new.pw = client[c].pw /\ new.hash = client[c].hash
  BY DEF AuthTypes, Client, ClientAts
<1>3. /\ client[c].pw \in Passwords /\ client[c].hash \in Passwords /\ client[c].ok \in BOOLEAN
      /\ client[c].ok = (client[c].pw = client[c].hash)
  BY <1>1 DEF AuthTypes, VerdictInv, Client
<1> HIDE DEF new
<1>4. /\ client' \in [Clients -> Client] /\ client'[c] = new
      /\ \A d \in Clients : d # c => client'[d] = client[d]
  BY <1>1, <1>2, MoveFacts
<1>5. Working(c) /\ InFlight(K) /\ \A d \in Clients : Working(d) /\ KeyOf(d) = K => d = c
  BY <1>1 DEF FlightInv, SingleFlight, Working
<1>6. /\ \A d \in Clients : KeyOf(d)' = KeyOf(d)
      /\ \A d \in Clients : Working(d)' <=> d # c /\ Working(d)
  BY <1>2, <1>4 DEF KeyOf, Key, Working
<1>7. K = Key(client[c].pw, client[c].hash)
  BY DEF KeyOf
<1> HIDE DEF K
<1>8. verdict \in Entry /\ verdict.done /\ verdict.ok = client[c].ok
  BY <1>3 DEF Landed, Entry
<1> HIDE DEF verdict
<1>9. /\ K \in DOMAIN entries /\ DOMAIN entries' = DOMAIN entries
      /\ \A k \in DOMAIN entries : entries'[k] = IF k = K THEN verdict ELSE entries[k]
  <2>1. K \in DOMAIN entries
    BY <1>5 DEF InFlight, Known
  <2> QED
    BY <1>1, <2>1
<1>10. AuthTypes'
  <2>1. \A k \in DOMAIN entries : entries'[k] \in Entry
    BY <1>8, <1>9 DEF AuthTypes
  <2>2. entries' \in [DOMAIN entries' -> Entry]
    BY <1>1, <1>9, <2>1
  <2> QED
    BY <1>1, <1>4, <2>2 DEF AuthTypes
<1>11. GateInv'
  BY <1>1, <1>2, <1>4, GateKept
<1>12. FlightInv'
  <2>1. \A k : InFlight(k)' <=> k # K /\ InFlight(k)
    BY <1>8, <1>9 DEF InFlight, Known
  <2>2. SingleFlight'
    BY <1>5, <1>6, <2>1 DEF FlightInv, SingleFlight
  <2>3. ASSUME NEW k \in DOMAIN entries', ~entries'[k].done
        PROVE  \E d \in Clients : Working(d)' /\ KeyOf(d)' = k
    <3>1. k # K /\ k \in DOMAIN entries /\ ~entries[k].done
      BY <1>8, <1>9, <2>3
    <3>2. PICK d \in Clients : Working(d) /\ KeyOf(d) = k
      BY <3>1 DEF FlightInv
    <3> QED
      BY <1>6, <3>1, <3>2 DEF K
  <2> QED
    BY <2>2, <2>3 DEF FlightInv
<1>13. VerdictInv'
  <2>1. \A pw, hash : Key(pw, hash)' = Key(pw, hash)
    BY DEF Key
  <2>2. ASSUME NEW pw \in Passwords, NEW hash \in Passwords,
               Key(pw, hash) \in DOMAIN entries', entries'[Key(pw, hash)].done
        PROVE  entries'[Key(pw, hash)].ok = (pw = hash)
    <3>1. CASE Key(pw, hash) = K
      <4>1. pw = client[c].pw /\ hash = client[c].hash
        BY <1>7, <3>1, KeysDiffer
      <4> QED
        BY <1>3, <1>8, <1>9, <3>1, <4>1
    <3>2. CASE Key(pw, hash) # K
      <4>1. /\ Key(pw, hash) \in DOMAIN entries
            /\ entries'[Key(pw, hash)] = entries[Key(pw, hash)]
        BY <1>9, <2>2, <3>2
      <4> QED
        BY <2>2, <4>1 DEF VerdictInv
    <3> QED
      BY <3>1, <3>2
  <2>3. \A d \in Clients :
          client'[d].at \in {"land", "answered"} => client'[d].ok = (client'[d].pw = client'[d].hash)
    BY <1>2, <1>3, <1>4 DEF VerdictInv
  <2> QED
    BY <2>1, <2>2, <2>3 DEF VerdictInv
<1>14. BoundInv'
  BY <1>9 DEF BoundInv, CacheBounded
<1> QED
  BY <1>10, <1>11, <1>12, <1>13, <1>14

\* Time passes, or a password is saved: no client moves.
LEMMA OutsideSteps ==
    ASSUME AuthInv, SettingsExpire \/ VerdictExpires \/ Rotate
    PROVE  AuthInv'
<1> USE DEF AuthInv
<1>1. UNCHANGED <<gate, client>>
  BY DEF SettingsExpire, VerdictExpires, Rotate
<1>2. GateInv'
  BY <1>1, GateKept
<1>3. /\ \A d \in Clients : (Working(d)' <=> Working(d)) /\ KeyOf(d)' = KeyOf(d)
      /\ \A pw, hash : Key(pw, hash)' = Key(pw, hash)
  BY <1>1 DEF Working, KeyOf, Key
<1>4. CASE UNCHANGED entries
  <2>1. \A k : InFlight(k)' <=> InFlight(k)
    BY <1>4 DEF InFlight, Known
  <2>2. FlightInv' /\ VerdictInv' /\ BoundInv'
    BY <1>1, <1>3, <1>4, <2>1 DEF FlightInv, SingleFlight, VerdictInv, BoundInv, CacheBounded
  <2>3. CASE SettingsExpire
    <3>1. AuthTypes'
      BY <1>1, <1>4, <2>3 DEF SettingsExpire, AuthTypes
    <3> QED
      BY <1>2, <2>2, <3>1
  <2>4. CASE Rotate
    <3>1. AuthTypes'
      BY <1>1, <1>4, <2>4, AuthAssumption DEF Rotate, AuthTypes, Passwords
    <3> QED
      BY <1>2, <2>2, <3>1
  <2>5. CASE VerdictExpires
    <3>1. AuthTypes'
      BY <1>1, <1>4, <2>5 DEF VerdictExpires, AuthTypes
    <3> QED
      BY <1>2, <2>2, <3>1
  <2> QED
    BY <2>3, <2>4, <2>5
<1>5. CASE VerdictExpires
  <2>1. PICK k \in DOMAIN entries :
          entries[k].done /\ entries' = [entries EXCEPT ![k].fresh = FALSE]
    BY <1>5 DEF VerdictExpires
  <2> DEFINE old == [entries[k] EXCEPT !.fresh = FALSE]
  <2>2. old \in Entry /\ old.done = entries[k].done /\ old.ok = entries[k].ok
    BY DEF AuthTypes, Entry
  <2>3. entries' = [entries EXCEPT ![k] = old]
    BY <2>1
  <2> HIDE DEF old
  <2>4. /\ entries' \in [DOMAIN entries -> Entry] /\ DOMAIN entries' = DOMAIN entries
        /\ \A x \in DOMAIN entries : entries'[x].done = entries[x].done /\ entries'[x].ok = entries[x].ok
    BY <2>2, <2>3 DEF AuthTypes
  <2>5. AuthTypes'
    BY <1>1, <1>5, <2>4 DEF VerdictExpires, AuthTypes
  <2>6. \A x : InFlight(x)' <=> InFlight(x)
    BY <2>4 DEF InFlight, Known
  <2>7. FlightInv'
    BY <1>3, <2>4, <2>6 DEF FlightInv, SingleFlight
  <2>8. VerdictInv'
    BY <1>1, <1>3, <2>4 DEF VerdictInv
  <2>9. BoundInv'
    BY <2>4 DEF BoundInv, CacheBounded
  <2> QED
    BY <1>2, <2>5, <2>7, <2>8, <2>9
<1>6. UNCHANGED entries \/ VerdictExpires
  BY DEF SettingsExpire, Rotate
<1> QED
  BY <1>4, <1>5, <1>6

LEMMA StepAuthInv == AuthInv /\ [AuthNext]_authVars => AuthInv'
<1> SUFFICES ASSUME AuthInv, [AuthNext]_authVars PROVE AuthInv'
  OBVIOUS
<1>1. CASE UNCHANGED authVars
  <2>1. UNCHANGED <<stored, cached, entries, gate, client, rotations>>
    BY <1>1 DEF authVars
  <2>2. /\ \A d \in Clients : (Working(d)' <=> Working(d)) /\ KeyOf(d)' = KeyOf(d)
        /\ \A pw, hash : Key(pw, hash)' = Key(pw, hash)
        /\ \A k : InFlight(k)' <=> InFlight(k)
        /\ Deriving' = Deriving
    BY <2>1 DEF Working, KeyOf, Key, InFlight, Known, Deriving
  <2> QED
    BY <2>1, <2>2 DEF AuthInv, AuthTypes, GateInv, FlightInv, SingleFlight, VerdictInv, BoundInv, CacheBounded
<1>2. CASE AuthNext
  BY <1>2, AskSteps, QuickSteps, MissStep, DeriveSteps, LandStep, OutsideSteps DEF AuthNext
<1> QED
  BY <1>1, <1>2

LEMMA AuthInvariant == AuthSpec => []AuthInv
  BY InitAuthInv, StepAuthInv, PTL DEF AuthSpec

-----------------------------------------------------------------------------

LEMMA AuthTyped == AuthInv => AuthTypeOK
<1> SUFFICES ASSUME AuthInv PROVE AuthTypeOK
  OBVIOUS
<1>1. gate \in 0..GateSlots
  BY DerivingFinite, AuthAssumption DEF AuthInv, GateInv
<1>2. \A k \in DOMAIN entries : entries[k] \in Entry
  BY DEF AuthInv, AuthTypes
<1>3. \A k \in DOMAIN entries : {entries[k].done, entries[k].ok, entries[k].fresh} \subseteq BOOLEAN
  BY <1>2 DEF Entry
<1> QED
  BY <1>1, <1>3 DEF AuthInv, AuthTypes, AuthTypeOK, Client, ClientAts, Passwords

\* Every variable of the credential cache keeps its type, and no more
\* derivations run than the gate has slots (deriveScrypt).
THEOREM TypeCorrect == AuthSpec => []AuthTypeOK
  BY AuthTyped, AuthInvariant, PTL

\* credentialCache.verify: however many connections carry the same credentials
\* and whatever is evicted meanwhile, one of them derives.
THEOREM OneDerivation == AuthSpec => []SingleFlight
<1>1. AuthInv => SingleFlight
  BY DEF AuthInv, FlightInv
<1> QED
  BY <1>1, AuthInvariant, PTL

\* credentialCache.verify: its answer is the one a derivation against the hash
\* that was read would give, across rotations of the password.
THEOREM AnswersTrue == AuthSpec => []VerdictTrue
<1>1. AuthInv => VerdictTrue
  BY DEF AuthInv, VerdictInv, VerdictTrue
<1> QED
  BY <1>1, AuthInvariant, PTL

\* evictLocked: the table keeps to its limit although entries in flight are
\* never evicted, as long as connections are no more than the limit.
THEOREM TableBounded == AuthSpec => []CacheBounded
<1>1. AuthInv => CacheBounded
  BY DEF AuthInv, BoundInv
<1> QED
  BY <1>1, AuthInvariant, PTL

-----------------------------------------------------------------------------
(* The listener.                                                           *)

ConnAts == InSlot \cup {"none", "accepted", "admitted", "done"}
Proofs == {"none", "client", "internal"}
Copying == {"off", "read", "write", "ended"}

Connection ==
    [at : ConnAts, local : BOOLEAN, need : BOOLEAN, proof : Proofs, plain : BOOLEAN,
     target : BOOLEAN, copy : [Sides -> Copying], chunks : 0..MaxChunks,
     on : BOOLEAN, off : BOOLEAN]

\* From when on whether to authenticate has been asked, and answered.
Asked  == {"greeting", "login", "request", "http", "dial", "reply", "relay", "forward"}
Proven == {"request", "dial", "reply", "relay", "forward"}

\* A connection by itself, while authentication is configured or is not: its
\* history goes on, it was admitted for a reason, what was asked of it has a
\* reason and an answer, and it dials once all that is past.
Good(r, configured) ==
    /\ r \in Connection
    /\ r.target => r.at \in {"reply", "relay", "forward"}
    /\ r.at # "none" => IF configured THEN r.on ELSE r.off
    /\ r.at \in InSlot \cup {"admitted"} => r.local \/ r.on
    /\ r.at \in Asked => r.need \/ r.off
    /\ r.at \in Proven /\ r.need
       => r.proof \in (IF r.local THEN {"client", "internal"} ELSE {"client"})

InUse == {c \in Conns : conn[c].at \in InSlot}

ListenerInv ==
    /\ {authOn, external} \subseteq BOOLEAN /\ changes \in 0..MaxChanges
    /\ conn \in [Conns -> Connection]
    /\ \A c \in Conns : Good(conn[c], authOn)
    /\ slots = Cardinality(InUse) /\ slots <= MaxConnections

-----------------------------------------------------------------------------
(* Fields, one at a time.                                                  *)

LEMMA AtSet ==
    ASSUME NEW r \in Connection, NEW v \in ConnAts
    PROVE  LET q == [r EXCEPT !.at = v]
           IN /\ q \in Connection /\ q.at = v
              /\ q.local = r.local /\ q.need = r.need /\ q.proof = r.proof /\ q.plain = r.plain /\ q.target = r.target
              /\ q.copy = r.copy /\ q.chunks = r.chunks /\ q.on = r.on /\ q.off = r.off
  BY DEF Connection

LEMMA LocalSet ==
    ASSUME NEW r \in Connection, NEW v \in BOOLEAN
    PROVE  LET q == [r EXCEPT !.local = v]
           IN /\ q \in Connection /\ q.local = v
              /\ q.at = r.at /\ q.need = r.need /\ q.proof = r.proof /\ q.plain = r.plain /\ q.target = r.target
              /\ q.copy = r.copy /\ q.chunks = r.chunks /\ q.on = r.on /\ q.off = r.off
  BY DEF Connection

LEMMA NeedSet ==
    ASSUME NEW r \in Connection, NEW v \in BOOLEAN
    PROVE  LET q == [r EXCEPT !.need = v]
           IN /\ q \in Connection /\ q.need = v
              /\ q.at = r.at /\ q.local = r.local /\ q.proof = r.proof /\ q.plain = r.plain /\ q.target = r.target
              /\ q.copy = r.copy /\ q.chunks = r.chunks /\ q.on = r.on /\ q.off = r.off
  BY DEF Connection

LEMMA ProofSet ==
    ASSUME NEW r \in Connection, NEW v \in Proofs
    PROVE  LET q == [r EXCEPT !.proof = v]
           IN /\ q \in Connection /\ q.proof = v
              /\ q.at = r.at /\ q.local = r.local /\ q.need = r.need /\ q.plain = r.plain /\ q.target = r.target
              /\ q.copy = r.copy /\ q.chunks = r.chunks /\ q.on = r.on /\ q.off = r.off
  BY DEF Connection

LEMMA PlainSet ==
    ASSUME NEW r \in Connection, NEW v \in BOOLEAN
    PROVE  LET q == [r EXCEPT !.plain = v]
           IN /\ q \in Connection /\ q.plain = v
              /\ q.at = r.at /\ q.local = r.local /\ q.need = r.need /\ q.proof = r.proof /\ q.target = r.target
              /\ q.copy = r.copy /\ q.chunks = r.chunks /\ q.on = r.on /\ q.off = r.off
  BY DEF Connection

LEMMA TargetSet ==
    ASSUME NEW r \in Connection, NEW v \in BOOLEAN
    PROVE  LET q == [r EXCEPT !.target = v]
           IN /\ q \in Connection /\ q.target = v
              /\ q.at = r.at /\ q.local = r.local /\ q.need = r.need /\ q.proof = r.proof /\ q.plain = r.plain
              /\ q.copy = r.copy /\ q.chunks = r.chunks /\ q.on = r.on /\ q.off = r.off
  BY DEF Connection

LEMMA CopySet ==
    ASSUME NEW r \in Connection, NEW v \in [Sides -> Copying]
    PROVE  LET q == [r EXCEPT !.copy = v]
           IN /\ q \in Connection /\ q.copy = v
              /\ q.at = r.at /\ q.local = r.local /\ q.need = r.need /\ q.proof = r.proof /\ q.plain = r.plain
              /\ q.target = r.target /\ q.chunks = r.chunks /\ q.on = r.on /\ q.off = r.off
  BY DEF Connection

LEMMA ChunksSet ==
    ASSUME NEW r \in Connection, NEW v \in 0..MaxChunks
    PROVE  LET q == [r EXCEPT !.chunks = v]
           IN /\ q \in Connection /\ q.chunks = v
              /\ q.at = r.at /\ q.local = r.local /\ q.need = r.need /\ q.proof = r.proof /\ q.plain = r.plain
              /\ q.target = r.target /\ q.copy = r.copy /\ q.on = r.on /\ q.off = r.off
  BY DEF Connection

LEMMA OnSet ==
    ASSUME NEW r \in Connection, NEW v \in BOOLEAN
    PROVE  LET q == [r EXCEPT !.on = v]
           IN /\ q \in Connection /\ q.on = v
              /\ q.at = r.at /\ q.local = r.local /\ q.need = r.need /\ q.proof = r.proof /\ q.plain = r.plain
              /\ q.target = r.target /\ q.copy = r.copy /\ q.chunks = r.chunks /\ q.off = r.off
  BY DEF Connection

LEMMA OffSet ==
    ASSUME NEW r \in Connection, NEW v \in BOOLEAN
    PROVE  LET q == [r EXCEPT !.off = v]
           IN /\ q \in Connection /\ q.off = v
              /\ q.at = r.at /\ q.local = r.local /\ q.need = r.need /\ q.proof = r.proof /\ q.plain = r.plain
              /\ q.target = r.target /\ q.copy = r.copy /\ q.chunks = r.chunks /\ q.on = r.on
  BY DEF Connection

-----------------------------------------------------------------------------
(* One connection moves, and takes, keeps or returns its slot.             *)

LEMMA InUseFinite == IsFiniteSet(InUse) /\ Cardinality(InUse) \in Nat
<1>1. InUse \in SUBSET Conns
  BY DEF InUse
<1> QED
  BY <1>1, FS_Subset, FS_CardinalityType, ListenerAssumption

LEMMA Move ==
    ASSUME ListenerInv, NEW c \in Conns, NEW new, Set(c, new), Good(new, authOn), Settled,
           \/ slots' = slots /\ (conn[c].at \in InSlot <=> new.at \in InSlot)
           \/ slots' = slots + 1 /\ slots < MaxConnections
              /\ conn[c].at \notin InSlot /\ new.at \in InSlot
           \/ slots' = slots - 1 /\ conn[c].at \in InSlot /\ new.at \notin InSlot
    PROVE  ListenerInv'
<1>1. /\ conn' = [conn EXCEPT ![c] = new] /\ conn \in [Conns -> Connection]
      /\ new \in Connection /\ UNCHANGED <<authOn, external, changes>>
  BY DEF Set, Settled, ListenerInv, Good
<1>2. /\ conn' \in [Conns -> Connection] /\ conn'[c] = new
      /\ \A d \in Conns : d # c => conn'[d] = conn[d]
  BY <1>1
<1>3. \A d \in Conns : Good(conn[d], authOn)
  BY DEF ListenerInv
<1>4. \A d \in Conns : Good(conn'[d], authOn')
  <2>1. \A d \in Conns : Good(conn'[d], authOn)
    BY <1>2, <1>3
  <2> QED
    BY <1>1, <2>1
<1>5. slots' = Cardinality(InUse') /\ slots' <= MaxConnections
  <2>1. slots = Cardinality(InUse) /\ slots <= MaxConnections /\ MaxConnections \in Nat
    BY ListenerAssumption DEF ListenerInv
  <2>2. CASE slots' = slots /\ (conn[c].at \in InSlot <=> new.at \in InSlot)
    <3>1. InUse' = InUse
      BY <1>2, <2>2 DEF InUse
    <3> QED
      BY <2>1, <2>2, <3>1
  <2>3. CASE /\ slots' = slots + 1 /\ slots < MaxConnections
             /\ conn[c].at \notin InSlot /\ new.at \in InSlot
    <3>1. InUse' = InUse \cup {c} /\ c \notin InUse
      BY <1>2, <2>3 DEF InUse
    <3>2. Cardinality(InUse') = Cardinality(InUse) + 1
      BY <3>1, InUseFinite, FS_AddElement
    <3> QED
      BY <2>1, <2>3, <3>2, InUseFinite
  <2>4. CASE slots' = slots - 1 /\ conn[c].at \in InSlot /\ new.at \notin InSlot
    <3>1. InUse' = InUse \ {c} /\ c \in InUse
      BY <1>2, <2>4 DEF InUse
    <3>2. Cardinality(InUse') = Cardinality(InUse) - 1
      BY <3>1, InUseFinite, FS_RemoveElement
    <3> QED
      BY <2>1, <2>4, <3>2, InUseFinite
  <2> QED
    BY <2>2, <2>3, <2>4
<1> QED
  BY <1>1, <1>2, <1>4, <1>5 DEF ListenerInv

\* Moving on with nothing else changed.
LEMMA GotoGood ==
    ASSUME NEW configured, NEW r, Good(r, configured), NEW there \in ConnAts,
           r.target => there \in {"reply", "relay", "forward"},
           there # "none" => r.at # "none",
           there \in InSlot \cup {"admitted"} => r.local \/ r.on,
           there \in Asked => r.need \/ r.off,
           there \in Proven /\ r.need
           => r.proof \in (IF r.local THEN {"client", "internal"} ELSE {"client"})
    PROVE  /\ Good([r EXCEPT !.at = there], configured)
           /\ [r EXCEPT !.at = there].at = there
<1>1. r \in Connection
  BY DEF Good
<1> QED
  BY <1>1, AtSet DEF Good

LEMMA ReturnStep ==
    ASSUME ListenerInv, NEW c \in Conns, Return(c), Settled,
           conn[c].at \in InSlot, ~conn[c].target
    PROVE  ListenerInv'
<1> DEFINE new == [conn[c] EXCEPT !.at = "done"]
<1>1. Good(new, authOn) /\ new.at = "done"
  <2>1. Good(conn[c], authOn) /\ ~conn[c].target /\ conn[c].at # "none"
    BY DEF ListenerInv, InSlot
  <2>2. /\ "done" \in ConnAts /\ "done" # "none"
        /\ "done" \notin InSlot \cup {"admitted"} \cup Asked \cup Proven
    BY DEF ConnAts, InSlot, Asked, Proven
  <2> QED
    BY <2>1, <2>2, GotoGood
<1>2. Set(c, new) /\ slots' = slots - 1
  BY DEF Return
<1> HIDE DEF new
<1> QED
  BY <1>1, <1>2, Move DEF InSlot

LEMMA CloseStep ==
    ASSUME ListenerInv, NEW c \in Conns, Close(c), Settled, conn[c].at \in InSlot
    PROVE  ListenerInv'
<1> DEFINE r == conn[c]
           done == [r EXCEPT !.at = "done"]
           new == [done EXCEPT !.target = FALSE]
<1>1. r \in Connection /\ Good(r, authOn)
  BY DEF ListenerInv
<1>2. Set(c, new) /\ slots' = slots - 1
  BY DEF Close
<1> HIDE DEF r
<1>3. /\ done \in Connection /\ done.at = "done" /\ done.on = r.on /\ done.off = r.off
  BY <1>1, AtSet DEF ConnAts
<1> HIDE DEF done
<1>4. /\ new \in Connection /\ new.at = "done" /\ ~new.target
      /\ new.on = r.on /\ new.off = r.off
  BY <1>3, TargetSet
<1> HIDE DEF new
<1>5. r.at # "none"
  BY DEF r, InSlot
<1>6. Good(new, authOn)
  BY <1>1, <1>4, <1>5 DEF Good, InSlot, Asked, Proven
<1> QED
  BY <1>2, <1>4, <1>6, Move DEF InSlot

-----------------------------------------------------------------------------
(* Admission.                                                              *)

LEMMA AcceptStep ==
    ASSUME ListenerInv, NEW c \in Conns, Accept(c)
    PROVE  ListenerInv'
<1>1. PICK l \in BOOLEAN :
        Set(c, [New EXCEPT !.at = "accepted", !.local = l, !.on = authOn, !.off = ~authOn])
  BY DEF Accept
<1>2. authOn \in BOOLEAN
  BY DEF ListenerInv
<1> DEFINE r1 == [New EXCEPT !.at = "accepted"]
           r2 == [r1 EXCEPT !.local = l]
           r3 == [r2 EXCEPT !.on = authOn]
           off == ~authOn
           new == [r3 EXCEPT !.off = off]
<1>3. Set(c, new) /\ off \in BOOLEAN /\ (off = ~authOn)
  BY <1>1 DEF New
<1> HIDE DEF off
<1>4. New \in Connection /\ ~New.target
  BY ListenerAssumption DEF New, Connection, ConnAts, Proofs, Copying
<1>5. r1 \in Connection /\ r1.at = "accepted" /\ ~r1.target
  BY <1>4, AtSet DEF ConnAts
<1> HIDE DEF r1
<1>6. r2 \in Connection /\ r2.at = "accepted" /\ ~r2.target
  BY <1>5, LocalSet
<1> HIDE DEF r2
<1>7. r3 \in Connection /\ r3.at = "accepted" /\ ~r3.target /\ r3.on = authOn
  BY <1>2, <1>6, OnSet
<1> HIDE DEF r3
<1>8. new \in Connection /\ new.at = "accepted" /\ ~new.target /\ new.on = authOn /\ new.off = off
  BY <1>3, <1>7, OffSet
<1> HIDE DEF new
<1>9. Good(new, authOn)
  BY <1>2, <1>3, <1>8 DEF Good, InSlot, Asked, Proven
<1>10. conn[c].at = "none" /\ slots' = slots /\ Settled
  BY DEF Accept, Is, Step
<1> QED
  BY <1>3, <1>8, <1>9, <1>10, Move DEF InSlot

\* What asking may answer: a yes means that authentication was, or was taken
\* to be, configured.
LEMMA AskMeans ==
    ASSUME ListenerInv, NEW a \in Asks
    PROVE  /\ a.yes \in BOOLEAN /\ a.on \in BOOLEAN
           /\ a.yes => a.on
           /\ ~a.yes => ~authOn
<1>1. authOn \in BOOLEAN
  BY DEF ListenerInv
<1>2. a = [yes |-> authOn, on |-> authOn] \/ a = [yes |-> TRUE, on |-> TRUE]
  BY DEF Asks
<1>3. CASE a = [yes |-> authOn, on |-> authOn]
  <2>1. a.yes = authOn /\ a.on = authOn
    BY <1>3
  <2> QED
    BY <1>1, <2>1
<1>4. CASE a = [yes |-> TRUE, on |-> TRUE]
  <2>1. a.yes = TRUE /\ a.on = TRUE
    BY <1>4
  <2> QED
    BY <2>1
<1> QED
  BY <1>2, <1>3, <1>4

LEMMA AdmitStep ==
    ASSUME ListenerInv, NEW c \in Conns, Admit(c)
    PROVE  ListenerInv'
<1>1. /\ conn[c].at = "accepted" /\ slots' = slots /\ Settled
      /\ Good(conn[c], authOn) /\ ~conn[c].target
  BY DEF Admit, Is, Step, ListenerInv, Good
<1>2. CASE conn[c].local /\ Goto(c, "admitted")
  <2> DEFINE new == [conn[c] EXCEPT !.at = "admitted"]
  <2>1. Good(new, authOn) /\ new.at = "admitted"
    <3>1. conn[c].at # "none" /\ conn[c].local
      BY <1>1, <1>2
    <3>2. "admitted" \in ConnAts /\ "admitted" # "none" /\ "admitted" \notin Asked \cup Proven
      BY DEF ConnAts, Asked, Proven
    <3> QED
      BY <1>1, <3>1, <3>2, GotoGood
  <2>2. Set(c, new)
    BY <1>2 DEF Goto
  <2> HIDE DEF new
  <2> QED
    BY <1>1, <2>1, <2>2, Move DEF InSlot
<1>3. ASSUME NEW a \in Asks,
             Set(c, [conn[c] EXCEPT !.at = IF external /\ a.yes THEN "admitted" ELSE "done",
                                    !.on = @ \/ a.on])
      PROVE  ListenerInv'
  <2> DEFINE r == conn[c]
             there == IF external /\ a.yes THEN "admitted" ELSE "done"
             moved == [r EXCEPT !.at = there]
             on == r.on \/ a.on
             new == [moved EXCEPT !.on = on]
  <2>1. r \in Connection
    BY <1>1 DEF Good
  <2>2. /\ Set(c, new)
        /\ there \in {"admitted", "done"} /\ (there = "admitted" => on) /\ on \in BOOLEAN
        /\ r.on => on
    BY <1>3, <2>1, AskMeans DEF Connection
  <2> HIDE DEF there, on
  <2>3. /\ moved \in Connection /\ moved.at = there /\ ~moved.target
        /\ moved.on = r.on /\ moved.off = r.off
    BY <1>1, <2>1, <2>2, AtSet DEF ConnAts
  <2> HIDE DEF moved
  <2>4. /\ new \in Connection /\ new.at = there /\ ~new.target /\ new.on = on /\ new.off = r.off
    BY <2>2, <2>3, OnSet
  <2> HIDE DEF new
  <2>5. Good(new, authOn)
    BY <1>1, <2>2, <2>4 DEF Good, InSlot, Asked, Proven
  <2> QED
    BY <1>1, <2>2, <2>4, <2>5, Move DEF InSlot
<1> QED
  BY <1>2, <1>3 DEF Admit

LEMMA AcquireStep ==
    ASSUME ListenerInv, NEW c \in Conns, Acquire(c)
    PROVE  ListenerInv'
<1>1. conn[c].at = "admitted" /\ Settled /\ Good(conn[c], authOn) /\ ~conn[c].target
  BY DEF Acquire, Is, ListenerInv, Good
<1>2. ASSUME NEW there \in {"sniff", "done"}, Goto(c, there),
             IF there = "sniff" THEN slots < MaxConnections /\ slots' = slots + 1 ELSE slots' = slots
      PROVE  ListenerInv'
  <2> DEFINE new == [conn[c] EXCEPT !.at = there]
  <2>1. Good(new, authOn) /\ new.at = there
    <3>1. conn[c].at # "none" /\ (conn[c].local \/ conn[c].on)
      BY <1>1 DEF Good
    <3>2. there \in ConnAts /\ there # "none" /\ there \notin Asked \cup Proven
      BY DEF ConnAts, InSlot, Asked, Proven
    <3> QED
      BY <1>1, <3>1, <3>2, GotoGood
  <2>2. Set(c, new)
    BY <1>2 DEF Goto
  <2> HIDE DEF new
  <2> QED
    BY <1>1, <1>2, <2>1, <2>2, Move DEF InSlot
<1> QED
  BY <1>2 DEF Acquire, FreeSlot

LEMMA SniffStep ==
    ASSUME ListenerInv, NEW c \in Conns, Sniff(c)
    PROVE  ListenerInv'
<1>1. conn[c].at = "sniff" /\ Settled /\ Good(conn[c], authOn) /\ ~conn[c].target
  BY DEF Sniff, Is, ListenerInv, Good
<1>2. CASE Return(c)
  BY <1>1, <1>2, ReturnStep DEF InSlot
<1>3. ASSUME NEW proto \in {"greeting", "http"}, NEW a \in Asks,
             Set(c, [conn[c] EXCEPT !.at = proto, !.need = a.yes, !.on = @ \/ a.on]),
             slots' = slots
      PROVE  ListenerInv'
  <2> DEFINE r == conn[c]
             moved == [r EXCEPT !.at = proto]
             asked == [moved EXCEPT !.need = a.yes]
             on == r.on \/ a.on
             new == [asked EXCEPT !.on = on]
  <2>1. r \in Connection /\ ~r.target /\ on \in BOOLEAN /\ (r.on => on)
    BY <1>1, AskMeans DEF Good, Connection
  <2>2. Set(c, new)
    BY <1>3, <2>1 DEF Connection
  <2> HIDE DEF on
  <2>3. /\ moved \in Connection /\ moved.at = proto /\ ~moved.target /\ moved.local = r.local
        /\ moved.on = r.on /\ moved.off = r.off
    <3>1. proto \in ConnAts
      BY DEF ConnAts, InSlot
    <3> HIDE DEF r
    <3> QED
      BY <2>1, <3>1, AtSet
  <2> HIDE DEF moved
  <2>4. /\ asked \in Connection /\ asked.at = proto /\ ~asked.target /\ asked.local = r.local
        /\ asked.on = r.on /\ asked.off = r.off /\ asked.need = a.yes
    BY <2>3, AskMeans, NeedSet
  <2> HIDE DEF asked
  <2>5. /\ new \in Connection /\ new.at = proto /\ ~new.target /\ new.local = r.local
        /\ new.on = on /\ new.off = r.off /\ new.need = a.yes
    BY <2>1, <2>4, OnSet
  <2> HIDE DEF new
  <2>6. Good(new, authOn)
    BY <1>1, <2>1, <2>5, AskMeans DEF Good, InSlot, Asked, Proven
  <2> QED
    BY <1>1, <1>3, <2>2, <2>5, <2>6, Move DEF InSlot
<1> QED
  BY <1>2, <1>3 DEF Sniff

-----------------------------------------------------------------------------
(* Handshakes.                                                             *)

\* On to the next step of a handshake, in the slot.
LEMMA GotoStep ==
    ASSUME ListenerInv, NEW c \in Conns, NEW there \in {"login", "request", "dial"}, Goto(c, there),
           Settled, UNCHANGED slots, conn[c].at \in {"greeting", "request"},
           there = "request" => ~conn[c].need, there = "dial" => conn[c].at = "request"
    PROVE  ListenerInv'
<1> DEFINE new == [conn[c] EXCEPT !.at = there]
<1>1. Good(conn[c], authOn) /\ ~conn[c].target
  BY DEF ListenerInv, Good
<1>2. /\ conn[c].at # "none" /\ (conn[c].local \/ conn[c].on) /\ (conn[c].need \/ conn[c].off)
      /\ (there \in Proven /\ conn[c].need
          => conn[c].proof \in (IF conn[c].local THEN {"client", "internal"} ELSE {"client"}))
  BY <1>1 DEF Good, InSlot, Asked, Proven
<1>3. there \in ConnAts /\ there \in InSlot /\ there # "none"
  BY DEF ConnAts, InSlot
<1>4. Good(new, authOn) /\ new.at = there
  BY <1>1, <1>2, <1>3, GotoGood
<1>5. Set(c, new)
  BY DEF Goto
<1> HIDE DEF new
<1> QED
  BY <1>3, <1>4, <1>5, Move DEF InSlot

LEMMA ReadingSteps ==
    ASSUME ListenerInv, NEW c \in Conns, Greeting(c) \/ SocksRequest(c)
    PROVE  ListenerInv'
<1>1. /\ conn[c].at \in {"greeting", "request"} /\ Settled /\ ~conn[c].target
      /\ Good(conn[c], authOn)
  BY DEF Greeting, SocksRequest, Is, ListenerInv, Good
<1>2. CASE Return(c)
  BY <1>1, <1>2, ReturnStep DEF InSlot
<1>3. ASSUME NEW there \in {"login", "request", "dial"}, Goto(c, there), UNCHANGED slots,
             there = "request" => ~conn[c].need, there = "dial" => conn[c].at = "request"
      PROVE  ListenerInv'
  BY <1>1, <1>3, GotoStep
<1>4. conn[c].need \in BOOLEAN
  BY <1>1 DEF Good, Connection
<1>5. CASE Greeting(c)
  BY <1>2, <1>3, <1>4, <1>5 DEF Greeting
<1>6. CASE SocksRequest(c)
  BY <1>2, <1>3, <1>6 DEF SocksRequest, Is
<1> QED
  BY <1>5, <1>6

LEMMA SocksAuthStep ==
    ASSUME ListenerInv, NEW c \in Conns, SocksAuth(c)
    PROVE  ListenerInv'
<1>1. /\ conn[c].at = "login" /\ Settled /\ ~conn[c].target
      /\ Good(conn[c], authOn)
  BY DEF SocksAuth, Is, ListenerInv, Good
<1>2. CASE Return(c)
  BY <1>1, <1>2, ReturnStep DEF InSlot
<1>3. ASSUME NEW proof \in AcceptedFrom(c), UNCHANGED slots,
             Set(c, [conn[c] EXCEPT !.at = "request", !.proof = proof])
      PROVE  ListenerInv'
  <2> DEFINE r == conn[c]
             moved == [r EXCEPT !.at = "request"]
             new == [moved EXCEPT !.proof = proof]
  <2>1. r \in Connection /\ proof \in Proofs
    BY <1>1, <1>3 DEF Good, AcceptedFrom, Proofs
  <2>2. Set(c, new)
    BY <1>3
  <2>3. proof \in (IF r.local THEN {"client", "internal"} ELSE {"client"})
    BY <1>3 DEF AcceptedFrom
  <2>4. /\ moved \in Connection /\ moved.at = "request" /\ ~moved.target
        /\ moved.local = r.local /\ moved.need = r.need /\ moved.on = r.on /\ moved.off = r.off
    BY <1>1, <2>1, AtSet DEF ConnAts, InSlot
  <2> HIDE DEF moved
  <2>5. /\ new \in Connection /\ new.at = "request" /\ ~new.target /\ new.proof = proof
        /\ new.local = r.local /\ new.need = r.need /\ new.on = r.on /\ new.off = r.off
    BY <2>1, <2>4, ProofSet
  <2> HIDE DEF new
  <2>6. Good(new, authOn)
    BY <1>1, <2>3, <2>5 DEF Good, InSlot, Asked, Proven
  <2> QED
    BY <1>1, <1>3, <2>2, <2>5, <2>6, Move DEF InSlot
<1> QED
  BY <1>2, <1>3 DEF SocksAuth

LEMMA ServeHTTPStep ==
    ASSUME ListenerInv, NEW c \in Conns, ServeHTTP(c)
    PROVE  ListenerInv'
<1>1. /\ conn[c].at = "http" /\ Settled /\ ~conn[c].target
      /\ Good(conn[c], authOn)
  BY DEF ServeHTTP, Is, ListenerInv, Good
<1>2. CASE Return(c)
  BY <1>1, <1>2, ReturnStep DEF InSlot
<1>3. ASSUME NEW plain \in BOOLEAN, UNCHANGED slots,
             NEW proof \in IF conn[c].need THEN AcceptedFrom(c) ELSE {"none"},
             Set(c, [conn[c] EXCEPT !.at = "dial", !.plain = plain, !.proof = proof])
      PROVE  ListenerInv'
  <2> DEFINE r == conn[c]
             moved == [r EXCEPT !.at = "dial"]
             read == [moved EXCEPT !.plain = plain]
             new == [read EXCEPT !.proof = proof]
  <2>1. r \in Connection /\ proof \in Proofs
    BY <1>1, <1>3 DEF Good, AcceptedFrom, Proofs
  <2>2. Set(c, new)
    BY <1>3
  <2>3. r.need => proof \in (IF r.local THEN {"client", "internal"} ELSE {"client"})
    BY <1>3 DEF AcceptedFrom
  <2>4. /\ moved \in Connection /\ moved.at = "dial" /\ ~moved.target
        /\ moved.local = r.local /\ moved.need = r.need /\ moved.on = r.on /\ moved.off = r.off
    BY <1>1, <2>1, AtSet DEF ConnAts, InSlot
  <2> HIDE DEF moved
  <2>5. /\ read \in Connection /\ read.at = "dial" /\ ~read.target
        /\ read.local = r.local /\ read.need = r.need /\ read.on = r.on /\ read.off = r.off
    BY <2>4, PlainSet
  <2> HIDE DEF read
  <2>6. /\ new \in Connection /\ new.at = "dial" /\ ~new.target /\ new.proof = proof
        /\ new.local = r.local /\ new.need = r.need /\ new.on = r.on /\ new.off = r.off
    BY <2>1, <2>5, ProofSet
  <2> HIDE DEF new
  <2>7. Good(new, authOn)
    BY <1>1, <2>3, <2>6 DEF Good, InSlot, Asked, Proven
  <2> QED
    BY <1>1, <1>3, <2>2, <2>6, <2>7, Move DEF InSlot
<1> QED
  BY <1>2, <1>3 DEF ServeHTTP

LEMMA DialStep ==
    ASSUME ListenerInv, NEW c \in Conns, Dial(c)
    PROVE  ListenerInv'
<1>1. /\ conn[c].at = "dial" /\ Settled /\ ~conn[c].target
      /\ Good(conn[c], authOn)
  BY DEF Dial, Is, ListenerInv, Good
<1>2. CASE Return(c)
  BY <1>1, <1>2, ReturnStep DEF InSlot
<1>3. ASSUME UNCHANGED slots,
             Set(c, [conn[c] EXCEPT !.at = IF conn[c].plain THEN "forward" ELSE "reply",
                                    !.target = TRUE])
      PROVE  ListenerInv'
  <2> DEFINE r == conn[c]
             there == IF r.plain THEN "forward" ELSE "reply"
             moved == [r EXCEPT !.at = there]
             new == [moved EXCEPT !.target = TRUE]
  <2>1. r \in Connection
    BY <1>1 DEF Good
  <2>2. Set(c, new) /\ there \in {"forward", "reply"}
    BY <1>3
  <2> HIDE DEF there
  <2>3. /\ moved \in Connection /\ moved.at = there /\ moved.proof = r.proof
        /\ moved.local = r.local /\ moved.need = r.need /\ moved.on = r.on /\ moved.off = r.off
    <3>1. there \in ConnAts
      BY <2>2 DEF ConnAts, InSlot
    <3> HIDE DEF r
    <3> QED
      BY <2>1, <3>1, AtSet
  <2> HIDE DEF moved
  <2>4. /\ new \in Connection /\ new.at = there /\ new.proof = r.proof
        /\ new.local = r.local /\ new.need = r.need /\ new.on = r.on /\ new.off = r.off
    BY <2>3, TargetSet
  <2> HIDE DEF new
  <2>5. Good(new, authOn)
    BY <1>1, <2>2, <2>4 DEF Good, InSlot, Asked, Proven
  <2> QED
    BY <1>1, <1>3, <2>2, <2>4, <2>5, Move DEF InSlot
<1> QED
  BY <1>2, <1>3 DEF Dial

LEMMA ClosingSteps ==
    ASSUME ListenerInv, NEW c \in Conns, ReplyFails(c) \/ Forward(c) \/ RelayReturns(c)
    PROVE  ListenerInv'
  BY CloseStep DEF ReplyFails, Forward, RelayReturns, Is, InSlot

-----------------------------------------------------------------------------
(* The relay, the end, and the settings.                                   *)

\* What the relay's goroutines touch is nothing the invariant speaks of.
LEMMA CopyKeeps ==
    ASSUME ListenerInv, NEW c \in Conns, NEW new \in Connection, Set(c, new), Step,
           new.at = conn[c].at, new.local = conn[c].local, new.need = conn[c].need,
           new.proof = conn[c].proof, new.target = conn[c].target,
           new.on = conn[c].on, new.off = conn[c].off
    PROVE  ListenerInv'
<1>1. Good(conn[c], authOn)
  BY DEF ListenerInv
<1>2. Good(new, authOn)
  BY <1>1 DEF Good
<1> QED
  BY <1>2, Move DEF Step

LEMMA CopySteps ==
    ASSUME ListenerInv, NEW c \in Conns, NEW s \in Sides,
           ReadChunk(c, s) \/ Written(c, s) \/ IdleRead(c, s) \/ SideEnds(c, s)
    PROVE  ListenerInv'
<1> DEFINE r == conn[c]
<1>1. r \in Connection
  BY DEF ListenerInv
<1>2. ASSUME NEW state \in Copying
      PROVE  LET q == Copies(c, s, state)
             IN /\ q \in Connection /\ q.at = r.at /\ q.local = r.local /\ q.need = r.need
                /\ q.proof = r.proof /\ q.target = r.target /\ q.on = r.on /\ q.off = r.off
                /\ q.chunks = r.chunks
  <2> DEFINE both == [r.copy EXCEPT ![s] = state]
  <2>1. both \in [Sides -> Copying]
    BY <1>1 DEF Connection
  <2>2. Copies(c, s, state) = [r EXCEPT !.copy = both]
    BY DEF Copies
  <2> HIDE DEF both, r
  <2> QED
    BY <1>1, <2>1, <2>2, CopySet
<1>3. Step
  BY DEF ReadChunk, Written, IdleRead, SideEnds
<1>4. ASSUME NEW state \in Copying, Set(c, Copies(c, s, state)) PROVE ListenerInv'
  BY <1>2, <1>3, <1>4, CopyKeeps
<1>5. CASE ReadChunk(c, s)
  <2> DEFINE q == Copies(c, s, "write")
             n == q.chunks + 1
             new == [q EXCEPT !.chunks = n]
  <2>1. /\ q \in Connection /\ q.at = r.at /\ q.local = r.local /\ q.need = r.need
        /\ q.proof = r.proof /\ q.target = r.target /\ q.on = r.on /\ q.off = r.off
        /\ q.chunks = r.chunks
    BY <1>2 DEF Copying
  <2>2. n \in 0..MaxChunks
    BY <1>1, <1>5, <2>1, ListenerAssumption DEF ReadChunk, Connection
  <2>3. Set(c, new)
    BY <1>5 DEF ReadChunk
  <2> HIDE DEF q, n
  <2>4. /\ new \in Connection /\ new.at = r.at /\ new.local = r.local /\ new.need = r.need
        /\ new.proof = r.proof /\ new.target = r.target /\ new.on = r.on /\ new.off = r.off
    BY <2>1, <2>2, ChunksSet
  <2> HIDE DEF new
  <2> QED
    BY <1>3, <2>3, <2>4, CopyKeeps
<1>6. CASE Written(c, s)
  BY <1>4, <1>6 DEF Written, Copying
<1>7. CASE IdleRead(c, s)
  BY <1>4, <1>7 DEF IdleRead, Copying
<1>8. CASE SideEnds(c, s)
  BY <1>4, <1>8 DEF SideEnds, Copying
<1> QED
  BY <1>5, <1>6, <1>7, <1>8

LEMMA ReplyStep ==
    ASSUME ListenerInv, NEW c \in Conns, Reply(c)
    PROVE  ListenerInv'
<1> DEFINE r == conn[c]
           copies == [s \in Sides |-> "read"]
           moved == [r EXCEPT !.at = "relay"]
           new == [moved EXCEPT !.copy = copies]
<1>1. r \in Connection /\ Good(r, authOn) /\ r.at = "reply" /\ Set(c, new) /\ Step
  BY DEF Reply, ListenerInv, Is
<1>2. copies \in [Sides -> Copying]
  BY DEF Copying
<1> HIDE DEF copies
<1>3. /\ moved \in Connection /\ moved.at = "relay" /\ moved.proof = r.proof
      /\ moved.local = r.local /\ moved.need = r.need /\ moved.on = r.on /\ moved.off = r.off
  BY <1>1, AtSet DEF ConnAts, InSlot
<1> HIDE DEF moved
<1>4. /\ new \in Connection /\ new.at = "relay" /\ new.proof = r.proof
      /\ new.local = r.local /\ new.need = r.need /\ new.on = r.on /\ new.off = r.off
  BY <1>2, <1>3, CopySet
<1> HIDE DEF new
<1>5. Good(new, authOn)
  BY <1>1, <1>4 DEF Good, InSlot, Asked, Proven
<1> QED
  BY <1>1, <1>4, <1>5, Move DEF InSlot, Step

LEMMA NewGood == \A configured \in BOOLEAN : Good(New, configured)
<1>1. New \in Connection
  BY ListenerAssumption DEF New, Connection, ConnAts, Proofs, Copying
<1> QED
  BY <1>1 DEF Good, New, InSlot, Asked, Proven

LEMMA GoneStep ==
    ASSUME ListenerInv, NEW c \in Conns, Gone(c)
    PROVE  ListenerInv'
<1>1. Good(New, authOn) /\ New.at = "none"
  BY NewGood DEF ListenerInv, New
<1>2. conn[c].at = "done" /\ Set(c, New) /\ Step
  BY DEF Gone, Is
<1> QED
  BY <1>1, <1>2, Move DEF Step, InSlot

\* Every connection under way remembers what the settings now say.
LEMMA ChangeStep ==
    ASSUME ListenerInv, Change
    PROVE  ListenerInv'
<1>1. PICK a \in BOOLEAN, e \in BOOLEAN : authOn' = a /\ external' = e
  BY DEF Change
<1> DEFINE next(c) == IF conn[c].at = "none" THEN New
                      ELSE [conn[c] EXCEPT !.on = @ \/ authOn', !.off = @ \/ ~authOn']
<1>2. conn' = [c \in Conns |-> next(c)]
  BY DEF Change, Is
<1>3. ASSUME NEW c \in Conns PROVE Good(next(c), authOn') /\ next(c).at = conn[c].at
  <2>1. CASE conn[c].at = "none"
    BY <1>1, <2>1, NewGood DEF New
  <2>2. CASE conn[c].at # "none"
    <3> DEFINE r == conn[c]
               on == r.on \/ authOn'
               off == r.off \/ ~authOn'
               told == [r EXCEPT !.on = on]
               new == [told EXCEPT !.off = off]
    <3>1. r \in Connection /\ Good(r, authOn)
      BY DEF ListenerInv
    <3>2. /\ on \in BOOLEAN /\ off \in BOOLEAN /\ (r.on => on) /\ (r.off => off)
          /\ (IF authOn' THEN on ELSE off)
      BY <1>1, <3>1 DEF Connection
    <3>3. next(c) = new
      BY <2>2, <3>1 DEF Connection
    <3> HIDE DEF on, off, r
    <3>4. /\ told \in Connection /\ told.at = r.at /\ told.local = r.local /\ told.need = r.need
          /\ told.proof = r.proof /\ told.target = r.target /\ told.on = on /\ told.off = r.off
      BY <3>1, <3>2, OnSet
    <3> HIDE DEF told
    <3>5. /\ new \in Connection /\ new.at = r.at /\ new.local = r.local /\ new.need = r.need
          /\ new.proof = r.proof /\ new.target = r.target /\ new.on = on /\ new.off = off
      BY <3>2, <3>4, OffSet
    <3> HIDE DEF new
    <3>6. Good(new, authOn')
      BY <3>1, <3>2, <3>5 DEF Good
    <3> QED
      BY <3>3, <3>5, <3>6 DEF r
  <2> QED
    BY <2>1, <2>2
<1> HIDE DEF next
<1>4. conn' \in [Conns -> Connection] /\ \A c \in Conns : conn'[c] = next(c)
  BY <1>2, <1>3 DEF Good
<1>5. InUse' = InUse
  BY <1>3, <1>4 DEF InUse
<1>6. /\ {authOn', external'} \subseteq BOOLEAN /\ changes' \in 0..MaxChanges
      /\ slots' = slots
  <2>1. changes \in 0..MaxChanges /\ changes < MaxChanges /\ changes' = changes + 1
    BY DEF Change, ListenerInv
  <2>2. changes' \in 0..MaxChanges
    BY <2>1, ListenerAssumption
  <2> QED
    BY <1>1, <2>2 DEF Change
<1>7. \A c \in Conns : Good(conn'[c], authOn')
  BY <1>3, <1>4
<1> QED
  BY <1>4, <1>5, <1>6, <1>7 DEF ListenerInv

-----------------------------------------------------------------------------

LEMMA InitListenerInv == ListenerInit => ListenerInv
<1> SUFFICES ASSUME ListenerInit PROVE ListenerInv
  OBVIOUS
<1>1. \A c \in Conns : conn[c] = New
  BY DEF ListenerInit
<1>2. authOn \in BOOLEAN /\ external \in BOOLEAN
  BY DEF ListenerInit
<1>3. \A c \in Conns : Good(conn[c], authOn)
  BY <1>1, <1>2, NewGood
<1>4. conn \in [Conns -> Connection]
  BY <1>1, <1>3 DEF ListenerInit, Good
<1>5. InUse = {}
  BY <1>1 DEF InUse, New, InSlot
<1>6. slots = Cardinality(InUse) /\ slots <= MaxConnections
  BY <1>5, FS_EmptySet, ListenerAssumption DEF ListenerInit
<1> QED
  BY <1>2, <1>3, <1>4, <1>6, ListenerAssumption DEF ListenerInv, ListenerInit

LEMMA StepListenerInv == ListenerInv /\ [ListenerNext]_listenerVars => ListenerInv'
<1> SUFFICES ASSUME ListenerInv, [ListenerNext]_listenerVars PROVE ListenerInv'
  OBVIOUS
<1>1. CASE UNCHANGED listenerVars
  <2>1. InUse' = InUse /\ UNCHANGED <<conn, slots, authOn, external, changes>>
    BY <1>1 DEF listenerVars, InUse
  <2> QED
    BY <2>1 DEF ListenerInv
<1>2. CASE ListenerNext
  BY <1>2, AcceptStep, AdmitStep, AcquireStep, SniffStep, ReadingSteps, SocksAuthStep,
     ServeHTTPStep, DialStep, ClosingSteps, CopySteps, ReplyStep, GoneStep, ChangeStep
     DEF ListenerNext
<1> QED
  BY <1>1, <1>2

LEMMA ListenerInvariant == ListenerSpec => []ListenerInv
  BY InitListenerInv, StepListenerInv, PTL DEF ListenerSpec

-----------------------------------------------------------------------------

LEMMA ListenerTyped == ListenerInv => ListenerTypeOK
<1> SUFFICES ASSUME ListenerInv PROVE ListenerTypeOK
  OBVIOUS
<1>1. slots \in 0..Cardinality(Conns)
  <2>1. InUse \subseteq Conns
    BY DEF InUse
  <2>2. Cardinality(InUse) <= Cardinality(Conns) /\ IsFiniteSet(InUse)
    BY <2>1, ListenerAssumption, FS_Subset
  <2>3. Cardinality(InUse) \in Nat /\ Cardinality(Conns) \in Nat
    BY <2>2, ListenerAssumption, FS_CardinalityType
  <2> QED
    BY <2>2, <2>3 DEF ListenerInv
<1>2. \A c \in Conns : conn[c] \in Connection
  BY DEF ListenerInv
<1> QED
  BY <1>1, <1>2 DEF ListenerInv, ListenerTypeOK, Connection, ConnAts, Proofs, Copying

\* Gateway.handle: whichever way connections end, no more slots are taken than
\* there are, each by a connection at work, and no connection to a target
\* outlives its handler.
THEOREM SlotsReturned == ListenerSpec => []NothingLeaks
<1>1. ListenerInv => NothingLeaks
  BY DEF ListenerInv, NothingLeaks, Good, InUse, InSlot
<1> QED
  BY <1>1, ListenerInvariant, PTL

\* allowClient, serveSOCKS5 and serveHTTP: what is dialled was authenticated,
\* an external client by the configured credentials, unless authentication was
\* off meanwhile, however the settings change and reading them fails.
THEOREM TrafficAuthenticated == ListenerSpec => []RelayAuthenticated
<1>1. ListenerInv => RelayAuthenticated
  <2> SUFFICES ASSUME ListenerInv, NEW c \in Conns, conn[c].target
      PROVE  \/ conn[c].proof \in (IF conn[c].local THEN {"client", "internal"} ELSE {"client"})
             \/ conn[c].off /\ (conn[c].local \/ conn[c].on)
    BY DEF RelayAuthenticated
  <2>1. Good(conn[c], authOn) /\ conn[c].at \in {"reply", "relay", "forward"}
    BY DEF ListenerInv, Good
  <2> QED
    BY <2>1 DEF Good, InSlot, Asked, Proven
<1> QED
  BY <1>1, ListenerInvariant, PTL
=============================================================================
