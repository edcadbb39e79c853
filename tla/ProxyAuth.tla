------------------------------ MODULE ProxyAuth ------------------------------
(***************************************************************************)
(* Proxy credentials without a database read and a derivation for every    *)
(* connection: the settings read at most once per interval, the table of   *)
(* verdicts, the one derivation per password and hash that connections     *)
(* wait for, and the gate that bounds derivations (security/proxyauth.go,  *)
(* deriveScrypt in security/security.go).                                  *)
(*                                                                         *)
(* A password is the number of the hash it verifies against.  Time is what *)
(* has expired: the settings read, a verdict.                              *)
(***************************************************************************)
EXTENDS Naturals, FiniteSets

CONSTANTS Clients,       \* connections at once
          Secrets,       \* passwords, and the hashes made from them
          CacheMax,      \* credentialCacheMax
          GateSlots,     \* scryptConcurrency
          MaxRotations,  \* bound on changes of the stored credentials
          Unset          \* no user name or no password hash

ASSUME AuthAssumption ==
    /\ Secrets \subseteq Nat /\ Unset \notin Secrets
    /\ GateSlots \in Nat \ {0} /\ MaxRotations \in Nat
    \* More entries than connections: those in flight cannot fill the table.
    /\ IsFiniteSet(Clients) /\ CacheMax \in Nat /\ CacheMax >= Cardinality(Clients)

VARIABLES
    stored,    \* the hash in proxy_settings
    cached,    \* ProxyAuthenticator: what the last read gave, and its age
    entries,   \* credentialCache.entries: the table, by key
    gate,      \* scryptGate: the slots taken
    client,    \* per connection: where it is, its password, the hash, the answer
    rotations

authVars == <<stored, cached, entries, gate, client, rotations>>

NoRead == [hash |-> Unset, err |-> FALSE, fresh |-> FALSE]
Outsider == [at |-> "outside", pw |-> Unset, hash |-> Unset, ok |-> FALSE]

\* (fault) the stored hash is left out of the key
KeyByPassword(pw, hash) == <<pw>>

\* digest
Key(pw, hash) == <<pw, hash>>

Flying  == [done |-> FALSE, ok |-> FALSE, fresh |-> TRUE]
Landed(ok) == [done |-> TRUE, ok |-> ok, fresh |-> TRUE]

AuthInit ==
    /\ stored \in Secrets \cup {Unset} /\ cached = NoRead
    /\ entries = << >> /\ gate = 0 /\ rotations = 0
    /\ client = [c \in Clients |-> Outsider]

KeyOf(c) == Key(client[c].pw, client[c].hash)
Moves(c, there) == client' = [client EXCEPT ![c].at = there]
Answers(c, ok) == client' = [client EXCEPT ![c].at = "answered", ![c].ok = ok]

-----------------------------------------------------------------------------
(* ProxyAuthenticator                                                      *)

\* settings, whole under its lock: a fresh read is reused, an error as well.
Read == {IF cached.fresh THEN cached ELSE r :
            r \in {[hash |-> stored, err |-> FALSE, fresh |-> TRUE],
                   [hash |-> Unset,  err |-> TRUE,  fresh |-> TRUE]}}

\* Required: without it the connection is not asked for credentials.
Required(c) ==
    /\ client[c].at = "outside"
    /\ \E r \in Read :
         /\ cached' = r
         /\ IF r.err \/ r.hash # Unset THEN Moves(c, "asked") ELSE UNCHANGED client
    /\ UNCHANGED <<stored, entries, gate, rotations>>

\* Authenticate: the settings again, the user name, then the table.
Authenticate(c) ==
    /\ client[c].at = "asked"
    /\ \E r \in Read, pw \in Secrets, named \in BOOLEAN :
         /\ cached' = r
         /\ client' = [client EXCEPT ![c] =
                [at |-> IF r.err \/ r.hash = Unset \/ ~named THEN "refused" ELSE "verify",
                 pw |-> pw, hash |-> r.hash, ok |-> FALSE]]
    /\ UNCHANGED <<stored, entries, gate, rotations>>

-----------------------------------------------------------------------------
(* credentialCache.verify                                                  *)

Known(k) == k \in DOMAIN entries
InFlight(k) == Known(k) /\ ~entries[k].done

\* A fresh verdict answers.
Hit(c) ==
    /\ client[c].at = "verify"
    /\ Known(KeyOf(c)) /\ ~InFlight(KeyOf(c)) /\ entries[KeyOf(c)].fresh
    /\ Answers(c, entries[KeyOf(c)].ok)
    /\ UNCHANGED <<stored, cached, entries, gate, rotations>>

\* (fault) an entry in flight is evicted like any other
EvictableAny(keys) == keys

\* An entry in flight keeps its place.
Evictable(keys) == {k \in keys : ~InFlight(k)}

\* (fault) only the expired entries make room
KeptUnexpired ==
    {{k \in DOMAIN entries : Cardinality(DOMAIN entries) < CacheMax \/ InFlight(k) \/ entries[k].fresh}}

\* evictLocked: at the limit the expired ones go, then arbitrary ones until
\* there is room or none is left to go.
Kept ==
    LET expired == {k \in Evictable(DOMAIN entries) : ~entries[k].fresh}
        left    == DOMAIN entries \ expired
        fits(s) == Cardinality(s) < CacheMax
        go(s)   == left \ s
    IN IF fits(DOMAIN entries) THEN {DOMAIN entries}
       ELSE IF fits(left) THEN {left}
       ELSE {go(s) : s \in {s \in SUBSET Evictable(left) :
                               \/ Cardinality(go(s)) = CacheMax - 1
                               \/ s = Evictable(left) /\ ~fits(go(s))}}

\* One in flight is waited for and looked at again; a fresh verdict answers.
Answered(c) == InFlight(KeyOf(c)) \/ (Known(KeyOf(c)) /\ entries[KeyOf(c)].fresh)

\* No verdict: an entry in flight takes the place, and the derivation queues.
Miss(c) ==
    /\ client[c].at = "verify" /\ ~Answered(c)
    /\ \E keys \in Kept :
         entries' = [k \in keys \cup {KeyOf(c)} |-> IF k = KeyOf(c) THEN Flying ELSE entries[k]]
    /\ Moves(c, "queue")
    /\ UNCHANGED <<stored, cached, gate, rotations>>

\* deriveScrypt
Enter(c) ==
    /\ client[c].at = "queue" /\ gate < GateSlots
    /\ gate' = gate + 1 /\ Moves(c, "derive")
    /\ UNCHANGED <<stored, cached, entries, rotations>>

Derived(c) ==
    /\ client[c].at = "derive"
    /\ gate' = gate - 1
    /\ client' = [client EXCEPT ![c].at = "land", ![c].ok = (client[c].pw = client[c].hash)]
    /\ UNCHANGED <<stored, cached, entries, rotations>>

\* The verdict lands and those waiting look again.
Land(c) ==
    /\ client[c].at = "land"
    /\ entries' = [k \in DOMAIN entries \cup {KeyOf(c)} |->
                      IF k = KeyOf(c) THEN Landed(client[c].ok) ELSE entries[k]]
    /\ Moves(c, "answered")
    /\ UNCHANGED <<stored, cached, gate, rotations>>

Leave(c) ==
    /\ client[c].at \in {"answered", "refused"}
    /\ client' = [client EXCEPT ![c] = Outsider]
    /\ UNCHANGED <<stored, cached, entries, gate, rotations>>

-----------------------------------------------------------------------------
(* Time, and credentials saved in the console.                             *)

SettingsExpire ==
    /\ cached.fresh /\ cached' = [cached EXCEPT !.fresh = FALSE]
    /\ UNCHANGED <<stored, entries, gate, client, rotations>>

VerdictExpires ==
    /\ \E k \in DOMAIN entries :
         /\ entries[k].done /\ entries[k].fresh
         /\ entries' = [entries EXCEPT ![k].fresh = FALSE]
    /\ UNCHANGED <<stored, cached, gate, client, rotations>>

Rotate ==
    /\ rotations < MaxRotations /\ rotations' = rotations + 1
    /\ stored' \in Secrets \cup {Unset}
    /\ UNCHANGED <<cached, entries, gate, client>>

AuthNext ==
    \/ \E c \in Clients :
         \/ Required(c) \/ Authenticate(c) \/ Hit(c) \/ Miss(c)
         \/ Enter(c) \/ Derived(c) \/ Land(c) \/ Leave(c)
    \/ SettingsExpire
    \/ VerdictExpires
    \/ Rotate

AuthSpec == AuthInit /\ [][AuthNext]_authVars

-----------------------------------------------------------------------------
(* Properties.                                                             *)

Working(c) == client[c].at \in {"queue", "derive", "land"}

AuthTypeOK ==
    /\ stored \in Secrets \cup {Unset} /\ cached.hash \in Secrets \cup {Unset}
    /\ \A k \in DOMAIN entries : {entries[k].done, entries[k].ok, entries[k].fresh} \subseteq BOOLEAN
    /\ gate \in 0..GateSlots /\ rotations \in 0..MaxRotations
    /\ \A c \in Clients :
         client[c].at \in {"outside", "asked", "verify", "queue", "derive", "land", "answered", "refused"}

\* verify: however many connections carry the same credentials, whatever is
\* evicted meanwhile, one of them derives and the others find its entry.
SingleFlight ==
    \A c \in Clients :
        Working(c) => /\ InFlight(KeyOf(c))
                      /\ \A d \in Clients : Working(d) /\ KeyOf(d) = KeyOf(c) => d = c

\* The comment on credentialTTL: a verdict, from the table or not, says what a
\* derivation would say of the hash read, across rotations of the password; a
\* cached no masks nothing either.
VerdictTrue ==
    \A c \in Clients :
        client[c].at = "answered" => client[c].ok = (client[c].pw = client[c].hash)

\* evictLocked keeps the table under its limit, though entries in flight stay.
CacheBounded == Cardinality(DOMAIN entries) <= CacheMax
=============================================================================
