---------------------------- MODULE ProxyListener ----------------------------
(***************************************************************************)
(* A client connection to the proxy port, from accept to close             *)
(* (internal/proxy): the exposure check, the slot, the first byte, the     *)
(* SOCKS5 and HTTP handshakes with the authentication the settings ask     *)
(* for, the dial, and the relay with its two copying goroutines.           *)
(*                                                                         *)
(* What a client sends is a choice; the settings may change and a read of  *)
(* them may fail (ProxyAuthenticator.Required then answers yes) while a    *)
(* connection is under way.                                                *)
(***************************************************************************)
EXTENDS Naturals, FiniteSets

CONSTANTS Conns,           \* connections at once
          MaxConnections,  \* slots
          MaxChunks,       \* bound on the data relayed on one connection
          MaxChanges       \* bound on changes of the settings

ASSUME ListenerAssumption ==
    /\ IsFiniteSet(Conns)
    /\ MaxConnections \in Nat \ {0} /\ MaxChunks \in Nat /\ MaxChanges \in Nat

VARIABLES
    conn,     \* per connection: see New
    slots,    \* Gateway.sem
    authOn,   \* a proxy user name and password are configured
    external, \* proxy_external_access
    changes

listenerVars == <<conn, slots, authOn, external, changes>>

Sides == {"up", "down"}

\* local: a loopback client.  need: authentication was asked for.  proof: the
\* credentials it gave.  plain: an HTTP request to forward.  target: the dialled
\* connection is open.  copy: the relay's goroutines.  on, off: history, whether
\* authentication was, or was taken to be, configured, or was not, meanwhile.
New == [at |-> "none", local |-> TRUE, need |-> FALSE, proof |-> "none", plain |-> FALSE,
        target |-> FALSE, copy |-> [s \in Sides |-> "off"], chunks |-> 0,
        on |-> FALSE, off |-> FALSE]

\* Where a connection holds a slot.
InSlot == {"sniff", "greeting", "login", "request", "http", "dial", "reply", "relay", "forward"}

ListenerInit ==
    /\ conn = [c \in Conns |-> New]
    /\ slots = 0 /\ changes = 0
    /\ authOn \in BOOLEAN /\ external \in BOOLEAN

Is(c, there) == conn[c].at = there
Set(c, r) == conn' = [conn EXCEPT ![c] = r]
Goto(c, there) == Set(c, [conn[c] EXCEPT !.at = there])
Settled == UNCHANGED <<authOn, external, changes>>
Step == Settled /\ UNCHANGED slots

\* The handler returns: its deferred calls close the client and free the slot.
Return(c) ==
    /\ slots' = slots - 1
    /\ Set(c, [conn[c] EXCEPT !.at = "done"])

\* Every handler that has the target open closes it.
Close(c) ==
    /\ slots' = slots - 1
    /\ Set(c, [conn[c] EXCEPT !.at = "done", !.target = FALSE])

\* authEnabled, through Required: a failed read is a yes.
Asks == {[yes |-> authOn, on |-> authOn], [yes |-> TRUE, on |-> TRUE]}

-----------------------------------------------------------------------------
(* Admission.                                                              *)

Accept(c) ==
    /\ Is(c, "none")
    /\ \E l \in BOOLEAN :
         Set(c, [New EXCEPT !.at = "accepted", !.local = l, !.on = authOn, !.off = ~authOn])
    /\ Step

\* allowClient
Admit(c) ==
    /\ Is(c, "accepted")
    /\ \/ conn[c].local /\ Goto(c, "admitted")
       \/ /\ ~conn[c].local
          /\ \E a \in Asks :
               Set(c, [conn[c] EXCEPT !.at = IF external /\ a.yes THEN "admitted" ELSE "done",
                                      !.on = @ \/ a.on])
    /\ Step

\* The slot is taken if there is one, never waited for.
FreeSlot == slots < MaxConnections

Acquire(c) ==
    /\ Is(c, "admitted")
    /\ IF FreeSlot THEN Goto(c, "sniff") /\ slots' = slots + 1
                   ELSE Goto(c, "done") /\ UNCHANGED slots
    /\ Settled

\* The first byte, or none within the deadline; whether to authenticate is
\* asked again.
Sniff(c) ==
    /\ Is(c, "sniff")
    /\ \/ \E proto \in {"greeting", "http"}, a \in Asks :
            /\ Set(c, [conn[c] EXCEPT !.at = proto, !.need = a.yes, !.on = @ \/ a.on])
            /\ UNCHANGED slots
       \/ Return(c)
    /\ Settled

-----------------------------------------------------------------------------
(* Handshakes.  Each read or write may fail: the handler returns.          *)

\* (fault) the health checker's credentials are good from anywhere
AcceptedFromAnywhere(c) == {"client", "internal"}

\* authenticate: the health checker's credentials, from loopback only, or the
\* configured ones.
AcceptedFrom(c) == IF conn[c].local THEN {"client", "internal"} ELSE {"client"}

\* serveSOCKS5: a client that must authenticate has to offer it.
Greeting(c) ==
    /\ Is(c, "greeting")
    /\ \/ Goto(c, IF conn[c].need THEN "login" ELSE "request") /\ UNCHANGED slots
       \/ Return(c)
    /\ Settled

SocksAuth(c) ==
    /\ Is(c, "login")
    /\ \/ \E p \in AcceptedFrom(c) :
            Set(c, [conn[c] EXCEPT !.at = "request", !.proof = p]) /\ UNCHANGED slots
       \/ Return(c)
    /\ Settled

\* CONNECT and a well-formed address, or a reply that says no.
SocksRequest(c) ==
    /\ Is(c, "request")
    /\ \/ Goto(c, "dial") /\ UNCHANGED slots
       \/ Return(c)
    /\ Settled

\* serveHTTP: 407 without the right credentials; CONNECT, or a request to
\* forward.
ServeHTTP(c) ==
    /\ Is(c, "http")
    /\ \/ \E plain \in BOOLEAN, p \in IF conn[c].need THEN AcceptedFrom(c) ELSE {"none"} :
            /\ Set(c, [conn[c] EXCEPT !.at = "dial", !.plain = plain, !.proof = p])
            /\ UNCHANGED slots
       \/ Return(c)
    /\ Settled

\* Dial binds the socket to the tunnel's device; it may fail.
Dial(c) ==
    /\ Is(c, "dial")
    /\ \/ /\ Set(c, [conn[c] EXCEPT !.at = IF conn[c].plain THEN "forward" ELSE "reply",
                                    !.target = TRUE])
          /\ UNCHANGED slots
       \/ Return(c)
    /\ Settled

\* (fault) the handler just returns
ReplyFailsOnly(c) == Is(c, "reply") /\ Return(c) /\ Settled

\* The success reply cannot be written.
ReplyFails(c) == Is(c, "reply") /\ Close(c) /\ Settled

Reply(c) ==
    /\ Is(c, "reply")
    /\ Set(c, [conn[c] EXCEPT !.at = "relay", !.copy = [s \in Sides |-> "read"]])
    /\ Step

\* httpForward: the request, then what the target sends until it ends; there
\* is no idle limit.
Forward(c) == Is(c, "forward") /\ Close(c) /\ Settled

-----------------------------------------------------------------------------
(* relay: one goroutine per direction; the first to end closes both.       *)

Copier(c, s, state) == conn[c].copy[s] = state
Copies(c, s, state) == [conn[c] EXCEPT !.copy[s] = state]

\* A chunk is read; the deadline is renewed before the next read of this side.
ReadChunk(c, s) ==
    /\ Copier(c, s, "read") /\ conn[c].target /\ conn[c].chunks < MaxChunks
    /\ Set(c, [Copies(c, s, "write") EXCEPT !.chunks = @ + 1])
    /\ Step

Written(c, s) ==
    /\ Copier(c, s, "write")
    /\ \/ conn[c].target /\ Set(c, Copies(c, s, "read"))
       \/ Set(c, Copies(c, s, "ended"))
    /\ Step

\* (fault) reads without a deadline
NoDeadline == FALSE

\* IdleTimeout is positive: every read has a deadline.
Deadline == TRUE

\* Nothing came from this side for the idle time.
IdleRead(c, s) ==
    /\ Copier(c, s, "read") /\ conn[c].target /\ Deadline
    /\ Set(c, Copies(c, s, "ended"))
    /\ Step

\* The side has closed, or failed.
SideEnds(c, s) ==
    /\ Copier(c, s, "read") /\ Set(c, Copies(c, s, "ended"))
    /\ Step

\* <-done: both connections are closed and the handler returns; the other
\* goroutine's read or write then fails.
RelayReturns(c) ==
    /\ Is(c, "relay") /\ \E s \in Sides : Copier(c, s, "ended")
    /\ Close(c) /\ Settled

\* Nothing of it is left: another connection may take its place.
Gone(c) ==
    /\ Is(c, "done") /\ \A s \in Sides : conn[c].copy[s] \in {"off", "ended"}
    /\ Set(c, New) /\ Step

-----------------------------------------------------------------------------
(* The settings, changed in the console.                                   *)

Change ==
    /\ changes < MaxChanges /\ changes' = changes + 1
    /\ \E a, e \in BOOLEAN : authOn' = a /\ external' = e
    /\ conn' = [c \in Conns |-> IF Is(c, "none") THEN New
                   ELSE [conn[c] EXCEPT !.on = @ \/ authOn', !.off = @ \/ ~authOn']]
    /\ UNCHANGED slots

ListenerNext ==
    \/ \E c \in Conns :
         \/ Accept(c) \/ Admit(c) \/ Acquire(c) \/ Sniff(c)
         \/ Greeting(c) \/ SocksAuth(c) \/ SocksRequest(c) \/ ServeHTTP(c)
         \/ Dial(c) \/ Reply(c) \/ ReplyFails(c) \/ Forward(c)
         \/ \E s \in Sides :
              ReadChunk(c, s) \/ Written(c, s) \/ IdleRead(c, s) \/ SideEnds(c, s)
         \/ RelayReturns(c) \/ Gone(c)
    \/ Change

\* Deadlines expire and goroutines run; a peer that is written to reads, or is
\* found dead, some time.  Clients owe the handshake nothing.
RelayWorks(c) == RelayReturns(c) \/ \E s \in Sides : IdleRead(c, s) \/ Written(c, s)

ListenerFairness == \A c \in Conns : WF_listenerVars(RelayWorks(c))

ListenerSpec == ListenerInit /\ [][ListenerNext]_listenerVars /\ ListenerFairness

-----------------------------------------------------------------------------
(* Properties.                                                             *)

ListenerTypeOK ==
    /\ slots \in 0..Cardinality(Conns) /\ {authOn, external} \subseteq BOOLEAN
    /\ changes \in 0..MaxChanges
    /\ \A c \in Conns :
         /\ conn[c].at \in InSlot \cup {"none", "accepted", "admitted", "done"}
         /\ conn[c].proof \in {"none", "client", "internal"}
         /\ conn[c].chunks \in 0..MaxChunks
         /\ \A s \in Sides : conn[c].copy[s] \in {"off", "read", "write", "ended"}

\* Gateway.handle, whichever of its exits a connection takes: no more slots are
\* in use than there are, each by a connection at work, and the connection to
\* the target does not outlive the handler.
NothingLeaks ==
    /\ slots = Cardinality({c \in Conns : conn[c].at \in InSlot})
    /\ slots <= MaxConnections
    /\ \A c \in Conns : conn[c].target => conn[c].at \in InSlot

\* allowClient and the handshakes: what is dialled and relayed was authenticated,
\* an external client by the configured credentials, unless authentication was
\* off meanwhile; and for an external client off alone is not enough: it was
\* also on, or taken to be on, when the client was admitted.
RelayAuthenticated ==
    \A c \in Conns :
        conn[c].target =>
            \/ conn[c].proof \in (IF conn[c].local THEN {"client", "internal"} ELSE {"client"})
            \/ conn[c].off /\ (conn[c].local \/ conn[c].on)

\* relay: a relay that no data flows through ends and gives its slot back.
RelayEnds == \A c \in Conns : Is(c, "relay") ~> ~Is(c, "relay")
=============================================================================
