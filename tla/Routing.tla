------------------------------- MODULE Routing -------------------------------
(***************************************************************************)
(* Chain.OnConnect (internal/handler/handler.go) up to the forwarder: the  *)
(* handlers of a connection run in the order of the configuration and pass *)
(* the backend's address on in the context.  The sni-router and the        *)
(* simple-router choose it round-robin; the terminator registers it under  *)
(* the connection's DCID with its internal listener and puts the address   *)
(* of that listener in its place.                                          *)
(*                                                                         *)
(* The connection's place in the chain is at; Forwarder has the other      *)
(* state of the connection and says what a drop does to it.                *)
(***************************************************************************)
EXTENDS Integers, Sequences

CONSTANTS
  Chains,       \* configured chains: sequences of handler names
  Names,        \* the SNI a ClientHello may have; NoSNI for none
  NoSNI,
  Routes,       \* sni-router: SNI -> sequence of backends
  Backends,     \* simple-router: sequence of backends
  Internal,     \* the terminator's internal listener
  Counters,     \* where other connections may have left the routers' counters
  None          \* no backend, no mapping

IsList(s) == s \in Seq({s[i] : i \in DOMAIN s}) /\ s # <<>>

\* The routers refuse an empty list of backends.
ASSUME RoutingAssumption ==
  /\ Chains \subseteq Seq(STRING) /\ Counters \subseteq Nat
  /\ IsList(Backends) /\ \A n \in DOMAIN Routes : IsList(Routes[n])
  /\ NoSNI \notin DOMAIN Routes

VARIABLES
  chain, sni,   \* the chain of this connection, the name in its ClientHello
  at,           \* the handler whose OnConnect runs next
  counter,      \* round-robin counters: of the simple-router, of the SNI's route
  backend,      \* "backend" in the context
  mapping       \* what the terminator has under this DCID

routing == <<chain, sni, at, counter, backend, mapping>>

Routers == {"sni-router", "simple-router"}

RoutingInit ==
  /\ chain \in Chains /\ sni \in Names
  /\ at = 1
  /\ \E k \in Counters : counter = [r \in Routers |-> k]
  /\ backend = None /\ mapping = None

Runs(h) == at <= Len(chain) /\ chain[at] = h

\* The handler returns Continue.
Continue == at' = at + 1 /\ UNCHANGED <<chain, sni>>

PassThrough ==
  /\ Runs("logsni") \/ Runs("example") \/ Runs("ratelimit-global")
  /\ Continue
  /\ UNCHANGED <<counter, backend, mapping>>

\* The routers' next: the counter is advanced and its old value used.
RouteTo(h, backends) ==
  /\ counter' = [counter EXCEPT ![h] = @ + 1]
  /\ backend' = backends[(counter[h] % Len(backends)) + 1]
  /\ Continue
  /\ UNCHANGED mapping

RouteBySNI == Runs("sni-router") /\ sni \in DOMAIN Routes /\ RouteTo("sni-router", Routes[sni])
RouteSimple == Runs("simple-router") /\ RouteTo("simple-router", Backends)

\* TerminatorHandler.OnConnect.
Terminate ==
  /\ Runs("terminator") /\ backend # None
  /\ mapping' = backend
  /\ backend' = Internal
  /\ Continue
  /\ UNCHANGED counter

RouteStep == PassThrough \/ RouteBySNI \/ RouteSimple \/ Terminate

\* A handler returns Drop, or none has handled the connection: the limit is
\* reached, no route for the name, no backend set, the end of the chain.
Refused ==
  \/ Runs("ratelimit-global")
  \/ Runs("sni-router") /\ sni \notin DOMAIN Routes
  \/ Runs("terminator")   \* without a backend, or an Initial without a DCID
  \/ Runs("forwarder") /\ backend = None
  \/ at > Len(chain)

\* Mutant: the DCID is taken from the Initial, which is no longer there.
UnregisterNothing == UNCHANGED routing

\* TerminatorHandler.OnDisconnect, with the DCID kept in the context.
Unregister ==
  /\ mapping' = None
  /\ UNCHANGED <<chain, sni, at, counter, backend>>

-----------------------------------------------------------------------------
Before(i, h) == \E j \in 1..(i - 1) : chain[j] = h
Position(h) == CHOOSE i \in DOMAIN chain : chain[i] = h /\ ~Before(i, h)

\* The handler at r is the last one of H in front of the handler at i.
IsLast(i, H, r) == chain[r] \in H /\ \A s \in (r + 1)..(i - 1) : chain[s] \notin H
LastOf(i, H) == CHOOSE r \in 1..(i - 1) : IsLast(i, H, r)

Setters == Routers \cup {"terminator"}
\* The backends that the handler at r may set for this connection, ...
Sets(r) ==
  LET list == IF chain[r] = "sni-router" THEN Routes[sni] ELSE Backends
  IN IF chain[r] = "terminator" THEN {Internal} ELSE {list[k] : k \in DOMAIN list}

\* ... and those that the configuration allows at the handler at i.
Configured(i) ==
  IF \A r \in 1..(i - 1) : chain[r] \notin Setters THEN {None} ELSE Sets(LastOf(i, Setters))
=============================================================================
