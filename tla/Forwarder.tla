------------------------------ MODULE Forwarder ------------------------------
(***************************************************************************)
(* One session of the forwarder (internal/handler/forwarder.go) and its    *)
(* Session record (internal/handler/context.go): OnConnect opens a socket  *)
(* to the backend and starts the backendToClient reader, OnPacket writes   *)
(* client packets to it, OnDisconnect closes it, and cleanupSessions ends  *)
(* the session when it has been idle for longer than session_timeout.      *)
(* Module Routing has the handlers in front of the forwarder.              *)
(*                                                                         *)
(* now is real time in ticks of the coarse clock (one second).  A goroutine *)
(* may be preempted between any two steps; Touch, which loads the coarse   *)
(* clock and stores it, is one step.                                       *)
(***************************************************************************)
EXTENDS Routing

CONSTANTS
  Workers,      \* workers that may carry packets of this session
  Janitor,      \* the cleanupSessions goroutine
  Droppers,     \* other goroutines that disconnect: eviction, Drop, Stop
  Timeout,      \* session_timeout
  ReadTimeout,  \* the reader's read deadline (5 minutes)
  MaxNow, MaxIn \* bounds: time, packets from the backend

ASSUME ForwarderAssumption ==
  /\ Janitor \notin Droppers
  /\ Timeout \in Nat /\ ReadTimeout \in Nat /\ MaxNow \in Nat /\ MaxIn \in Nat

Closers == Droppers \cup {Janitor}

VARIABLES
  now, coarse,    \* real time; the coarse clock, which lags behind it
  lastActivity,   \* Session.LastActivity
  lastTraffic,    \* arrival time of the latest packet that was relayed
  phase,          \* "new", "dialed", "dropped", "live" (in the table), "ended"
  closed,         \* Session.closed
  connOpen, closes,  \* the backend socket; Close calls on it
  reader, deadline, arrived, \* backendToClient: label, read deadline, arrival time
  inbox, backlog, \* backend packets in the socket; packets still to come
  writer, wArrived,  \* OnPacket on a worker: label, arrival time
  closer          \* OnDisconnect and deleteSession on a closer: label

clock == <<now, coarse>>
activity == <<lastActivity, lastTraffic>>
socket == <<connOpen, closes>>
readerVars == <<reader, deadline, arrived>>
server == <<inbox, backlog>>
writerVars == <<writer, wArrived>>
conn == <<clock, activity, phase, closed, socket, readerVars, server, writerVars, closer>>
vars == <<routing, conn>>

\* Type invariant of the forwarder session and its goroutines.
TypeOK ==
  /\ at \in 1..(Len(chain) + 1)
  /\ now \in 0..MaxNow /\ coarse \in 0..MaxNow
  /\ lastActivity \in 0..MaxNow /\ lastTraffic \in 0..MaxNow
  /\ phase \in {"new", "dialed", "dropped", "live", "ended"}
  /\ closed \in BOOLEAN /\ connOpen \in BOOLEAN /\ closes \in Nat
  /\ reader \in {"off", "check", "read", "recheck", "send", "gone"}
  /\ deadline \in Nat /\ arrived \in 0..MaxNow
  /\ inbox \in 0..MaxIn /\ backlog \in 0..MaxIn
  /\ writer \in [Workers -> {"idle", "check", "write"}]
  /\ wArrived \in [Workers -> 0..MaxNow]
  /\ closer \in [Closers -> {"idle", "unregister", "close", "closeConn", "remove"}]

Init ==
  /\ RoutingInit
  /\ now = 0 /\ coarse = 0
  /\ lastActivity = 0 /\ lastTraffic = 0
  /\ phase = "new"
  /\ closed = FALSE /\ connOpen = FALSE /\ closes = 0
  /\ reader = "off" /\ deadline = 0 /\ arrived = 0
  /\ inbox = 0 /\ backlog = MaxIn
  /\ writer = [w \in Workers |-> "idle"]
  /\ wArrived = [w \in Workers |-> 0]
  /\ closer = [c \in Closers |-> "idle"]

Latest(a, b) == IF a > b THEN a ELSE b

\* The coarse clock's ticker runs every second.
ClockTick ==
  /\ coarse # now
  /\ coarse' = now
  /\ UNCHANGED <<routing, now, activity, phase, closed, socket, readerVars, server, writerVars,
                 closer>>

\* Time is counted from the end of OnConnect's preparations on.
Second ==
  /\ coarse = now /\ now < MaxNow /\ phase # "new"
  /\ now' = now + 1
  /\ UNCHANGED <<routing, coarse, activity, phase, closed, socket, readerVars, server,
                 writerVars, closer>>

Touch == lastActivity' = coarse

-----------------------------------------------------------------------------
(* OnConnect.                                                              *)

\* A handler in front of the forwarder.
RunHandler == phase = "new" /\ RouteStep /\ UNCHANGED conn

\* handlePacket keeps nothing of a connection that the chain drops; in
\* particular it does not call OnDisconnect.
DropConnection ==
  /\ phase = "new" /\ Refused
  /\ phase' = "dropped"
  /\ UNCHANGED <<routing, clock, activity, closed, socket, readerVars, server, writerVars, closer>>

\* The backend cannot be resolved or dialed.
DialFails ==
  /\ phase = "new" /\ Runs("forwarder") /\ backend # None
  /\ phase' = "dropped"
  /\ UNCHANGED <<routing, clock, activity, closed, socket, readerVars, server, writerVars, closer>>

\* LastActivity starts with the precise time.
Dial ==
  /\ phase = "new" /\ Runs("forwarder") /\ backend # None
  /\ connOpen' = TRUE
  /\ lastActivity' = now /\ lastTraffic' = now
  /\ phase' = "dialed"
  /\ UNCHANGED <<routing, clock, closed, closes, readerVars, server, writerVars, closer>>

InitialFails ==
  /\ phase = "dialed"
  /\ connOpen' = FALSE /\ closes' = closes + 1
  /\ phase' = "dropped"
  /\ UNCHANGED <<routing, clock, activity, closed, readerVars, server, writerVars, closer>>

\* The Initial is forwarded, the reader starts, the session is stored.
Connected ==
  /\ phase = "dialed"
  /\ phase' = "live"
  /\ reader' = "check"
  /\ UNCHANGED <<routing, clock, activity, closed, socket, deadline, arrived, server, writerVars,
                 closer>>

-----------------------------------------------------------------------------
(* OnPacket, inbound.                                                      *)

OnPacket(w) ==
  /\ writer[w] = "idle"
  /\ phase = "live"
  /\ writer' = [writer EXCEPT ![w] = "check"]
  /\ wArrived' = [wArrived EXCEPT ![w] = now]
  /\ UNCHANGED <<routing, clock, activity, phase, closed, socket, readerVars, server, closer>>

DropClosed(w) ==
  /\ writer[w] = "check" /\ closed
  /\ writer' = [writer EXCEPT ![w] = "idle"]
  /\ wArrived' = [wArrived EXCEPT ![w] = 0]
  /\ UNCHANGED <<routing, clock, activity, phase, closed, socket, readerVars, server, closer>>

TouchInbound(w) ==
  /\ writer[w] = "check" /\ ~closed
  /\ Touch
  /\ writer' = [writer EXCEPT ![w] = "write"]
  /\ UNCHANGED <<routing, clock, lastTraffic, phase, closed, socket, readerVars, server,
                 wArrived, closer>>

\* A write on the closed socket fails; the packet is dropped with an error.
WriteToBackend(w) ==
  /\ writer[w] = "write"
  /\ lastTraffic' = IF connOpen THEN Latest(lastTraffic, wArrived[w]) ELSE lastTraffic
  /\ writer' = [writer EXCEPT ![w] = "idle"]
  /\ wArrived' = [wArrived EXCEPT ![w] = 0]
  /\ UNCHANGED <<routing, clock, lastActivity, phase, closed, socket, readerVars, server, closer>>

-----------------------------------------------------------------------------
(* backendToClient.                                                        *)

BackendSends ==
  /\ connOpen /\ backlog > 0
  /\ backlog' = backlog - 1
  /\ inbox' = inbox + 1
  /\ UNCHANGED <<routing, clock, activity, phase, closed, socket, readerVars, writerVars, closer>>

ReaderGone ==
  /\ reader' = "gone"
  /\ deadline' = 0 /\ arrived' = 0
  /\ UNCHANGED <<routing, clock, phase, closed, socket, writerVars, closer>>

\* The closed flag is checked before and after the blocking read.
ReaderStops ==
  /\ reader \in {"check", "recheck"} /\ closed
  /\ ReaderGone
  /\ UNCHANGED <<activity, server>>

SetReadDeadline ==
  /\ reader = "check" /\ ~closed
  /\ deadline' = now + ReadTimeout
  /\ reader' = "read"
  /\ UNCHANGED <<routing, clock, activity, phase, closed, socket, arrived, server, writerVars,
                 closer>>

ReadFromBackend ==
  /\ reader = "read"
  /\ connOpen /\ inbox > 0
  /\ inbox' = inbox - 1
  /\ arrived' = now
  /\ reader' = "recheck"
  /\ UNCHANGED <<routing, clock, activity, phase, closed, socket, deadline, backlog, writerVars,
                 closer>>

\* The socket was closed, or the deadline passed without a packet.
ReadError ==
  /\ reader = "read"
  /\ ~connOpen \/ (inbox = 0 /\ now >= deadline)
  /\ ReaderGone
  /\ UNCHANGED <<activity, server>>

\* Mutant: only client packets count as activity.
NoTouchOutbound ==
  /\ reader = "recheck" /\ ~closed
  /\ reader' = "send"
  /\ UNCHANGED <<routing, clock, activity, phase, closed, socket, deadline, arrived, server,
                 writerVars, closer>>

\* Touch, then learn the server's SCIDs (module Sessions).
TouchOutbound ==
  /\ reader = "recheck" /\ ~closed
  /\ Touch
  /\ reader' = "send"
  /\ UNCHANGED <<routing, clock, lastTraffic, phase, closed, socket, deadline, arrived, server,
                 writerVars, closer>>

WriteToClient ==
  /\ reader = "send"
  /\ lastTraffic' = Latest(lastTraffic, arrived)
  /\ arrived' = 0 /\ deadline' = 0
  /\ reader' = "check"
  /\ UNCHANGED <<routing, clock, lastActivity, phase, closed, socket, server, writerVars, closer>>

WriteToClientFails ==
  /\ reader = "send"
  /\ ReaderGone
  /\ UNCHANGED <<activity, server>>

-----------------------------------------------------------------------------
(* The end of the session: OnDisconnect, then deleteSession.               *)

Begin(c) == closer' = [closer EXCEPT ![c] = "unregister"]

\* The ticker finds IdleDuration() > timeout.
CleanupIdle ==
  /\ closer[Janitor] = "idle"
  /\ phase = "live"
  /\ now - lastActivity > Timeout
  /\ Begin(Janitor)
  /\ UNCHANGED <<routing, clock, activity, phase, closed, socket, readerVars, server, writerVars>>

Disconnect(c) ==
  /\ c \in Droppers
  /\ closer[c] = "idle"
  /\ phase = "live"
  /\ Begin(c)
  /\ UNCHANGED <<routing, clock, activity, phase, closed, socket, readerVars, server, writerVars>>

\* Chain.OnDisconnect calls the terminator before the forwarder.
UnregisterBackend(c) ==
  /\ closer[c] = "unregister"
  /\ Unregister
  /\ closer' = [closer EXCEPT ![c] = "close"]
  /\ UNCHANGED <<clock, activity, phase, closed, socket, readerVars, server, writerVars>>

\* Mutant: Close without compare-and-swap always reports success.
CloseAlways(c) ==
  /\ closer[c] = "close"
  /\ closed' = TRUE
  /\ closer' = [closer EXCEPT ![c] = "closeConn"]
  /\ UNCHANGED <<routing, clock, activity, phase, socket, readerVars, server, writerVars>>

\* Session.Close: the compare-and-swap elects the goroutine that closes.
Close(c) ==
  /\ closer[c] = "close"
  /\ closed' = TRUE
  /\ closer' = [closer EXCEPT ![c] = IF closed THEN "remove" ELSE "closeConn"]
  /\ UNCHANGED <<routing, clock, activity, phase, socket, readerVars, server, writerVars>>

\* Mutant: marks the session and forgets the socket.
SkipCloseConn(c) ==
  /\ closer[c] = "closeConn"
  /\ closer' = [closer EXCEPT ![c] = "remove"]
  /\ UNCHANGED <<routing, clock, activity, phase, closed, socket, readerVars, server, writerVars>>

CloseConn(c) ==
  /\ closer[c] = "closeConn"
  /\ connOpen' = FALSE /\ closes' = closes + 1
  /\ closer' = [closer EXCEPT ![c] = "remove"]
  /\ UNCHANGED <<routing, clock, activity, phase, closed, readerVars, server, writerVars>>

Remove(c) ==
  /\ closer[c] = "remove"
  /\ phase' = "ended"
  /\ closer' = [closer EXCEPT ![c] = "idle"]
  /\ UNCHANGED <<routing, clock, activity, closed, socket, readerVars, server, writerVars>>

-----------------------------------------------------------------------------
ConnectStep == RunHandler \/ DropConnection \/ DialFails \/ Dial \/ InitialFails \/ Connected
WriterStep(w) == DropClosed(w) \/ TouchInbound(w) \/ WriteToBackend(w)
ReaderStep == \/ ReaderStops \/ SetReadDeadline \/ ReadFromBackend \/ ReadError
              \/ TouchOutbound \/ WriteToClient \/ WriteToClientFails
CloserStep(c) == UnregisterBackend(c) \/ Close(c) \/ CloseConn(c) \/ Remove(c)

Next ==
  \/ ClockTick \/ Second \/ ConnectStep \/ BackendSends \/ ReaderStep
  \/ \E w \in Workers : OnPacket(w) \/ WriterStep(w)
  \/ CleanupIdle
  \/ \E c \in Closers : Disconnect(c) \/ CloserStep(c)

Spec == Init /\ [][Next]_vars

\* Goroutines that can run do; the network and the clock are not promised.
FairSpec ==
  /\ Spec
  /\ WF_vars(ReaderStep)
  /\ \A c \in Closers : WF_vars(CloserStep(c))

-----------------------------------------------------------------------------
\* Whatever path ends a session, its backend socket is closed exactly once:
\* by the goroutine that won Session.Close, or by OnConnect when it fails.
ClosedOnce ==
  /\ TypeOK /\ closes <= 1
  /\ phase = "dropped" => ~connOpen
  /\ phase = "ended" => ~connOpen \/ \E c \in Closers : closer[c] = "closeConn"

\* Traffic in either direction keeps a session: the ticker picks it only when
\* nothing was relayed for session_timeout, the lag of the coarse clock
\* included ("sessions without traffic are cleaned up after this duration").
IdleMeansIdle ==
  [][closer[Janitor] = "idle" /\ closer'[Janitor] # "idle" => now - lastTraffic >= Timeout]_vars

\* Closing a session ends its reader goroutine, which may be blocked in Read.
ReaderEnds == closed ~> reader \in {"off", "gone"}

\* A connection goes to a backend its configuration names, through the
\* terminator if that is what the handlers in front of the forwarder set last;
\* the terminator's entry leads to the backend chosen before, is there until
\* someone ends the session, and is gone when the session has ended.
RoutedAsConfigured ==
  /\ phase \in {"dialed", "live"} =>
       LET forwarder == Position("forwarder")
           untouched == \A c \in Closers : closer[c] = "idle"
       IN /\ backend \in Configured(forwarder) \ {None}
          /\ IF Before(forwarder, "terminator")
             THEN \/ mapping \in Configured(LastOf(forwarder, {"terminator"}))
                  \/ mapping = None /\ ~untouched
             ELSE mapping = None
  /\ phase = "ended" => mapping = None
=============================================================================
