--------------------------- MODULE ForwarderProofs ---------------------------
(***************************************************************************)
(* Proofs about Forwarder and Routing, for every chain of handlers, every  *)
(* number of workers and of goroutines that end the session, and every     *)
(* timeout: the backend socket is closed once, the ticker ends idle        *)
(* sessions only, and a connection goes where its configuration says.      *)
(***************************************************************************)
EXTENDS Forwarder, SequenceTheorems, TLAPS

-----------------------------------------------------------------------------
(* Types.                                                                  *)

\* What TypeOK needs of the handlers in front of the forwarder and of the
\* packets on the way from the backend.
Typed ==
  /\ TypeOK
  /\ chain \in Seq(STRING) /\ counter \in [Routers -> Nat]
  /\ inbox + backlog <= MaxIn

\* The goroutines of the session's end.
Ending(c) == closer[c] \in {"close", "closeConn", "remove"}

\* Types hold at the start.
LEMMA TypedInit == Init => Typed
<1> SUFFICES ASSUME Init PROVE Typed
  OBVIOUS
<1>1. chain \in Seq(STRING) /\ counter \in [Routers -> Nat] /\ at = 1
  BY RoutingAssumption DEF Init, RoutingInit
<1>2. Len(chain) \in Nat
  BY <1>1, LenProperties
<1>3. at \in 1..(Len(chain) + 1)
  BY <1>1, <1>2
<1>4. 0 \in 0..MaxNow /\ 0 \in 0..MaxIn /\ MaxIn \in 0..MaxIn /\ 0 + MaxIn <= MaxIn
  BY ForwarderAssumption
<1>5. TypeOK
  BY <1>3, <1>4 DEF Init, TypeOK
<1>6. QED
  BY <1>1, <1>4, <1>5 DEF Init, Typed

\* A handler runs within the chain.
LEMMA RouteTyped ==
  ASSUME Typed, RouteStep
  PROVE  /\ at' \in 1..(Len(chain') + 1) /\ counter' \in [Routers -> Nat]
         /\ chain' = chain /\ at <= Len(chain) /\ at' = at + 1 /\ sni' = sni
<1>1. chain' = chain /\ at <= Len(chain) /\ at' = at + 1 /\ sni' = sni
  BY DEF RouteStep, PassThrough, RouteBySNI, RouteSimple, Terminate, RouteTo, Continue, Runs
<1>2. at \in 1..(Len(chain) + 1) /\ Len(chain) \in Nat
  BY LenProperties DEF Typed, TypeOK
<1>3. counter' \in [Routers -> Nat]
  BY DEF RouteStep, PassThrough, RouteBySNI, RouteSimple, Terminate, RouteTo, Routers, Typed
<1>4. QED
  BY <1>1, <1>2, <1>3

\* Types are kept.
LEMMA TypedStep == ASSUME Typed, [Next]_vars PROVE Typed'
<1>n. now \in Nat /\ coarse \in Nat /\ MaxNow \in Nat /\ ReadTimeout \in Nat /\ MaxIn \in Nat
  BY ForwarderAssumption DEF Typed, TypeOK
<1>1. CASE RunHandler
  BY <1>1, RouteTyped DEF RunHandler, Typed, TypeOK, conn, clock, activity, socket, readerVars, server, writerVars
<1>2. CASE ClockTick
  BY <1>2, SMTT(30) DEF ClockTick, Typed, TypeOK, routing, activity, socket, readerVars, server, writerVars
<1>3. CASE Second
  <2>1. now' \in 0..MaxNow
    BY <1>3, <1>n DEF Second, Typed, TypeOK
  <2>2. QED
    BY <1>3, <2>1 DEF Second, Typed, TypeOK, routing, activity, socket, readerVars, server, writerVars
<1>4. CASE DropConnection \/ DialFails
  BY <1>4 DEF DropConnection, DialFails, Typed, TypeOK, routing, clock, activity, socket, readerVars, server, writerVars
<1>5. CASE Dial \/ InitialFails \/ Connected
  <2>1. connOpen' \in BOOLEAN
    BY <1>5 DEF Dial, InitialFails, Connected, Typed, TypeOK, socket
  <2>2. closes' \in Nat
    BY <1>5, SMTT(30) DEF Dial, InitialFails, Connected, Typed, TypeOK, socket
  <2>3. lastActivity' \in 0..MaxNow /\ lastTraffic' \in 0..MaxNow
    BY <1>5 DEF Dial, InitialFails, Connected, Typed, TypeOK, activity
  <2>4. QED
    BY <1>5, <2>1, <2>2, <2>3 DEF Dial, InitialFails, Connected, Typed, TypeOK, routing, clock, readerVars, server, writerVars
<1>6. ASSUME NEW w \in Workers, OnPacket(w) \/ WriterStep(w) PROVE Typed'
  <2>1. /\ writer' \in [Workers -> {"idle", "check", "write"}]
        /\ wArrived' \in [Workers -> 0..MaxNow]
    <3>1. 0 \in 0..MaxNow /\ now \in 0..MaxNow
      BY <1>n DEF Typed, TypeOK
    <3>2. QED
      BY <1>6, <3>1 DEF OnPacket, WriterStep, DropClosed, TouchInbound, WriteToBackend, Typed, TypeOK
  <2>2. lastActivity' \in 0..MaxNow /\ lastTraffic' \in 0..MaxNow
    BY <1>6, SMTT(30) DEF OnPacket, WriterStep, DropClosed, TouchInbound, WriteToBackend, Typed, TypeOK, Touch, Latest, activity
  <2>3. UNCHANGED <<routing, clock, phase, closed, socket, readerVars, server, closer>>
    BY <1>6 DEF OnPacket, WriterStep, DropClosed, TouchInbound, WriteToBackend
  <2>4. QED
    BY <2>1, <2>2, <2>3 DEF Typed, TypeOK, routing, clock, socket, readerVars, server
<1>7. CASE BackendSends
  <2>1. inbox' \in 0..MaxIn /\ backlog' \in 0..MaxIn /\ inbox' + backlog' <= MaxIn
    BY <1>7, <1>n DEF BackendSends, Typed, TypeOK
  <2>2. QED
    BY <1>7, <2>1 DEF BackendSends, Typed, TypeOK, routing, clock, activity, socket, readerVars, writerVars
<1>8. CASE ReaderStep
  <2>1. /\ reader' \in {"off", "check", "read", "recheck", "send", "gone"}
        /\ deadline' \in Nat /\ arrived' \in 0..MaxNow
    BY <1>8, <1>n DEF ReaderStep, ReaderStops, SetReadDeadline, ReadFromBackend, ReadError, TouchOutbound,
                      WriteToClient, WriteToClientFails, ReaderGone, Typed, TypeOK
  <2>2. lastActivity' \in 0..MaxNow /\ lastTraffic' \in 0..MaxNow
    BY <1>8 DEF ReaderStep, ReaderStops, SetReadDeadline, ReadFromBackend, ReadError, TouchOutbound,
                WriteToClient, WriteToClientFails, ReaderGone, Typed, TypeOK, Touch, Latest, activity
  <2>3. inbox' \in 0..MaxIn /\ backlog' \in 0..MaxIn /\ inbox' + backlog' <= MaxIn
    BY <1>8, <1>n DEF ReaderStep, ReaderStops, SetReadDeadline, ReadFromBackend, ReadError, TouchOutbound,
                      WriteToClient, WriteToClientFails, ReaderGone, Typed, TypeOK, server
  <2>4. UNCHANGED <<routing, clock, phase, closed, socket, writerVars, closer>>
    BY <1>8 DEF ReaderStep, ReaderStops, SetReadDeadline, ReadFromBackend, ReadError, TouchOutbound,
                WriteToClient, WriteToClientFails, ReaderGone
  <2>5. QED
    BY <2>1, <2>2, <2>3, <2>4 DEF Typed, TypeOK, routing, clock, socket, writerVars
<1>9. CASE CleanupIdle
  BY <1>9 DEF CleanupIdle, Begin, Typed, TypeOK, routing, clock, activity, socket, readerVars, server, writerVars
<1>10. ASSUME NEW c \in Closers, Disconnect(c) \/ CloserStep(c) PROVE Typed'
  <2>1. closer' \in [Closers -> {"idle", "unregister", "close", "closeConn", "remove"}]
    BY <1>10 DEF Disconnect, Begin, CloserStep, UnregisterBackend, Close, CloseConn, Remove, Typed, TypeOK
  <2>2. /\ closed' \in BOOLEAN /\ connOpen' \in BOOLEAN /\ closes' \in Nat
        /\ phase' \in {"new", "dialed", "dropped", "live", "ended"}
    <3>1. closes' = closes \/ closes' = closes + 1
      BY <1>10 DEF Disconnect, CloserStep, UnregisterBackend, Close, CloseConn, Remove, socket
    <3>2. (closed' = closed \/ closed' = TRUE) /\ (connOpen' = connOpen \/ connOpen' = FALSE)
      BY <1>10 DEF Disconnect, CloserStep, UnregisterBackend, Close, CloseConn, Remove, socket
    <3>3. phase' = phase \/ phase' = "ended"
      BY <1>10 DEF Disconnect, CloserStep, UnregisterBackend, Close, CloseConn, Remove
    <3>4. closes' \in Nat
      BY <3>1 DEF Typed, TypeOK
    <3>5. closed' \in BOOLEAN /\ connOpen' \in BOOLEAN
      BY <3>2 DEF Typed, TypeOK
    <3>6. QED
      BY <3>3, <3>4, <3>5 DEF Typed, TypeOK
  <2>3. UNCHANGED <<chain, at, counter, clock, activity, readerVars, server, writerVars>>
    BY <1>10 DEF Disconnect, Begin, CloserStep, UnregisterBackend, Close, CloseConn, Remove, Unregister, routing
  <2>4. QED
    BY <2>1, <2>2, <2>3 DEF Typed, TypeOK, clock, activity, readerVars, server, writerVars
<1>11. CASE UNCHANGED vars
  BY <1>11 DEF vars, conn, Typed, TypeOK, routing, clock, activity, socket, readerVars, server, writerVars
<1>12. QED
  BY <1>1, <1>2, <1>3, <1>4, <1>5, <1>6, <1>7, <1>8, <1>9, <1>10, <1>11 DEF Next, ConnectStep

\* Types hold in every reachable state.
LEMMA AlwaysTyped == Spec => []Typed
  BY TypedInit, TypedStep, PTL DEF Spec

-----------------------------------------------------------------------------
(* The end of the session.                                                 *)

\* Before the session is stored nobody ends it.  Until Session.Close has a
\* winner the socket is open and was never closed; then it is either still the
\* winner's to close, or closed once.
CloseInv ==
  /\ phase \in {"new", "dialed", "dropped"} => ~closed /\ \A c \in Closers : closer[c] = "idle"
  /\ phase = "new" => ~connOpen /\ closes = 0
  /\ phase = "dialed" => connOpen /\ closes = 0
  /\ phase = "dropped" => ~connOpen /\ closes <= 1
  /\ phase \in {"live", "ended"} /\ ~closed =>
       /\ phase = "live" /\ connOpen /\ closes = 0
       /\ \A c \in Closers : closer[c] \notin {"closeConn", "remove"}
  /\ closed =>
       \/ /\ closes = 0 /\ \E c \in Closers : closer[c] = "closeConn"
          /\ \A c, d \in Closers : closer[c] = "closeConn" /\ closer[d] = "closeConn" => c = d
       \/ ~connOpen /\ closes = 1 /\ \A c \in Closers : closer[c] # "closeConn"

\* The socket's variables move only in OnConnect and in the session's end.
LEMMA CloseStep == ASSUME Typed, CloseInv, [Next]_vars PROVE CloseInv'
<1>1. CASE UNCHANGED <<phase, closed, socket, closer>>
  BY <1>1 DEF CloseInv, socket
<1>2. CASE DropConnection \/ DialFails \/ Dial \/ InitialFails \/ Connected
  BY <1>2 DEF DropConnection, DialFails, Dial, InitialFails, Connected, CloseInv, socket
<1>3. CASE CleanupIdle \/ \E c \in Closers : Disconnect(c)
  <2>1. PICK c \in Closers : closer[c] = "idle" /\ phase = "live" /\ closer' = [closer EXCEPT ![c] = "unregister"]
    BY <1>3 DEF CleanupIdle, Disconnect, Begin, Closers
  <2>2. UNCHANGED <<phase, closed, socket>>
    BY <1>3 DEF CleanupIdle, Disconnect
  <2>3. \A d \in Closers : closer'[d] = IF d = c THEN "unregister" ELSE closer[d]
    BY <2>1 DEF Typed, TypeOK
  <2>4. QED
    BY <2>1, <2>2, <2>3 DEF CloseInv, socket
<1>4. ASSUME NEW c \in Closers, UnregisterBackend(c) PROVE CloseInv'
  <2>1. /\ closer[c] = "unregister" /\ UNCHANGED <<phase, closed, socket>>
        /\ \A d \in Closers : closer'[d] = IF d = c THEN "close" ELSE closer[d]
    BY <1>4 DEF UnregisterBackend, Typed, TypeOK
  <2>2. QED
    BY <2>1 DEF CloseInv, socket
<1>5. ASSUME NEW c \in Closers, Close(c) PROVE CloseInv'
  <2>1. /\ closer[c] = "close" /\ closed' /\ UNCHANGED <<phase, socket>>
        /\ \A d \in Closers : closer'[d] = IF d = c THEN IF closed THEN "remove" ELSE "closeConn" ELSE closer[d]
    BY <1>5 DEF Close, Typed, TypeOK
  <2>2. phase \in {"live", "ended"}
    BY <2>1 DEF CloseInv, Typed, TypeOK
  <2>3. CASE closed
    BY <2>1, <2>2, <2>3 DEF CloseInv, socket
  <2>4. CASE ~closed
    BY <2>1, <2>2, <2>4 DEF CloseInv, socket
  <2>5. QED
    BY <2>3, <2>4
<1>6. ASSUME NEW c \in Closers, CloseConn(c) PROVE CloseInv'
  <2>1. /\ closer[c] = "closeConn" /\ ~connOpen' /\ closes' = closes + 1 /\ UNCHANGED <<phase, closed>>
        /\ \A d \in Closers : closer'[d] = IF d = c THEN "remove" ELSE closer[d]
    BY <1>6 DEF CloseConn, Typed, TypeOK
  <2>2. phase \in {"live", "ended"} /\ closed
    BY <2>1 DEF CloseInv, Typed, TypeOK
  <2>3. closes = 0 /\ \A d \in Closers : closer[d] = "closeConn" => d = c
    BY <2>1, <2>2 DEF CloseInv
  <2>4. closes' = 1
    BY <2>1, <2>3
  <2>5. QED
    BY <2>1, <2>2, <2>3, <2>4 DEF CloseInv
<1>7. ASSUME NEW c \in Closers, Remove(c) PROVE CloseInv'
  <2>1. /\ closer[c] = "remove" /\ phase' = "ended" /\ UNCHANGED <<closed, socket>>
        /\ \A d \in Closers : closer'[d] = IF d = c THEN "idle" ELSE closer[d]
    BY <1>7 DEF Remove, Typed, TypeOK
  <2>2. closed /\ closed \in BOOLEAN
    BY <2>1 DEF CloseInv, Typed, TypeOK
  <2>3. QED
    BY <2>1, <2>2 DEF CloseInv, socket
<1>8. QED
  BY <1>1, <1>2, <1>3, <1>4, <1>5, <1>6, <1>7
     DEF Next, ConnectStep, RunHandler, ClockTick, Second, BackendSends, ReaderStep, ReaderStops, SetReadDeadline,
         ReadFromBackend, ReadError, TouchOutbound, WriteToClient, WriteToClientFails, ReaderGone,
         OnPacket, WriterStep, DropClosed, TouchInbound, WriteToBackend, CloserStep, vars, conn

\* The session's end is orderly in every reachable state.
LEMMA AlwaysCloses == Spec => [](Typed /\ CloseInv)
<1>1. Init => CloseInv
  BY DEF Init, CloseInv
<1>2. QED
  BY <1>1, CloseStep, AlwaysTyped, PTL DEF Spec

\* The backend socket of a session is closed exactly once, however many
\* goroutines call OnDisconnect at the same time.
THEOREM CloseSafe == Spec => []ClosedOnce
<1>1. Typed /\ CloseInv => ClosedOnce
  <2> SUFFICES ASSUME Typed, CloseInv PROVE ClosedOnce
    OBVIOUS
  <2>1. phase \in {"new", "dialed", "dropped", "live", "ended"} /\ closes \in Nat /\ TypeOK /\ closed \in BOOLEAN
    BY DEF Typed, TypeOK
  <2>2. QED
    BY <2>1 DEF CloseInv, ClosedOnce
<1>2. QED
  BY <1>1, AlwaysCloses, PTL

-----------------------------------------------------------------------------
(* Idle sessions.                                                          *)

\* The coarse clock lags by at most a second, and the activity recorded for a
\* packet by no more behind its arrival.
ClockInv ==
  /\ coarse <= now /\ now <= coarse + 1
  /\ lastTraffic <= now /\ arrived <= now /\ \A w \in Workers : wArrived[w] <= now
  /\ lastTraffic <= lastActivity + 1
  /\ reader = "send" => arrived <= lastActivity + 1
  /\ \A w \in Workers : writer[w] = "write" => wArrived[w] <= lastActivity + 1

\* A packet is counted as traffic only after it was recorded as activity.
LEMMA ClockStep == ASSUME Typed, ClockInv, [Next]_vars PROVE ClockInv'
<1>n. /\ now \in Nat /\ coarse \in Nat /\ lastActivity \in Nat /\ lastTraffic \in Nat /\ arrived \in Nat
      /\ \A w \in Workers : wArrived[w] \in Nat
  BY ForwarderAssumption DEF Typed, TypeOK
<1>1. CASE UNCHANGED <<clock, activity, reader, arrived, writerVars>>
  BY <1>1 DEF ClockInv, clock, activity, writerVars
<1>2. CASE ClockTick
  BY <1>2, <1>n DEF ClockTick, ClockInv, activity, readerVars, writerVars
<1>3. CASE Second
  BY <1>3, <1>n DEF Second, ClockInv, activity, readerVars, writerVars
<1>4. CASE Dial \/ Connected
  BY <1>4, <1>n DEF Dial, Connected, ClockInv, clock, activity, readerVars, writerVars
<1>5. ASSUME NEW w \in Workers, OnPacket(w) \/ DropClosed(w) PROVE ClockInv'
  <2>1. /\ UNCHANGED <<clock, activity, readerVars>>
        /\ \A v \in Workers : v # w => writer'[v] = writer[v] /\ wArrived'[v] = wArrived[v]
        /\ writer'[w] \in {"check", "idle"} /\ wArrived'[w] \in {0, now}
    BY <1>5 DEF OnPacket, DropClosed, Typed, TypeOK
  <2>2. QED
    BY <2>1, <1>n DEF ClockInv, clock, activity, readerVars
<1>6. ASSUME NEW w \in Workers, TouchInbound(w) PROVE ClockInv'
  <2>1. UNCHANGED <<clock, lastTraffic, readerVars, wArrived>> /\ lastActivity' = coarse
    BY <1>6 DEF TouchInbound, Touch
  <2>2. QED
    BY <2>1, <1>n DEF ClockInv, clock, readerVars
<1>7. ASSUME NEW w \in Workers, WriteToBackend(w) PROVE ClockInv'
  <2>1. /\ UNCHANGED <<clock, lastActivity, readerVars>>
        /\ \A v \in Workers : v # w => writer'[v] = writer[v] /\ wArrived'[v] = wArrived[v]
        /\ writer[w] = "write" /\ writer'[w] = "idle" /\ wArrived'[w] = 0
        /\ lastTraffic' = lastTraffic \/ lastTraffic' = wArrived[w]
    BY <1>7 DEF WriteToBackend, Latest, Typed, TypeOK
  <2>2. QED
    BY <2>1, <1>n DEF ClockInv, clock, readerVars
<1>8. CASE ReaderStops \/ ReadError \/ WriteToClientFails \/ SetReadDeadline
  <2>1. /\ UNCHANGED <<clock, activity, writerVars>> /\ reader' # "send" /\ (arrived' = arrived \/ arrived' = 0)
    BY <1>8 DEF ReaderStops, ReadError, WriteToClientFails, SetReadDeadline, ReaderGone
  <2>2. QED
    BY <2>1, <1>n DEF ClockInv, clock, activity, writerVars
<1>9. CASE ReadFromBackend
  BY <1>9, <1>n DEF ReadFromBackend, ClockInv, clock, activity, writerVars
<1>10. CASE TouchOutbound
  BY <1>10, <1>n DEF TouchOutbound, Touch, ClockInv, clock, writerVars
<1>11. CASE WriteToClient
  <2>1. /\ UNCHANGED <<clock, lastActivity, writerVars>> /\ reader = "send" /\ reader' = "check" /\ arrived' = 0
        /\ lastTraffic' = lastTraffic \/ lastTraffic' = arrived
    BY <1>11 DEF WriteToClient, Latest
  <2>2. QED
    BY <2>1, <1>n DEF ClockInv, clock, writerVars
<1>12. QED
  BY <1>1, <1>2, <1>3, <1>4, <1>5, <1>6, <1>7, <1>8, <1>9, <1>10, <1>11
     DEF Next, ConnectStep, RunHandler, DropConnection, DialFails, InitialFails, BackendSends, ReaderStep, readerVars,
         WriterStep, CleanupIdle, Disconnect, CloserStep, UnregisterBackend, Close, CloseConn, Remove, vars, conn

\* Traffic in either direction keeps a session: the ticker picks it only when
\* nothing was relayed for session_timeout.
THEOREM IdleSafe == Spec => IdleMeansIdle
<1>1. Init => ClockInv
  BY DEF Init, ClockInv
<1>2. Spec => [](Typed /\ ClockInv)
  BY <1>1, ClockStep, AlwaysTyped, PTL DEF Spec
<1>3. ASSUME Typed, ClockInv, [Next]_vars
      PROVE  [closer[Janitor] = "idle" /\ closer'[Janitor] # "idle" => now - lastTraffic >= Timeout]_vars
  <2> SUFFICES ASSUME closer[Janitor] = "idle", closer'[Janitor] # "idle" PROVE now - lastTraffic >= Timeout
    OBVIOUS
  <2>1. CleanupIdle
    <3>1. Janitor \in Closers /\ Janitor \notin Droppers
      BY ForwarderAssumption DEF Closers
    <3>2. ASSUME NEW c \in Closers, Disconnect(c) \/ CloserStep(c) PROVE FALSE
      <4>1. c # Janitor
        BY <3>1, <3>2 DEF Disconnect, CloserStep, UnregisterBackend, Close, CloseConn, Remove
      <4>2. closer'[Janitor] = closer[Janitor]
        BY <1>3, <3>1, <3>2, <4>1 DEF Disconnect, Begin, CloserStep, UnregisterBackend, Close, CloseConn, Remove, Typed, TypeOK
      <4>3. QED
        BY <4>2
    <3>3. closer' # closer
      OBVIOUS
    <3>4. QED
      BY <1>3, <3>2, <3>3 DEF Next, ConnectStep, RunHandler, DropConnection, DialFails, Dial, InitialFails, Connected,
         ClockTick, Second, BackendSends, ReaderStep, ReaderStops, SetReadDeadline,
         ReadFromBackend, ReadError, TouchOutbound, WriteToClient, WriteToClientFails, ReaderGone,
         OnPacket, WriterStep, DropClosed, TouchInbound, WriteToBackend, vars, conn
  <2>2. now - lastActivity > Timeout
    BY <2>1 DEF CleanupIdle
  <2>3. now \in Nat /\ lastActivity \in Nat /\ lastTraffic \in Nat /\ Timeout \in Nat
    BY <1>3, ForwarderAssumption DEF Typed, TypeOK
  <2>4. QED
    BY <1>3, <2>2, <2>3 DEF ClockInv
<1>4. QED
  BY <1>2, <1>3, PTL DEF Spec, IdleMeansIdle
-----------------------------------------------------------------------------
(* Where a connection goes.                                                *)

\* The last one of H in front of i is unique.
LEMMA LastIs ==
  ASSUME NEW i \in Nat, NEW H, NEW r \in 1..(i - 1), IsLast(i, H, r)
  PROVE  LastOf(i, H) = r
<1>1. ASSUME NEW q \in 1..(i - 1), IsLast(i, H, q) PROVE q = r
  <2>1. CASE q < r
    <3>1. r \in (q + 1)..(i - 1)
      BY <2>1
    <3>2. QED
      BY <1>1, <3>1 DEF IsLast
  <2>2. CASE r < q
    <3>1. q \in (r + 1)..(i - 1)
      BY <2>2
    <3>2. QED
      BY <1>1, <3>1 DEF IsLast
  <2>3. QED
    BY <2>1, <2>2
<1>2. LastOf(i, H) \in 1..(i - 1) /\ IsLast(i, H, LastOf(i, H))
  BY Zenon DEF LastOf
<1>3. QED
  BY <1>1, <1>2

\* The last one of H when a handler has run.
LEMMA LastMoves ==
  ASSUME NEW i \in Nat, NEW H
  PROVE  /\ chain[i] \in H => IsLast(i + 1, H, i)
         /\ \A r \in 1..(i - 1) : chain[i] \notin H /\ IsLast(i, H, r) => IsLast(i + 1, H, r)
<1>1. (i + 1)..((i + 1) - 1) = {}
  OBVIOUS
<1>2. \A r \in 1..(i - 1) : \A s \in (r + 1)..((i + 1) - 1) : s \in (r + 1)..(i - 1) \/ s = i
  OBVIOUS
<1>3. QED
  BY <1>1, <1>2 DEF IsLast

\* Round-robin stays within the list.
LEMMA NextOfList ==
  ASSUME NEW s, IsList(s), NEW n \in Nat
  PROVE  s[(n % Len(s)) + 1] \in {s[k] : k \in DOMAIN s}
<1> DEFINE S == {s[i] : i \in DOMAIN s}
<1>1. s \in Seq(S) /\ s # <<>>
  BY DEF IsList
<1> HIDE DEF S
<1>2. Len(s) \in Nat /\ DOMAIN s = 1..Len(s) /\ Len(s) # 0
  BY <1>1, LenProperties, EmptySeq
<1>3. (n % Len(s)) + 1 \in DOMAIN s
  BY <1>2
<1>4. QED
  BY <1>3

\* The backend in the context is what the last handler that sets one chose.
Chosen ==
  \/ backend = None /\ \A r \in 1..(at - 1) : chain[r] \notin Setters
  \/ \E r \in 1..(at - 1) : IsLast(at, Setters, r) /\ backend \in Sets(r)

\* Someone has called the terminator's OnDisconnect.
Unregistered == phase = "ended" \/ \E c \in Closers : Ending(c)

\* The terminator's entry is the backend set in front of it, until it is gone.
Entry ==
  \/ mapping = None /\ ~Before(at, "terminator")
  \/ \E t \in 1..(at - 1) : IsLast(at, {"terminator"}, t) /\ mapping \in Configured(t)
  \/ mapping = None /\ Unregistered

RouteInv ==
  /\ \A j \in 1..(at - 1) : chain[j] # "forwarder"
  /\ phase \in {"dialed", "live"} => Runs("forwarder") /\ backend # None
  /\ Chosen
  /\ Entry
  /\ Unregistered => mapping = None

\* What is chosen is what the configuration allows.
LEMMA ChosenConfigured ==
  ASSUME Typed, Chosen PROVE backend \in Configured(at)
<1>1. at \in Nat
  BY LenProperties DEF Typed, TypeOK
<1>2. CASE backend = None /\ \A r \in 1..(at - 1) : chain[r] \notin Setters
  BY <1>2 DEF Configured
<1>3. ASSUME NEW r \in 1..(at - 1), IsLast(at, Setters, r), backend \in Sets(r) PROVE backend \in Configured(at)
  <2>1. LastOf(at, Setters) = r
    BY <1>1, <1>3, LastIs
  <2>2. chain[r] \in Setters
    BY <1>3 DEF IsLast
  <2>3. QED
    BY <1>3, <2>1, <2>2 DEF Configured
<1>4. QED
  BY <1>2, <1>3 DEF Chosen

\* A handler in front of the forwarder.
LEMMA RouteStepKeeps ==
  ASSUME Typed, RouteInv, RouteStep, UNCHANGED conn, ~Unregistered, phase = "new"
  PROVE  RouteInv'
<1>1. /\ chain' = chain /\ at <= Len(chain) /\ at' = at + 1 /\ sni' = sni /\ at \in Nat \ {0}
      /\ phase' = phase /\ (Unregistered <=> Unregistered')
  BY RouteTyped, LenProperties DEF Typed, TypeOK, conn, Unregistered, Ending
<1>2. 1..(at' - 1) = 1..(at - 1) \cup {at} /\ 1..(at - 1) \subseteq 1..(at' - 1) /\ at \in 1..(at' - 1)
  BY <1>1
<1>3. chain[at] \in {"logsni", "example", "ratelimit-global", "sni-router", "simple-router", "terminator"}
  BY DEF RouteStep, PassThrough, RouteBySNI, RouteSimple, Terminate, Runs
<1>4. \A j \in 1..(at' - 1) : chain'[j] # "forwarder"
  BY <1>1, <1>2, <1>3 DEF RouteInv
<1>5. \A i, H, r : IsLast(i, H, r)' <=> IsLast(i, H, r)
  BY <1>1 DEF IsLast
<1>6. \A r : Sets(r)' = Sets(r)
  BY <1>1 DEF Sets
<1>7. \A i : Configured(i)' = Configured(i)
  <2>1. \A i : LastOf(i, Setters)' = LastOf(i, Setters)
    BY <1>1, Zenon DEF LastOf, IsLast
  <2>2. QED
    BY <1>1, <1>6, <2>1 DEF Configured
<1>8. Before(at, "terminator")' <=> Before(at, "terminator") \/ chain[at] = "terminator"
  BY <1>1, <1>2 DEF Before
<1>9. CASE PassThrough
  <2>1. chain[at] \notin Setters /\ chain[at] # "terminator" /\ backend' = backend /\ mapping' = mapping
    BY <1>9 DEF PassThrough, Runs, Setters, Routers
  <2>2. \A r \in 1..(at - 1) : /\ IsLast(at, Setters, r) => IsLast(at', Setters, r)
                               /\ IsLast(at, {"terminator"}, r) => IsLast(at', {"terminator"}, r)
    BY <1>1, <2>1, LastMoves
  <2>3. Chosen'
    BY <1>1, <1>2, <1>5, <1>6, <2>1, <2>2 DEF RouteInv, Chosen
  <2>4. Entry'
    BY <1>1, <1>2, <1>5, <1>7, <1>8, <2>1, <2>2 DEF RouteInv, Entry
  <2>5. QED
    BY <1>1, <1>4, <2>3, <2>4 DEF RouteInv
<1>10. ASSUME NEW h \in Routers, NEW list, IsList(list), Runs(h), RouteTo(h, list),
              list = IF h = "sni-router" THEN Routes[sni] ELSE Backends
       PROVE  RouteInv'
  <2>1. chain[at] = h /\ chain[at] \in Setters /\ chain[at] # "terminator" /\ mapping' = mapping
    BY <1>10 DEF Runs, RouteTo, Setters, Routers
  <2>2. IsLast(at', Setters, at)
    BY <1>1, <2>1, LastMoves
  <2>3. backend' \in Sets(at)
    <3>1. counter[h] \in Nat
      BY DEF Typed
    <3>2. backend' \in {list[k] : k \in DOMAIN list}
      BY <1>10, <3>1, NextOfList DEF RouteTo
    <3>3. QED
      BY <1>10, <2>1, <3>2 DEF Sets
  <2>4. Chosen'
    BY <1>1, <1>2, <1>5, <1>6, <2>2, <2>3 DEF Chosen
  <2>5. \A r \in 1..(at - 1) : IsLast(at, {"terminator"}, r) => IsLast(at', {"terminator"}, r)
    BY <1>1, <2>1, LastMoves
  <2>6. Entry'
    BY <1>1, <1>2, <1>5, <1>7, <1>8, <2>1, <2>5 DEF RouteInv, Entry
  <2>7. QED
    BY <1>1, <1>4, <2>4, <2>6 DEF RouteInv
<1>11. CASE RouteBySNI
  <2>1. sni \in DOMAIN Routes /\ IsList(Routes[sni])
    BY <1>11, RoutingAssumption DEF RouteBySNI
  <2>2. QED
    BY <1>10, <1>11, <2>1 DEF RouteBySNI, Routers
<1>12. CASE RouteSimple
  BY <1>10, <1>12, RoutingAssumption DEF RouteSimple, Routers
<1>13. CASE Terminate
  <2>1. chain[at] = "terminator" /\ chain[at] \in Setters /\ mapping' = backend /\ backend' = Internal
    BY <1>13 DEF Terminate, Runs, Setters
  <2>2. IsLast(at', Setters, at) /\ IsLast(at', {"terminator"}, at)
    BY <1>1, <2>1, LastMoves
  <2>3. Chosen'
    <3>1. backend' \in Sets(at)
      BY <2>1 DEF Sets
    <3>2. QED
      BY <1>1, <1>2, <1>5, <1>6, <2>2, <3>1 DEF Chosen
  <2>4. Entry'
    <3>1. mapping' \in Configured(at)
      BY <2>1, ChosenConfigured DEF RouteInv
    <3>2. QED
      BY <1>1, <1>2, <1>5, <1>7, <2>2, <3>1 DEF Entry
  <2>5. QED
    BY <1>1, <1>4, <2>3, <2>4 DEF RouteInv
<1>14. QED
  BY <1>9, <1>11, <1>12, <1>13 DEF RouteStep

\* The forwarder and the end of the session leave the route alone.
LEMMA RouteInvStep == ASSUME Typed, CloseInv, RouteInv, [Next]_vars PROVE RouteInv'
<1>0. ASSUME UNCHANGED <<chain, sni, at, backend>>
      PROVE  /\ Chosen' <=> Chosen
             /\ \A t : IsLast(at, {"terminator"}, t)' <=> IsLast(at, {"terminator"}, t)
             /\ \A t : Configured(t)' = Configured(t)
             /\ Before(at, "terminator")' <=> Before(at, "terminator")
             /\ Runs("forwarder")' <=> Runs("forwarder")
  <2>1. \A i, H, r : IsLast(i, H, r)' <=> IsLast(i, H, r)
    BY <1>0 DEF IsLast
  <2>2. \A r : Sets(r)' = Sets(r)
    BY <1>0 DEF Sets
  <2>3. \A i : LastOf(i, Setters)' = LastOf(i, Setters)
    BY <1>0, Zenon DEF LastOf, IsLast
  <2>4. \A i : Configured(i)' = Configured(i)
    BY <1>0, <2>2, <2>3 DEF Configured
  <2>5. QED
    BY <1>0, <2>1, <2>2, <2>4 DEF Chosen, Before, Runs
<1>1. CASE RunHandler
  <2>1. ~Unregistered
    BY <1>1 DEF RunHandler, CloseInv, Unregistered, Ending
  <2>2. QED
    BY <1>1, <2>1, RouteStepKeeps DEF RunHandler
<1>2. ASSUME UNCHANGED routing, phase' \in {"dialed", "live"} => phase \in {"dialed", "live"} \/ (Runs("forwarder") /\ backend # None),
             Unregistered' <=> Unregistered
      PROVE  RouteInv'
  <2>1. UNCHANGED <<chain, sni, at, backend, mapping>>
    BY <1>2 DEF routing
  <2>2. Entry'
    BY <1>0, <1>2, <2>1 DEF RouteInv, Entry
  <2>3. QED
    BY <1>0, <1>2, <2>1, <2>2 DEF RouteInv
<1>3. CASE UNCHANGED <<routing, phase, closer>>
  BY <1>2, <1>3 DEF Unregistered, Ending
<1>4. CASE DropConnection \/ DialFails \/ Dial \/ InitialFails \/ Connected
  <2>1. /\ UNCHANGED <<routing, closer>>
        /\ phase' \in {"dropped", "dialed", "live"} /\ phase # "ended"
        /\ phase' \in {"dialed", "live"} => phase \in {"dialed", "live"} \/ (Runs("forwarder") /\ backend # None)
    BY <1>4 DEF DropConnection, DialFails, Dial, InitialFails, Connected
  <2>2. QED
    BY <1>2, <2>1 DEF Unregistered, Ending
<1>5. CASE CleanupIdle \/ \E c \in Closers : Disconnect(c)
  <2>1. PICK c \in Closers : closer[c] = "idle" /\ closer' = [closer EXCEPT ![c] = "unregister"]
    BY <1>5 DEF CleanupIdle, Disconnect, Begin, Closers
  <2>2. UNCHANGED <<phase, routing>>
    BY <1>5 DEF CleanupIdle, Disconnect
  <2>3. \A d \in Closers : closer'[d] = IF d = c THEN "unregister" ELSE closer[d]
    BY <2>1 DEF Typed, TypeOK
  <2>4. Unregistered' <=> Unregistered
    BY <2>1, <2>2, <2>3 DEF Unregistered, Ending
  <2>5. QED
    BY <1>2, <2>2, <2>4
<1>6. ASSUME NEW c \in Closers, UnregisterBackend(c) PROVE RouteInv'
  <2>1. UNCHANGED <<chain, sni, at, backend, phase>> /\ mapping' = None /\ closer'[c] = "close"
    BY <1>6 DEF UnregisterBackend, Unregister, Typed, TypeOK
  <2>2. Unregistered'
    BY <2>1 DEF Unregistered, Ending
  <2>3. Entry'
    BY <2>1, <2>2 DEF Entry
  <2>4. QED
    BY <1>0, <2>1, <2>3 DEF RouteInv
<1>7. ASSUME NEW c \in Closers, Close(c) \/ CloseConn(c) \/ Remove(c) PROVE RouteInv'
  <2>1. /\ UNCHANGED routing /\ (phase' = phase \/ phase' = "ended") /\ Ending(c)
        /\ \/ phase' = phase /\ closer'[c] \in {"closeConn", "remove"}
           \/ phase' = "ended"
    BY <1>7 DEF Close, CloseConn, Remove, Ending, Typed, TypeOK
  <2>2. Unregistered /\ Unregistered'
    BY <2>1 DEF Unregistered, Ending
  <2>3. QED
    BY <1>2, <2>1, <2>2
<1>8. QED
  BY <1>1, <1>3, <1>4, <1>5, <1>6, <1>7
     DEF Next, ConnectStep, ClockTick, Second, BackendSends, ReaderStep, ReaderStops, SetReadDeadline,
         ReadFromBackend, ReadError, TouchOutbound, WriteToClient, WriteToClientFails, ReaderGone,
         OnPacket, WriterStep, DropClosed, TouchInbound, WriteToBackend, CloserStep, vars, conn

\* A connection goes to a backend that its configuration names, in whatever
\* order the handlers stand, and the terminator's entry leads there for as
\* long as the session lasts and no longer.
THEOREM RouteSafe == Spec => []RoutedAsConfigured
<1>1. Init => RouteInv
  <2> SUFFICES ASSUME Init PROVE RouteInv
    OBVIOUS
  <2>1. at = 1 /\ backend = None /\ mapping = None /\ phase = "new" /\ \A c \in Closers : closer[c] = "idle"
    BY DEF Init, RoutingInit
  <2>2. 1..(1 - 1) = {}
    OBVIOUS
  <2>3. QED
    BY <2>1, <2>2 DEF RouteInv, Chosen, Entry, Before, Unregistered, Ending
<1>2. Typed /\ CloseInv /\ RouteInv => RoutedAsConfigured
  <2> SUFFICES ASSUME Typed, CloseInv, RouteInv PROVE RoutedAsConfigured
    OBVIOUS
  <2>1. ASSUME phase \in {"dialed", "live"}
        PROVE  /\ backend \in Configured(Position("forwarder")) \ {None}
               /\ IF Before(Position("forwarder"), "terminator")
                  THEN \/ mapping \in Configured(LastOf(Position("forwarder"), {"terminator"}))
                       \/ mapping = None /\ ~(\A c \in Closers : closer[c] = "idle")
                  ELSE mapping = None
    <3>1. at \in Nat \ {0} /\ Len(chain) \in Nat /\ DOMAIN chain = 1..Len(chain)
      BY LenProperties DEF Typed, TypeOK
    <3>2. at \in DOMAIN chain /\ chain[at] = "forwarder" /\ ~Before(at, "forwarder") /\ backend # None
      BY <2>1, <3>1 DEF RouteInv, Runs, Before
    <3>3. ASSUME NEW i \in DOMAIN chain, chain[i] = "forwarder", ~Before(i, "forwarder") PROVE i = at
      <4>1. CASE i < at
        <5>1. i \in 1..(at - 1)
          BY <3>1, <4>1
        <5>2. QED
          BY <3>3, <5>1 DEF RouteInv
      <4>2. CASE at < i
        <5>1. at \in 1..(i - 1)
          BY <3>1, <4>2
        <5>2. QED
          BY <3>2, <3>3, <5>1 DEF Before
      <4>3. QED
        BY <3>1, <4>1, <4>2
    <3>4. Position("forwarder") = at
      <4>1. /\ Position("forwarder") \in DOMAIN chain
            /\ chain[Position("forwarder")] = "forwarder"
            /\ ~Before(Position("forwarder"), "forwarder")
        BY <3>2, Zenon DEF Position
      <4>2. QED
        BY <3>3, <4>1
    <3>5. backend \in Configured(at)
      BY ChosenConfigured DEF RouteInv
    <3>6. Unregistered => \E c \in Closers : closer[c] # "idle"
      BY <2>1 DEF Unregistered, Ending
    <3>7. CASE mapping = None
      <4>1. CASE ~Before(at, "terminator")
        BY <3>2, <3>4, <3>5, <3>7, <4>1
      <4>2. CASE Unregistered
        BY <3>2, <3>4, <3>5, <3>6, <3>7, <4>2
      <4>3. CASE \E t \in 1..(at - 1) : IsLast(at, {"terminator"}, t) /\ mapping \in Configured(t)
        BY <3>1, <3>2, <3>4, <3>5, <3>7, <4>3, LastIs
      <4>4. QED
        BY <4>1, <4>2, <4>3 DEF RouteInv, Entry
    <3>8. CASE mapping # None
      <4>1. PICK t \in 1..(at - 1) : IsLast(at, {"terminator"}, t) /\ mapping \in Configured(t)
        BY <3>8 DEF RouteInv, Entry
      <4>2. LastOf(at, {"terminator"}) = t /\ Before(at, "terminator")
        BY <3>1, <4>1, LastIs DEF Before, IsLast
      <4>3. QED
        BY <3>2, <3>4, <3>5, <4>1, <4>2
    <3>9. QED
      BY <3>7, <3>8
  <2>2. phase = "ended" => mapping = None
    BY DEF RouteInv, Unregistered
  <2>3. QED
    BY <2>1, <2>2 DEF RoutedAsConfigured
<1>3. QED
  BY <1>1, <1>2, RouteInvStep, AlwaysCloses, PTL DEF Spec
=============================================================================
