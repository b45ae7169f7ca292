------------------------- MODULE ConnectionRegistry -------------------------
(***************************************************************************)
(* The connections of one Server: the accept loop of Serve, the goroutine  *)
(* of each connection as far as registration, cancellation and teardown    *)
(* go, and concurrent calls of Shutdown (smtpserver/connections.go,        *)
(* cmd_server.go, loop.go and Server.Shutdown in server.go).  A step is    *)
(* what happens under one hold of the registry's mutex, or one blocking    *)
(* call; what a command does to its session is module ServerSession.       *)
(***************************************************************************)
EXTENDS Naturals, FiniteSets

CONSTANTS
    Conns, Sources,
    SourceOf,         \* connectionSourceForAddr of each connection's peer
    Max, MaxSource,   \* MaxConnections and MaxConnectionsPerSource
    Callers,          \* goroutines that may call Shutdown
    Free, Done        \* shutdownOnce before and after its one execution

ASSUME RegistryAssumption ==
    /\ IsFiniteSet(Conns)
    /\ SourceOf \in [Conns -> Sources]
    /\ Max \in Nat \ {0} /\ MaxSource \in Nat \ {0}
    /\ Free \notin Callers /\ Done \notin Callers /\ Free # Done

VARIABLES
    accepting, active, bySource, wait,   \* connectionRegistry
    listening,        \* the listener is open
    served,           \* Serve's context is cancelled
    handler,          \* where the goroutine of each connection is
    cancelled,        \* connections whose context Shutdown cancelled
    closed,           \* connections whose transport is closed
    told,             \* history: connections the registry dismissed with a 421
    caller,           \* where each Shutdown call is
    expired,          \* Shutdown calls whose context has expired
    once,             \* shutdownOnce: Free, the caller that runs it, or Done
    todo,             \* connections still to be cancelled or force-closed
    shutdownErr       \* Server.shutdownErr

registry == <<accepting, active, bySource, wait>>
shutdownState == <<caller, expired, once, todo, shutdownErr>>
vars == <<registry, listening, served, handler, cancelled, closed, told,
          shutdownState>>

\* The states of a handler between register and unregister.
Serving == {"starting", "top", "reading", "executing", "leaving", "shut"}

Init ==
    /\ accepting = TRUE /\ active = {} /\ wait = 0
    /\ bySource = [s \in Sources |-> 0]
    /\ listening = TRUE /\ served = FALSE
    /\ handler = [c \in Conns |-> "new"]
    /\ cancelled = {} /\ closed = {} /\ told = {}
    /\ caller = [k \in Callers |-> "idle"]
    /\ expired = {} /\ once = Free /\ todo = {} /\ shutdownErr = "nil"

Become(c, to) == handler' = [handler EXCEPT ![c] = to]

(***************************************************************************)
(* Serve: one goroutine accepts and registers.  It may also return for     *)
(* good after a failed Accept, which is to accept no more.                 *)
(***************************************************************************)
Accept(c) ==
    /\ listening
    /\ handler[c] = "new"
    /\ \A d \in Conns : handler[d] # "accepted"
    /\ Become(c, "accepted")
    /\ UNCHANGED <<registry, listening, served, cancelled, closed, told,
                   shutdownState>>

\* Mutant: the limit of one source is checked one too late.
refusedLate(c) == ~accepting \/ Cardinality(active) >= Max
                  \/ bySource[SourceOf[c]] > MaxSource

refused(c) == ~accepting \/ Cardinality(active) >= Max
              \/ bySource[SourceOf[c]] >= MaxSource

register(c) ==
    /\ handler[c] = "accepted"
    /\ \/ /\ refused(c)                  \* writeConnectionLimit, Close
          /\ told' = told \union {c}
          /\ closed' = closed \union {c}
          /\ Become(c, "refused")
          /\ UNCHANGED registry
       \/ /\ ~refused(c)
          /\ active' = active \union {c}
          /\ bySource' = [bySource EXCEPT ![SourceOf[c]] = @ + 1]
          /\ wait' = wait + 1
          /\ Become(c, "starting")
          /\ UNCHANGED <<accepting, told, closed>>
    /\ UNCHANGED <<listening, served, cancelled, shutdownState>>

\* Serve's own context ends: the listener is closed, and so is every context
\* derived from it.
cancelServe ==
    /\ ~served
    /\ served' = TRUE /\ listening' = FALSE
    /\ UNCHANGED <<registry, handler, cancelled, closed, told, shutdownState>>

(***************************************************************************)
(* serveConnection.                                                        *)
(***************************************************************************)
handlerOnly == UNCHANGED <<registry, listening, served, cancelled, closed, told,
                           shutdownState>>

\* Handshake, NewSession and greeting, or the failure of one of them.
start(c) ==
    /\ handler[c] = "starting"
    /\ Become(c, "top") \/ Become(c, "leaving")
    /\ handlerOnly

\* Mutant: the loop does not look at its context.
loopForever(c) ==
    /\ handler[c] = "top"
    /\ Become(c, "reading")
    /\ handlerOnly

\* The head of commandLoop.run.
loopTop(c) ==
    /\ handler[c] = "top"
    /\ IF c \in cancelled \/ served
         THEN Become(c, "leaving")
         ELSE Become(c, "reading")
    /\ handlerOnly

\* A command, which may be one buffered before the transport was force-closed; or
\* EOF, an error, the read deadline.  A cancelled context does not interrupt it.
readCommand(c) ==
    /\ handler[c] = "reading"
    /\ Become(c, "executing") \/ Become(c, "leaving")
    /\ handlerOnly

\* A backend call is bounded by its context only if the backend heeds it.
execute(c) ==
    /\ handler[c] = "executing"
    /\ Become(c, "top") \/ Become(c, "leaving")
    /\ handlerOnly

\* The deferred calls, last first: the session, the transport, unregister.
leave(c) ==
    /\ handler[c] = "leaving"
    /\ Become(c, "shut")
    /\ closed' = closed \union {c}
    /\ UNCHANGED <<registry, listening, served, cancelled, told, shutdownState>>

unregister(c) ==
    /\ handler[c] = "shut"
    /\ active' = active \ {c}
    /\ bySource' = [bySource EXCEPT ![SourceOf[c]] = @ - 1]
    /\ Become(c, "unregistered")
    /\ UNCHANGED <<accepting, wait, listening, served, cancelled, closed, told,
                   shutdownState>>

waitDone(c) ==
    /\ handler[c] = "unregistered"
    /\ wait' = wait - 1
    /\ Become(c, "gone")
    /\ UNCHANGED <<accepting, active, bySource, listening, served, cancelled,
                   closed, told, shutdownState>>

(***************************************************************************)
(* Shutdown.  All of it runs inside shutdownOnce; other callers wait for   *)
(* the first and return its answer.                                        *)
(***************************************************************************)
Step(k, from, to) == caller[k] = from /\ caller' = [caller EXCEPT ![k] = to]
connectionsOnly == UNCHANGED <<handler, told, served>>

Shutdown(k) ==
    /\ Step(k, "idle", "called")
    /\ UNCHANGED <<registry, listening, cancelled, closed, expired, once, todo,
                   shutdownErr>> /\ connectionsOnly

expire(k) ==
    /\ caller[k] \notin {"idle", "returned"} /\ k \notin expired
    /\ expired' = expired \union {k}
    /\ UNCHANGED <<registry, listening, cancelled, closed, caller, once, todo,
                   shutdownErr>> /\ connectionsOnly

closeListener(k) ==
    /\ once = Free
    /\ Step(k, "called", "stopping")
    /\ once' = k
    /\ \/ listening' = FALSE /\ UNCHANGED shutdownErr
       \/ listening /\ shutdownErr' = "listener" /\ UNCHANGED listening
    /\ UNCHANGED <<registry, cancelled, closed, expired, todo>>
    /\ connectionsOnly

stopAccepting(k) ==
    /\ Step(k, "stopping", "cancelling")
    /\ accepting' = FALSE
    /\ todo' = active
    /\ UNCHANGED <<active, bySource, wait, listening, cancelled, closed, expired,
                   once, shutdownErr>> /\ connectionsOnly

cancelOne(k) ==
    /\ caller[k] = "cancelling"
    /\ IF todo = {} THEN Step(k, "cancelling", "waiting") /\ UNCHANGED <<todo, cancelled>>
       ELSE \E c \in todo : /\ cancelled' = cancelled \union {c}
                            /\ todo' = todo \ {c}
                            /\ UNCHANGED caller
    /\ UNCHANGED <<registry, listening, closed, expired, once, shutdownErr>>
    /\ connectionsOnly

Return(k, from, err) ==
    /\ Step(k, from, "returned")
    /\ shutdownErr' = IF shutdownErr = "nil" THEN err ELSE shutdownErr
    /\ once' = Done

\* Mutant: the handlers that have left the map are not waited for.
drainedMap == active = {}

\* WaitGroup.Wait has returned.
drained == wait = 0

awaitHandlers(k) ==
    /\ drained
    /\ Return(k, "waiting", "nil")
    /\ UNCHANGED <<registry, listening, cancelled, closed, expired, todo>>
    /\ connectionsOnly

giveUp(k) ==
    /\ k \in expired
    /\ Step(k, "waiting", "forcing")
    /\ todo' = active
    /\ UNCHANGED <<registry, listening, cancelled, closed, expired, once, shutdownErr>>
    /\ connectionsOnly

\* Mutant: when the last transport is closed the call waits once more.
closeOneAndWait(k) ==
    /\ caller[k] = "forcing"
    /\ IF todo = {} THEN Step(k, "forcing", "waiting")
                         /\ UNCHANGED <<todo, closed, once, shutdownErr>>
       ELSE \E c \in todo : /\ closed' = closed \union {c}
                            /\ todo' = todo \ {c}
                            /\ UNCHANGED <<caller, once, shutdownErr>>
    /\ UNCHANGED <<registry, listening, cancelled, expired>>
    /\ connectionsOnly

closeOne(k) ==
    /\ caller[k] = "forcing"
    /\ IF todo = {} THEN Return(k, "forcing", "expired") /\ UNCHANGED <<todo, closed>>
       ELSE \E c \in todo : /\ closed' = closed \union {c}
                            /\ todo' = todo \ {c}
                            /\ UNCHANGED <<caller, once, shutdownErr>>
    /\ UNCHANGED <<registry, listening, cancelled, expired>>
    /\ connectionsOnly

\* A later caller of Once.Do.
followFirst(k) ==
    /\ once = Done
    /\ Step(k, "called", "returned")
    /\ UNCHANGED <<registry, listening, cancelled, closed, expired, once, todo,
                   shutdownErr>> /\ connectionsOnly

shutdownStep(k) ==
    \/ closeListener(k) \/ stopAccepting(k) \/ cancelOne(k) \/ awaitHandlers(k)
    \/ giveUp(k) \/ closeOne(k) \/ followFirst(k)

\* What a goroutine does without waiting for the backend: the read has a
\* deadline, everything else does not block.
handlerStep(c) ==
    \/ loopTop(c) \/ readCommand(c) \/ leave(c) \/ unregister(c) \/ waitDone(c)

\* Every connection and every caller is done.
Finished ==
    /\ \A c \in Conns : handler[c] \in {"new", "refused", "gone"}
    /\ \A k \in Callers : caller[k] = "returned"
    /\ UNCHANGED vars

Next ==
    \/ \E c \in Conns : \/ Accept(c) \/ register(c)
                        \/ start(c) \/ loopTop(c) \/ readCommand(c) \/ execute(c)
                        \/ leave(c) \/ unregister(c) \/ waitDone(c)
    \/ cancelServe
    \/ \E k \in Callers : Shutdown(k) \/ expire(k) \/ shutdownStep(k)
    \/ Finished

\* Goroutines run, and reads end by their deadline.  Nothing is assumed of the
\* peers, of the callers' deadlines or of the backend.
Spec ==
    /\ Init /\ [][Next]_vars
    /\ \A c \in Conns : WF_vars(register(c)) /\ WF_vars(handlerStep(c))
    /\ \A k \in Callers : WF_vars(shutdownStep(k))

\* The backend returns from its calls.
BackendReturns == \A c \in Conns : WF_vars(start(c)) /\ WF_vars(execute(c))

------------------------------------------------------------------------------
\* Every variable keeps its type.
TypeOK ==
    /\ accepting \in BOOLEAN /\ active \subseteq Conns
    /\ bySource \in [Sources -> 0..Cardinality(Conns)]
    /\ wait \in 0..Cardinality(Conns)
    /\ listening \in BOOLEAN /\ served \in BOOLEAN
    /\ handler \in [Conns -> Serving \union
                    {"new", "accepted", "refused", "unregistered", "gone"}]
    /\ cancelled \subseteq Conns /\ closed \subseteq Conns
    /\ told \subseteq Conns
    /\ caller \in [Callers -> {"idle", "called", "stopping", "cancelling",
                               "waiting", "forcing", "returned"}]
    /\ expired \subseteq Callers /\ once \in Callers \union {Free, Done}
    /\ todo \subseteq Conns
    /\ shutdownErr \in {"nil", "listener", "expired"}

\* The three counts of the registry agree with the goroutines there are: the
\* map, the count of each source and the WaitGroup (register, unregister).
RegistryExact ==
    /\ active = {c \in Conns : handler[c] \in Serving}
    /\ \A s \in Sources : bySource[s] = Cardinality({c \in active : SourceOf[c] = s})
    /\ wait = Cardinality({c \in Conns : handler[c] \in Serving \union {"unregistered"}})

\* Never more served transports open than MaxConnections, nor more of one
\* source than MaxConnectionsPerSource, however accepts and exits interleave.
LimitsKept ==
    LET open == {c \in Conns : handler[c] \in Serving /\ c \notin closed}
    IN  /\ Cardinality(open) <= Max
        /\ \A s \in Sources : Cardinality({c \in open : SourceOf[c] = s}) <= MaxSource

\* What Shutdown's answer means, now and ever after: nil, that no goroutine
\* serves or is still to be counted off, and none can start any more (register
\* against shutdown); any answer, that the transport of every connection that is
\* still there has been closed.
AnswerHolds ==
    once = Done =>
        /\ active \subseteq closed
        /\ shutdownErr = "nil" =>
              \A c \in Conns : handler[c] \in {"new", "accepted", "refused", "gone"}

\* Once Shutdown waits, every registered connection has been cancelled and the
\* WaitGroup only falls: no registration slips in behind the snapshot, and Add
\* never races Wait.
NoneSlipsIn ==
    [][\A k \in Callers : caller[k] \in {"waiting", "forcing"} =>
         active \subseteq cancelled /\ wait' <= wait]_vars

\* The call that runs the shutdown returns once its context expires, although a
\* backend may never return.
RunnerGivesUp ==
    \A k \in Callers : once = k /\ k \in expired ~> caller[k] = "returned"

\* If the backend returns from its calls, every Shutdown returns, also without
\* a deadline: reads end by their own and the loop then sees the cancellation.
ShutdownReturns ==
    BackendReturns => \A k \in Callers : caller[k] = "called" ~> caller[k] = "returned"

\* Statement of docs/SERVER-DESIGN.md: a graceful shutdown sends 421 at the next
\* protocol-legal point and closes.
ShutdownTells421 ==
    [][\A c \in cancelled :
         handler[c] = "top" /\ handler'[c] = "leaving" => c \in told']_vars

==============================================================================
