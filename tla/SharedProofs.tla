---------------------------- MODULE SharedProofs ----------------------------
(***************************************************************************)
(* What all connections of one Server share: proofs about the registry of  *)
(* connections (ConnectionRegistry) and about the storage budget of BDAT   *)
(* (Spool), for any number of connections, sources and callers of          *)
(* Shutdown, any number of sessions, and any limits.                       *)
(***************************************************************************)
EXTENDS ConnectionRegistry, Spool, FiniteSetTheorems, TLAPS

-----------------------------------------------------------------------------
(***************************************************************************)
(* The registry.                                                           *)
(***************************************************************************)
States == Serving \union {"new", "accepted", "refused", "unregistered", "gone"}
Running == {"stopping", "cancelling", "waiting", "forcing"}

\* Who is in the map, and for whom the WaitGroup waits.
Served == {c \in Conns : handler[c] \in Serving}
Awaited == {c \in Conns : handler[c] \in Serving \union {"unregistered"}}
From(s) == {c \in active : SourceOf[c] = s}

Types ==
    /\ accepting \in BOOLEAN /\ active \subseteq Conns
    /\ bySource \in [Sources -> Nat] /\ wait \in Nat
    /\ listening \in BOOLEAN /\ served \in BOOLEAN
    /\ handler \in [Conns -> States]
    /\ cancelled \subseteq Conns /\ closed \subseteq Conns /\ told \subseteq Conns
    /\ caller \in [Callers -> Running \union {"idle", "called", "returned"}]
    /\ expired \subseteq Callers /\ once \in Callers \union {Free, Done}
    /\ todo \subseteq Conns /\ shutdownErr \in {"nil", "listener", "expired"}

AtMost ==
    /\ Cardinality(active) <= Max
    /\ \A s \in Sources : bySource[s] <= MaxSource

(***************************************************************************)
(* What Shutdown has achieved at each of its steps.  The snapshots it      *)
(* works from are stale: that they still cover the map is due to accepting *)
(* being FALSE since the first of them, and that there is one snapshot is  *)
(* due to shutdownOnce.                                                    *)
(***************************************************************************)
RunnerInv ==
    /\ \A k \in Callers :
          /\ caller[k] \in Running => once = k
          /\ caller[k] \in {"cancelling", "waiting", "forcing"} => ~accepting
          /\ caller[k] = "cancelling" => active \subseteq cancelled \union todo
          /\ caller[k] \in {"waiting", "forcing"} => active \subseteq cancelled
          /\ caller[k] = "forcing" => active \subseteq closed \union todo
    /\ once = Done => ~accepting /\ active \subseteq closed
    /\ once = Done /\ shutdownErr = "nil" => wait = 0

RegistryInv == Types /\ RegistryExact /\ AtMost /\ RunnerInv

-----------------------------------------------------------------------------
\* Every set of connections is finite.
LEMMA FiniteParts ==
    ASSUME NEW A, A \subseteq Conns
    PROVE  IsFiniteSet(A) /\ Cardinality(A) \in Nat /\ Cardinality(A) <= Cardinality(Conns)
           /\ Cardinality(Conns) \in Nat
BY RegistryAssumption, FS_Subset, FS_CardinalityType

\* A goroutine that moves within the map, or outside of it, changes no count.
LEMMA SameCounts ==
    ASSUME RegistryInv, NEW c \in Conns, NEW to \in States, Become(c, to),
           UNCHANGED registry,
           \/ handler[c] \in Serving /\ to \in Serving
           \/ handler[c] \in {"new", "accepted"} /\ to \in {"accepted", "refused"}
    PROVE  RegistryExact' /\ AtMost' /\ handler' \in [Conns -> States]
<1>1. handler' \in [Conns -> States] /\ handler' = [handler EXCEPT ![c] = to]
  BY DEF RegistryInv, Types, Become
<1>2. Served' = Served /\ Awaited' = Awaited
  BY <1>1 DEF RegistryInv, Types, Served, Awaited, States, Serving
<1>3. active' = active /\ bySource' = bySource /\ wait' = wait
  BY DEF registry
<1> QED
  BY <1>1, <1>2, <1>3 DEF RegistryInv, RegistryExact, AtMost, Served, Awaited

\* What Shutdown has achieved is not undone by connections that leave.
LEMMA RunnerMonotone ==
    ASSUME RegistryInv, UNCHANGED <<accepting, shutdownState>>,
           active' \subseteq active, cancelled \subseteq cancelled',
           closed \subseteq closed', wait = 0 => wait' = 0
    PROVE  RunnerInv'
BY DEF RegistryInv, RunnerInv, shutdownState

\* A step of a goroutine that touches neither the registry nor Shutdown.
LEMMA GoroutineStep ==
    ASSUME RegistryInv, NEW c \in Conns, NEW to \in States, Become(c, to),
           UNCHANGED <<registry, listening, served, cancelled, shutdownState>>,
           closed' \in {closed, closed \union {c}}, told' \in {told, told \union {c}},
           \/ handler[c] \in Serving /\ to \in Serving
           \/ handler[c] \in {"new", "accepted"} /\ to \in {"accepted", "refused"}
    PROVE  RegistryInv'
<1>1. RegistryExact' /\ AtMost' /\ handler' \in [Conns -> States]
  BY SameCounts
<1>2. RunnerInv'
  BY RunnerMonotone DEF registry
<1>3. Types'
  BY <1>1 DEF RegistryInv, Types, registry, shutdownState
<1> QED
  BY <1>1, <1>2, <1>3 DEF RegistryInv

\* register under the lock: both limits are looked at and the three counts rise.
LEMMA RegisterKeeps ==
    ASSUME RegistryInv, NEW c \in Conns, register(c)
    PROVE  RegistryInv'
<1>1. CASE refused(c)
  <2>1. /\ Become(c, "refused") /\ UNCHANGED registry /\ handler[c] = "accepted"
        /\ told' = told \union {c} /\ closed' = closed \union {c}
        /\ UNCHANGED <<listening, served, cancelled, shutdownState>>
    BY <1>1 DEF register
  <2> QED
    BY <2>1, GoroutineStep DEF States
<1>2. CASE ~refused(c)
  <2>1. /\ active' = active \union {c}
        /\ bySource' = [bySource EXCEPT ![SourceOf[c]] = @ + 1]
        /\ wait' = wait + 1
        /\ handler' = [handler EXCEPT ![c] = "starting"]
        /\ handler[c] = "accepted"
        /\ UNCHANGED <<accepting, told, closed, listening, served, cancelled,
                       shutdownState>>
    BY <1>2 DEF register, Become
  <2>2. /\ accepting /\ Cardinality(active) < Max
        /\ bySource[SourceOf[c]] < MaxSource
        /\ SourceOf[c] \in Sources /\ Cardinality(active) \in Nat
    BY <1>2, FiniteParts, RegistryAssumption DEF refused, RegistryInv, Types
  <2>3. Types'
    BY <2>1, <2>2 DEF RegistryInv, Types, States, Serving, shutdownState
  <2>4. c \notin Served /\ c \notin Awaited /\ c \notin active
    BY <2>1 DEF RegistryInv, RegistryExact, Served, Awaited, Serving
  <2>5. Served' = Served \union {c} /\ Awaited' = Awaited \union {c}
    BY <2>1 DEF RegistryInv, Types, Served, Awaited, Serving
  <2>6. Cardinality(active') = Cardinality(active) + 1 /\ active' = Served'
    BY Zenon, <2>1, <2>4, <2>5, FiniteParts, FS_AddElement
       DEF RegistryInv, RegistryExact, Types, Served
  <2>7. wait' = Cardinality(Awaited')
    BY Zenon, <2>1, <2>4, <2>5, FiniteParts, FS_AddElement
       DEF RegistryInv, RegistryExact, Awaited
  <2>8. ASSUME NEW s \in Sources
        PROVE  bySource'[s] = Cardinality(From(s)') /\ bySource'[s] <= MaxSource
    <3>1. bySource[s] = Cardinality(From(s)) /\ bySource[s] \in Nat /\ bySource[s] <= MaxSource
      BY DEF RegistryInv, RegistryExact, From, Types, AtMost
    <3>2. CASE s = SourceOf[c]
      <4>1. From(s)' = From(s) \union {c} /\ c \notin From(s)
        BY <2>1, <2>4, <3>2 DEF From
      <4>2. Cardinality(From(s)') = Cardinality(From(s)) + 1
        BY Zenon, <4>1, FiniteParts, FS_AddElement DEF From, RegistryInv, Types
      <4> QED
        BY <2>1, <2>2, <3>1, <3>2, <4>2, RegistryAssumption DEF RegistryInv, Types
    <3>3. CASE s # SourceOf[c]
      <4>1. From(s)' = From(s)
        BY <2>1, <3>3 DEF From
      <4> QED
        BY <2>1, <3>1, <3>3, <4>1 DEF RegistryInv, Types
    <3> QED
      BY <3>2, <3>3
  <2>9. RegistryExact'
    BY <2>6, <2>7, <2>8 DEF RegistryExact, Served, Awaited, From
  <2>11. AtMost'
    BY <2>2, <2>6, <2>8, RegistryAssumption DEF AtMost
  <2>10. RunnerInv'
    BY <2>1, <2>2 DEF RegistryInv, RunnerInv, shutdownState, Running
  <2> QED
    BY <2>3, <2>9, <2>10, <2>11 DEF RegistryInv
<1> QED
  BY <1>1, <1>2

\* unregister takes the connection out of the map and the count of its source.
LEMMA UnregisterKeeps ==
    ASSUME RegistryInv, NEW c \in Conns, unregister(c)
    PROVE  RegistryInv'
<1>1. /\ active' = active \ {c}
      /\ bySource' = [bySource EXCEPT ![SourceOf[c]] = @ - 1]
      /\ handler' = [handler EXCEPT ![c] = "unregistered"]
      /\ handler[c] = "shut"
      /\ UNCHANGED <<accepting, wait, told, closed, listening, served, cancelled,
                     shutdownState>>
  BY DEF unregister, Become
<1>2. c \in active /\ SourceOf[c] \in Sources
  BY <1>1, RegistryAssumption DEF RegistryInv, RegistryExact, Serving
<1>3. Served' = Served \ {c} /\ Awaited' = Awaited
  BY <1>1 DEF RegistryInv, Types, Served, Awaited, Serving
<1>4. Cardinality(active') <= Cardinality(active) /\ Cardinality(active) \in Nat
      /\ Cardinality(active') \in Nat
  BY <1>1, FiniteParts, FS_RemoveElement DEF RegistryInv, Types
<1>5. ASSUME NEW s \in Sources
      PROVE  /\ bySource'[s] = Cardinality(From(s)') /\ bySource'[s] <= MaxSource
             /\ bySource'[s] \in Nat
  <2>1. /\ bySource[s] = Cardinality(From(s)) /\ bySource[s] \in Nat
        /\ bySource[s] <= MaxSource
    BY DEF RegistryInv, RegistryExact, From, Types, AtMost
  <2>2. From(s)' \subseteq Conns /\ From(s) \subseteq Conns
    BY <1>1 DEF From, RegistryInv, Types
  <2>3. CASE s = SourceOf[c]
    <3>1. From(s)' = From(s) \ {c} /\ c \in From(s)
      BY <1>1, <1>2, <2>3 DEF From
    <3>2. Cardinality(From(s)') = Cardinality(From(s)) - 1
      BY <2>2, <3>1, FiniteParts, FS_RemoveElement
    <3>3. Cardinality(From(s)') \in Nat
      BY <2>2, FiniteParts
    <3> QED
      BY <1>1, <2>1, <2>3, <3>2, <3>3, RegistryAssumption DEF RegistryInv, Types
  <2>4. CASE s # SourceOf[c]
    <3>1. From(s)' = From(s)
      BY <1>1, <2>4 DEF From
    <3> QED
      BY <1>1, <2>1, <2>4, <3>1 DEF RegistryInv, Types
  <2> QED
    BY <2>3, <2>4
<1>6. RegistryExact'
  <2>1. active' = Served' /\ wait' = Cardinality(Awaited')
    BY <1>1, <1>3 DEF RegistryInv, RegistryExact, Served, Awaited
  <2> QED
    BY <1>5, <2>1 DEF RegistryExact, Served, Awaited, From
<1>10. AtMost'
  BY <1>4, <1>5, RegistryAssumption DEF RegistryInv, AtMost
<1>7. bySource' \in [Sources -> Nat]
  BY Zenon, <1>1, <1>5 DEF RegistryInv, Types
<1>8. Types'
  BY <1>1, <1>7 DEF RegistryInv, Types, States, shutdownState
<1>9. RunnerInv'
  BY <1>1, RunnerMonotone
<1> QED
  BY <1>6, <1>8, <1>9, <1>10 DEF RegistryInv

\* WaitGroup.Done, after the lock was released.
LEMMA WaitDoneKeeps ==
    ASSUME RegistryInv, NEW c \in Conns, waitDone(c)
    PROVE  RegistryInv'
<1>1. /\ wait' = wait - 1
      /\ handler' = [handler EXCEPT ![c] = "gone"]
      /\ handler[c] = "unregistered"
      /\ UNCHANGED <<accepting, active, bySource, told, closed, listening, served,
                     cancelled, shutdownState>>
  BY DEF waitDone, Become
<1>2. Served' = Served /\ Awaited' = Awaited \ {c} /\ c \in Awaited
  BY <1>1 DEF RegistryInv, Types, Served, Awaited, Serving
<1>3. wait = Cardinality(Awaited) /\ Awaited \subseteq Conns /\ Awaited' \subseteq Conns
  BY DEF RegistryInv, RegistryExact, Awaited
<1>4. Cardinality(Awaited') = wait - 1 /\ Cardinality(Awaited') \in Nat
  BY <1>2, <1>3, FiniteParts, FS_RemoveElement
<1>5. RegistryExact' /\ AtMost'
  BY <1>1, <1>2, <1>4 DEF RegistryInv, RegistryExact, AtMost, Served, Awaited
<1>6. Types'
  BY <1>1, <1>4 DEF RegistryInv, Types, States, shutdownState
<1>7. RunnerInv'
  BY <1>1, <1>4, RunnerMonotone DEF RegistryInv, Types
<1> QED
  BY <1>5, <1>6, <1>7 DEF RegistryInv

\* What every step of a Shutdown call leaves to be shown: it counts nothing.
LEMMA CallerStep ==
    ASSUME RegistryInv, UNCHANGED <<active, bySource, wait, handler, told, served>>,
           accepting' \in BOOLEAN, listening' \in BOOLEAN,
           cancelled' \subseteq Conns, closed' \subseteq Conns,
           caller' \in [Callers -> Running \union {"idle", "called", "returned"}],
           expired' \subseteq Callers, once' \in Callers \union {Free, Done},
           todo' \subseteq Conns, shutdownErr' \in {"nil", "listener", "expired"},
           RunnerInv'
    PROVE  RegistryInv'
<1>1. RegistryExact' /\ AtMost'
  BY DEF RegistryInv, RegistryExact, AtMost
<1>2. Types'
  BY DEF RegistryInv, Types
<1> QED
  BY <1>1, <1>2 DEF RegistryInv

\* A call of Shutdown before it runs anything, its deadline, and a later caller.
LEMMA OtherCallers ==
    ASSUME RegistryInv, NEW k \in Callers, Shutdown(k) \/ expire(k) \/ followFirst(k)
    PROVE  RegistryInv'
<1>1. /\ UNCHANGED <<registry, listening, cancelled, closed, once, todo, shutdownErr,
                     handler, told, served>>
      /\ expired' \subseteq Callers
      /\ \/ caller' = caller
         \/ caller' = [caller EXCEPT ![k] = "called"]
         \/ caller' = [caller EXCEPT ![k] = "returned"]
  BY DEF Shutdown, expire, followFirst, connectionsOnly, Step, RegistryInv, Types
<1>2. caller' \in [Callers -> Running \union {"idle", "called", "returned"}]
  BY <1>1 DEF RegistryInv, Types
<1>3. RunnerInv'
  BY <1>1 DEF RegistryInv, Types, RunnerInv, Running, registry
<1> QED
  BY <1>1, <1>2, <1>3, CallerStep DEF RegistryInv, Types, registry

\* The caller that runs shutdownOnce: the listener, and the first snapshot.
LEMMA StoppingKeeps ==
    ASSUME RegistryInv, NEW k \in Callers, closeListener(k) \/ stopAccepting(k)
    PROVE  RegistryInv'
<1>1. CASE closeListener(k)
  <2>1. /\ once = Free /\ once' = k /\ caller' = [caller EXCEPT ![k] = "stopping"]
        /\ listening' \in BOOLEAN /\ shutdownErr' \in {"nil", "listener", "expired"}
        /\ UNCHANGED <<registry, cancelled, closed, expired, todo, handler, told, served>>
    BY Zenon, <1>1 DEF closeListener, Step, connectionsOnly, RegistryInv, Types
  <2>2. \A j \in Callers : caller[j] \notin Running
    BY <2>1, RegistryAssumption DEF RegistryInv, RunnerInv
  <2>3. RunnerInv'
    BY <2>1, <2>2, RegistryAssumption DEF RegistryInv, Types, RunnerInv, Running, registry
  <2> QED
    BY <2>1, <2>3, CallerStep DEF RegistryInv, Types, registry, Running
<1>2. CASE stopAccepting(k)
  <2>1. /\ caller[k] = "stopping" /\ caller' = [caller EXCEPT ![k] = "cancelling"]
        /\ accepting' = FALSE /\ todo' = active
        /\ UNCHANGED <<active, bySource, wait, listening, cancelled, closed, expired,
                       once, shutdownErr, handler, told, served>>
    BY <1>2 DEF stopAccepting, Step, connectionsOnly
  <2>2. once = k /\ \A j \in Callers : caller[j] \in Running => j = k
    BY <2>1 DEF RegistryInv, RunnerInv, Running
  <2>3. RunnerInv'
    BY <2>1, <2>2, RegistryAssumption DEF RegistryInv, Types, RunnerInv, Running
  <2> QED
    BY Zenon, <2>1, <2>3, CallerStep DEF RegistryInv, Types, Running
<1> QED
  BY <1>1, <1>2

\* Cancelling what the first snapshot holds.
LEMMA CancellingKeeps ==
    ASSUME RegistryInv, NEW k \in Callers, cancelOne(k)
    PROVE  RegistryInv'
<1>1. /\ caller[k] = "cancelling"
      /\ UNCHANGED <<registry, listening, closed, expired, once, shutdownErr, handler,
                     told, served>>
  BY DEF cancelOne, connectionsOnly
<1>2. once = k /\ \A j \in Callers : caller[j] \in Running => j = k
  BY <1>1 DEF RegistryInv, RunnerInv, Running
<1>3. CASE todo = {}
  <2>1. caller' = [caller EXCEPT ![k] = "waiting"] /\ UNCHANGED <<todo, cancelled>>
    BY <1>3 DEF cancelOne, Step
  <2>2. RunnerInv'
    BY <1>1, <1>2, <1>3, <2>1, RegistryAssumption
       DEF RegistryInv, Types, RunnerInv, Running, registry
  <2> QED
    BY <1>1, <2>1, <2>2, CallerStep DEF RegistryInv, Types, registry, Running
<1>4. CASE todo # {}
  <2>1. PICK c \in todo : /\ cancelled' = cancelled \union {c}
                          /\ todo' = todo \ {c}
                          /\ UNCHANGED caller
    BY <1>4 DEF cancelOne
  <2>2. RunnerInv'
    BY <1>1, <1>2, <2>1, RegistryAssumption
       DEF RegistryInv, Types, RunnerInv, Running, registry
  <2> QED
    BY <1>1, <2>1, <2>2, CallerStep DEF RegistryInv, Types, registry
<1> QED
  BY <1>3, <1>4

\* No connection is in the map when the WaitGroup waits for none.
LEMMA DrainedIsEmpty ==
    ASSUME RegistryInv, wait = 0
    PROVE  active = {} /\ Awaited = {}
<1>1. Awaited \subseteq Conns /\ Cardinality(Awaited) = 0
  BY DEF RegistryInv, RegistryExact, Awaited
<1>2. Awaited = {}
  BY <1>1, FiniteParts, FS_EmptySet
<1> QED
  BY <1>2 DEF RegistryInv, RegistryExact, Awaited

\* The wait: it ends with the last goroutine, or with the deadline.
LEMMA WaitingKeeps ==
    ASSUME RegistryInv, NEW k \in Callers, awaitHandlers(k) \/ giveUp(k)
    PROVE  RegistryInv'
<1>1. caller[k] = "waiting"
  BY DEF awaitHandlers, giveUp, Return, Step
<1>2. once = k /\ ~accepting /\ \A j \in Callers : caller[j] \in Running => j = k
  BY <1>1 DEF RegistryInv, RunnerInv, Running
<1>3. CASE awaitHandlers(k)
  <2>1. /\ wait = 0 /\ caller' = [caller EXCEPT ![k] = "returned"] /\ once' = Done
        /\ shutdownErr' \in {"nil", "listener", "expired"}
        /\ UNCHANGED <<registry, listening, cancelled, closed, expired, todo, handler,
                       told, served>>
    BY <1>3 DEF awaitHandlers, drained, Return, Step, connectionsOnly, RegistryInv, Types
  <2>2. active = {}
    BY <2>1, DrainedIsEmpty
  <2>3. RunnerInv'
    BY <1>2, <2>1, <2>2, RegistryAssumption
       DEF RegistryInv, Types, RunnerInv, Running, registry
  <2> QED
    BY <2>1, <2>3, CallerStep DEF RegistryInv, Types, registry
<1>4. CASE giveUp(k)
  <2>1. /\ caller' = [caller EXCEPT ![k] = "forcing"] /\ todo' = active
        /\ UNCHANGED <<registry, listening, cancelled, closed, expired, once,
                       shutdownErr, handler, told, served>>
    BY <1>4 DEF giveUp, Step, connectionsOnly
  <2>2. RunnerInv'
    BY <1>1, <1>2, <2>1, RegistryAssumption
       DEF RegistryInv, Types, RunnerInv, Running, registry
  <2> QED
    BY <2>1, <2>2, CallerStep DEF RegistryInv, Types, registry, Running
<1> QED
  BY <1>3, <1>4

\* Force-closing what the second snapshot holds.
LEMMA ForcingKeeps ==
    ASSUME RegistryInv, NEW k \in Callers, closeOne(k)
    PROVE  RegistryInv'
<1>1. /\ caller[k] = "forcing"
      /\ UNCHANGED <<registry, listening, cancelled, expired, handler, told, served>>
  BY DEF closeOne, connectionsOnly
<1>2. once = k /\ ~accepting /\ \A j \in Callers : caller[j] \in Running => j = k
  BY <1>1 DEF RegistryInv, RunnerInv, Running
<1>3. CASE todo = {}
  <2>1. /\ caller' = [caller EXCEPT ![k] = "returned"] /\ once' = Done
        /\ shutdownErr' \in {"listener", "expired"} /\ UNCHANGED <<todo, closed>>
    BY <1>3 DEF closeOne, Return, Step, RegistryInv, Types
  <2>2. RunnerInv'
    BY <1>1, <1>2, <1>3, <2>1, RegistryAssumption
       DEF RegistryInv, Types, RunnerInv, Running, registry
  <2> QED
    BY <1>1, <2>1, <2>2, CallerStep DEF RegistryInv, Types, registry
<1>4. CASE todo # {}
  <2>1. PICK c \in todo : /\ closed' = closed \union {c}
                          /\ todo' = todo \ {c}
                          /\ UNCHANGED <<caller, once, shutdownErr>>
    BY <1>4 DEF closeOne
  <2>2. RunnerInv'
    BY <1>1, <1>2, <2>1, RegistryAssumption
       DEF RegistryInv, Types, RunnerInv, Running, registry
  <2> QED
    BY <1>1, <2>1, <2>2, CallerStep DEF RegistryInv, Types, registry
<1> QED
  BY <1>3, <1>4

-----------------------------------------------------------------------------
\* The goroutine of a connection between register and unregister.
LEMMA HandlerKeeps ==
    ASSUME RegistryInv, NEW c \in Conns,
           Accept(c) \/ start(c) \/ loopTop(c) \/ readCommand(c) \/ execute(c) \/ leave(c)
    PROVE  RegistryInv'
<1>1. CASE Accept(c)
  <2>1. /\ handler[c] = "new" /\ Become(c, "accepted")
        /\ UNCHANGED <<registry, listening, served, cancelled, closed, told, shutdownState>>
    BY <1>1 DEF Accept
  <2> QED
    BY <2>1, GoroutineStep DEF States
<1>2. CASE start(c) \/ loopTop(c) \/ readCommand(c) \/ execute(c)
  <2>1. /\ handler[c] \in Serving
        /\ UNCHANGED <<registry, listening, served, cancelled, closed, told, shutdownState>>
        /\ \/ Become(c, "top") \/ Become(c, "reading")
           \/ Become(c, "executing") \/ Become(c, "leaving")
    BY <1>2 DEF start, loopTop, readCommand, execute, handlerOnly, Serving
  <2>2. {"top", "reading", "executing", "leaving"} \subseteq Serving \intersect States
    BY DEF Serving, States
  <2> QED
    BY <2>1, <2>2, GoroutineStep
<1>3. CASE leave(c)
  <2>1. /\ handler[c] \in Serving /\ Become(c, "shut") /\ closed' = closed \union {c}
        /\ UNCHANGED <<registry, listening, served, cancelled, told, shutdownState>>
    BY <1>3 DEF leave, Serving
  <2> QED
    BY <2>1, GoroutineStep DEF Serving, States
<1> QED
  BY <1>1, <1>2, <1>3

\* Every step of goroutines and callers keeps the invariant.
LEMMA Inductive == RegistryInv /\ [Next]_vars => RegistryInv'
<1> SUFFICES ASSUME RegistryInv, [Next]_vars
             PROVE  RegistryInv'
  OBVIOUS
<1>1. ASSUME NEW c \in Conns,
             \/ Accept(c) \/ register(c) \/ start(c) \/ loopTop(c) \/ readCommand(c)
             \/ execute(c) \/ leave(c) \/ unregister(c) \/ waitDone(c)
      PROVE  RegistryInv'
  BY <1>1, HandlerKeeps, RegisterKeeps, UnregisterKeeps, WaitDoneKeeps
<1>2. CASE cancelServe
  <2>1. /\ UNCHANGED <<registry, handler, cancelled, closed, told, shutdownState>>
        /\ served' \in BOOLEAN /\ listening' \in BOOLEAN
    BY Zenon, <1>2 DEF cancelServe
  <2> QED
    BY <2>1 DEF RegistryInv, Types, RegistryExact, AtMost, RunnerInv, registry, shutdownState
<1>3. ASSUME NEW k \in Callers, Shutdown(k) \/ expire(k) \/ shutdownStep(k)
      PROVE  RegistryInv'
  BY <1>3, OtherCallers, StoppingKeeps, CancellingKeeps, WaitingKeeps, ForcingKeeps
     DEF shutdownStep
<1>4. CASE UNCHANGED vars
  BY <1>4 DEF RegistryInv, Types, RegistryExact, AtMost, RunnerInv, registry,
              shutdownState, vars
<1> QED
  BY <1>1, <1>2, <1>3, <1>4 DEF Next, Finished

\* An empty registry satisfies the invariant.
LEMMA Initially == Init => RegistryInv
<1> SUFFICES ASSUME Init PROVE RegistryInv
  OBVIOUS
<1>1. Types
  BY Zenon DEF Init, Types, States
<1>2. Served = {} /\ Awaited = {} /\ \A s \in Sources : From(s) = {}
  BY DEF Init, Served, Awaited, From, Serving
<1>3. RegistryExact
  BY <1>2, FS_EmptySet DEF Init, RegistryExact, Served, Awaited, From
<1>4. AtMost
  BY FS_EmptySet, RegistryAssumption DEF Init, AtMost
<1>5. RunnerInv
  BY RegistryAssumption DEF Init, RunnerInv, Running
<1> QED
  BY <1>1, <1>3, <1>4, <1>5 DEF RegistryInv

\* The registry, its limits and the progress of Shutdown stay as RegistryInv says
\* under every interleaving of accepts, exits and shutdowns.
THEOREM RegistryInvariance == Spec => []RegistryInv
BY Initially, Inductive, PTL DEF Spec

\* Every variable keeps its type, and no count exceeds the number of connections.
THEOREM RegistryTypes == Spec => []TypeOK
<1>1. RegistryInv => TypeOK
  <2> SUFFICES ASSUME RegistryInv PROVE TypeOK
    OBVIOUS
  <2>1. wait \in 0..Cardinality(Conns)
    BY FiniteParts DEF RegistryInv, Types, RegistryExact
  <2>2. ASSUME NEW s \in Sources PROVE bySource[s] \in 0..Cardinality(Conns)
    <3>1. From(s) \subseteq Conns /\ bySource[s] = Cardinality(From(s))
      BY DEF RegistryInv, Types, RegistryExact, From
    <3> QED
      BY <3>1, FiniteParts
  <2>3. bySource \in [Sources -> 0..Cardinality(Conns)]
    BY <2>2 DEF RegistryInv, Types
  <2> QED
    BY <2>1, <2>3 DEF RegistryInv, Types, TypeOK, States, Running
<1> QED
  BY <1>1, RegistryInvariance, PTL

\* The map, the counts of the sources and the WaitGroup agree with the goroutines.
THEOREM CountsAreExact == Spec => []RegistryExact
<1>1. RegistryInv => RegistryExact
  BY DEF RegistryInv
<1> QED
  BY <1>1, RegistryInvariance, PTL

\* MaxConnections and MaxConnectionsPerSource bound the open transports.
THEOREM LimitsAreKept == Spec => []LimitsKept
<1>1. RegistryInv => LimitsKept
  <2> SUFFICES ASSUME RegistryInv PROVE LimitsKept
    OBVIOUS
  <2> DEFINE open == {c \in Conns : handler[c] \in Serving /\ c \notin closed}
  <2>1. open \subseteq active /\ active \subseteq Conns
    BY DEF RegistryInv, RegistryExact, Types
  <2>2. Cardinality(open) <= Max
    <3>1. Cardinality(open) <= Cardinality(active)
      BY <2>1, FiniteParts, FS_Subset
    <3>2. Cardinality(open) \in Nat /\ Cardinality(active) \in Nat
      BY <2>1, FiniteParts
    <3> QED
      BY <3>1, <3>2, RegistryAssumption DEF RegistryInv, AtMost
  <2>3. ASSUME NEW s \in Sources
        PROVE  Cardinality({c \in open : SourceOf[c] = s}) <= MaxSource
    <3>1. {c \in open : SourceOf[c] = s} \subseteq From(s) /\ From(s) \subseteq Conns
      BY <2>1 DEF From
    <3>2. Cardinality({c \in open : SourceOf[c] = s}) <= Cardinality(From(s))
      BY <3>1, FiniteParts, FS_Subset
    <3>3. Cardinality({c \in open : SourceOf[c] = s}) \in Nat /\ Cardinality(From(s)) \in Nat
      BY <3>1, FiniteParts
    <3>4. Cardinality(From(s)) <= MaxSource
      BY DEF RegistryInv, RegistryExact, AtMost, From
    <3> QED
      BY <3>2, <3>3, <3>4, RegistryAssumption
  <2> QED
    BY <2>2, <2>3 DEF LimitsKept
<1> QED
  BY <1>1, RegistryInvariance, PTL

\* Shutdown's answer is true, and stays true.
THEOREM AnswerIsTrue == Spec => []AnswerHolds
<1>1. RegistryInv => AnswerHolds
  <2> SUFFICES ASSUME RegistryInv, once = Done PROVE AnswerHolds
    BY DEF AnswerHolds
  <2>1. active \subseteq closed
    BY DEF RegistryInv, RunnerInv
  <2>2. ASSUME shutdownErr = "nil", NEW c \in Conns
        PROVE  handler[c] \in {"new", "accepted", "refused", "gone"}
    <3>1. wait = 0
      BY <2>2 DEF RegistryInv, RunnerInv
    <3>2. c \notin Awaited
      BY <3>1, DrainedIsEmpty
    <3> QED
      BY <3>2 DEF Awaited, RegistryInv, Types, States
  <2> QED
    BY <2>1, <2>2 DEF AnswerHolds
<1> QED
  BY <1>1, RegistryInvariance, PTL

\* Nobody registers behind the snapshot: while Shutdown waits or force-closes,
\* the WaitGroup only falls.
THEOREM NobodySlipsIn == Spec => NoneSlipsIn
<1>1. RegistryInv /\ [Next]_vars =>
        [\A k \in Callers : caller[k] \in {"waiting", "forcing"} =>
            active \subseteq cancelled /\ wait' <= wait]_vars
  <2> SUFFICES ASSUME RegistryInv, [Next]_vars, NEW k \in Callers,
                      caller[k] \in {"waiting", "forcing"}
               PROVE  active \subseteq cancelled /\ wait' <= wait
    OBVIOUS
  <2>1. active \subseteq cancelled /\ ~accepting /\ wait \in Nat
    BY DEF RegistryInv, RunnerInv, Types
  <2>2. ASSUME NEW c \in Conns,
               \/ Accept(c) \/ register(c) \/ start(c) \/ loopTop(c) \/ readCommand(c)
               \/ execute(c) \/ leave(c) \/ unregister(c) \/ waitDone(c)
        PROVE  wait' = wait \/ wait' = wait - 1
    BY <2>1, <2>2 DEF Accept, register, refused, start, loopTop, readCommand, execute,
           leave, unregister, waitDone, handlerOnly, registry
  <2>3. cancelServe => wait' = wait
    BY DEF cancelServe, registry
  <2>4. ASSUME NEW j \in Callers, Shutdown(j) \/ expire(j) \/ shutdownStep(j)
        PROVE  wait' = wait
    BY <2>4 DEF Shutdown, expire, shutdownStep, closeListener, stopAccepting, cancelOne,
           awaitHandlers, giveUp, closeOne, followFirst, registry
  <2>5. UNCHANGED vars => wait' = wait
    BY DEF vars, registry
  <2>6. wait' = wait \/ wait' = wait - 1
    BY <2>2, <2>3, <2>4, <2>5 DEF Next, Finished
  <2> QED
    BY <2>1, <2>6
<1> QED
  BY <1>1, RegistryInvariance, PTL DEF Spec, NoneSlipsIn

-----------------------------------------------------------------------------
(***************************************************************************)
(* The storage budget.                                                     *)
(***************************************************************************)
(***************************************************************************)
(* The inductive invariant.  WithinBudget alone does not survive copy: that *)
(* the spool stays within its limits was decided by Write, one or two      *)
(* steps of other sessions earlier.                                        *)
(***************************************************************************)
Writing == {"reserve", "spill", "copy"}

SpoolShape ==
    /\ total \in Int /\ totalMemory \in Int /\ concurrent \in Int
    /\ pc \in [Sessions -> {"none", "open", "reserve", "spill", "copy", "failed",
                            "closing"}]
    /\ len \in [Sessions -> 0..MaxWrite]
    /\ spool \in [Sessions -> Spools]
    /\ offered \in [Sessions -> Nat]

\* The invariant of one spool v, of a session at p that writes n octets and has
\* given it m before.
SpoolInv(v, p, n, m) ==
    /\ v.size <= MaxBytes
    /\ v.memory <= MaxMemoryBytes
    /\ v.err # "memory"
    /\ v.reservedMemory = v.memory
    /\ v.file => v.memory = 0
    /\ v.reserved = v.size
    /\ v.memory + v.stored = v.size
    /\ ~v.file => v.stored = 0
    /\ p \in Writing \union {"open"} => v.size = m
    /\ p = "none" => v.size = 0
    /\ p = "spill" => ~v.file
    /\ p \in Writing => v.size + n <= MaxBytes
    /\ p \in Writing /\ ~v.file => v.size + n <= MaxMemoryBytes

BudgetInv ==
    /\ SpoolShape
    /\ total <= MaxTotalBytes
    /\ totalMemory <= MaxTotalMemoryBytes
    /\ concurrent <= MaxConcurrent
    /\ \A g \in Sessions : SpoolInv(spool[g], pc[g], len[g], offered[g])

\* A step of one session leaves the spools of the others alone.
LEMMA OneSession ==
    ASSUME BudgetInv, NEW g \in Sessions, NEW p, NEW n \in 0..MaxWrite,
           NEW v \in Spools, NEW m \in Nat,
           p \in {"none", "open", "reserve", "spill", "copy", "failed", "closing"},
           pc' = [pc EXCEPT ![g] = p], len' = [len EXCEPT ![g] = n],
           spool' = [spool EXCEPT ![g] = v],
           offered' = [offered EXCEPT ![g] = m],
           SpoolInv(v, p, n, m),
           total' \in Int, totalMemory' \in Int, concurrent' \in Int,
           total' <= MaxTotalBytes, totalMemory' <= MaxTotalMemoryBytes,
           concurrent' <= MaxConcurrent
    PROVE  BudgetInv'
<1>1. SpoolShape'
  BY DEF BudgetInv, SpoolShape
<1>2. ASSUME NEW h \in Sessions
      PROVE  SpoolInv(spool'[h], pc'[h], len'[h], offered'[h])
  <2>1. CASE h = g
    BY <2>1 DEF BudgetInv, SpoolShape
  <2>2. CASE h # g
    BY <2>2 DEF BudgetInv, SpoolShape
  <2> QED
    BY <2>1, <2>2
<1> QED
  BY <1>1, <1>2 DEF BudgetInv

\* What the invariant says about one session.
LEMMA Local ==
    ASSUME BudgetInv, NEW g \in Sessions
    PROVE  /\ spool[g] \in Spools /\ len[g] \in 0..MaxWrite /\ offered[g] \in Nat
           /\ pc[g] \in {"none", "open", "reserve", "spill", "copy", "failed",
                         "closing"}
           /\ SpoolInv(spool[g], pc[g], len[g], offered[g])
           /\ len = [len EXCEPT ![g] = len[g]]
           /\ spool = [spool EXCEPT ![g] = spool[g]]
           /\ offered = [offered EXCEPT ![g] = offered[g]]
           /\ total \in Int /\ totalMemory \in Int /\ concurrent \in Int
           /\ total <= MaxTotalBytes /\ totalMemory <= MaxTotalMemoryBytes
           /\ concurrent <= MaxConcurrent
BY DEF BudgetInv, SpoolShape

\* A failed Write leaves the spool as it was, for Close.
LEMMA FailKeeps ==
    ASSUME BudgetInv, NEW g \in Sessions, NEW n \in 0..MaxWrite,
           NEW err \in {"tooLarge", "total", "disk"},
           Fail(g, err), len' = [len EXCEPT ![g] = n],
           UNCHANGED <<manager, offered>>
    PROVE  BudgetInv'
<1> DEFINE v == [spool[g] EXCEPT !.err = err]
<1>1. v \in Spools
  BY Local DEF Spools
<1>2. SpoolInv(v, "failed", n, offered[g])
  BY Local DEF SpoolInv, Spools, Writing
<1>3. spool' = [spool EXCEPT ![g] = v] /\ pc' = [pc EXCEPT ![g] = "failed"]
  BY DEF Fail, Go
<1>4. offered' = [offered EXCEPT ![g] = offered[g]] /\ offered[g] \in Nat
  BY Local
<1>5. /\ total' \in Int /\ totalMemory' \in Int /\ concurrent' \in Int
      /\ total' <= MaxTotalBytes /\ totalMemory' <= MaxTotalMemoryBytes
      /\ concurrent' <= MaxConcurrent
  BY Local DEF manager
<1> HIDE DEF v
<1> QED
  BY Zenon, <1>1, <1>2, <1>3, <1>4, <1>5, OneSession

\* A spill moves the prefix, and only gives memory back.
LEMMA SpillKeeps ==
    ASSUME BudgetInv, NEW g \in Sessions, NEW n \in 0..MaxWrite,
           pc[g] \in Writing \union {"open"}, spool[g].size + n <= MaxBytes,
           ~spool[g].file,
           spillLocked(g), Go(g, "reserve"), len' = [len EXCEPT ![g] = n],
           UNCHANGED offered
    PROVE  BudgetInv'
<1> DEFINE v == [spool[g] EXCEPT !.memory = 0, !.file = TRUE,
                                 !.stored = spool[g].memory, !.reservedMemory = 0]
<1>1. v \in Spools
  BY Zenon, Local DEF Spools
<1>2. SpoolInv(v, "reserve", n, offered[g])
  BY Local, SpoolOptions DEF SpoolInv, Spools, Writing
<1>3. spool' = [spool EXCEPT ![g] = v] /\ pc' = [pc EXCEPT ![g] = "reserve"]
  BY Zenon DEF spillLocked, Go
<1>4. offered' = [offered EXCEPT ![g] = offered[g]] /\ offered[g] \in Nat
  BY Local
<1>5. /\ total' \in Int /\ totalMemory' \in Int /\ concurrent' \in Int
      /\ total' <= MaxTotalBytes /\ totalMemory' <= MaxTotalMemoryBytes
      /\ concurrent' <= MaxConcurrent
  <2>1. spool[g].reservedMemory \in Nat
    BY Local DEF Spools
  <2> QED
    BY <2>1, Local, SpoolOptions DEF spillLocked
<1> HIDE DEF v
<1> QED
  BY Zenon, <1>1, <1>2, <1>3, <1>4, <1>5, OneSession

\* newSpool.
LEMMA NewSpoolKeeps ==
    ASSUME BudgetInv, NEW g \in Sessions, newSpool(g)
    PROVE  BudgetInv'
<1>1. NewSpool \in Spools
  BY DEF NewSpool, Spools
<1>2. SpoolInv(NewSpool, "open", len[g], 0)
  BY SpoolOptions DEF SpoolInv, NewSpool, Writing
<1>3. /\ spool' = [spool EXCEPT ![g] = NewSpool] /\ pc' = [pc EXCEPT ![g] = "open"]
      /\ offered' = [offered EXCEPT ![g] = 0]
      /\ len' = [len EXCEPT ![g] = len[g]] /\ len[g] \in 0..MaxWrite
  BY Local DEF newSpool, Go
<1>4. /\ total' \in Int /\ totalMemory' \in Int /\ concurrent' \in Int
      /\ total' <= MaxTotalBytes /\ totalMemory' <= MaxTotalMemoryBytes
      /\ concurrent' <= MaxConcurrent
  BY Local, SpoolOptions DEF newSpool
<1> QED
  BY Zenon, <1>1, <1>2, <1>3, <1>4, OneSession

\* Write decides all of the spool's own limits before it reserves.
LEMMA WriteKeeps ==
    ASSUME BudgetInv, NEW g \in Sessions, NEW n \in 1..MaxWrite, Write(g, n)
    PROVE  BudgetInv'
<1>1. /\ pc[g] = "open" /\ len' = [len EXCEPT ![g] = n] /\ n \in 0..MaxWrite
      /\ UNCHANGED offered
  BY SpoolOptions DEF Write
<1>2. ~tooLarge(g, n) => spool[g].size + n <= MaxBytes
  BY Local, SpoolOptions DEF tooLarge, Spools
<1>3. CASE \E err \in {"tooLarge", "disk"} : Fail(g, err) /\ UNCHANGED manager
  BY Zenon, <1>1, <1>3, FailKeeps
<1>4. CASE ~tooLarge(g, n) /\ outgrowsMemory(g, n) /\ spillLocked(g) /\ Go(g, "reserve")
  BY Zenon, <1>1, <1>2, <1>4, SpillKeeps DEF outgrowsMemory
<1>5. CASE /\ ~tooLarge(g, n) /\ ~outgrowsMemory(g, n)
           /\ Go(g, "reserve") /\ UNCHANGED <<manager, spool>>
  <2>1. spool[g].file \/ spool[g].size + n <= MaxMemoryBytes
    BY <1>5, Local, SpoolOptions DEF outgrowsMemory, Spools
  <2>2. SpoolInv(spool[g], "reserve", n, offered[g])
    BY <1>1, <1>2, <1>5, <2>1, Local DEF SpoolInv, Writing
  <2>3. /\ spool' = [spool EXCEPT ![g] = spool[g]] /\ spool[g] \in Spools
        /\ pc' = [pc EXCEPT ![g] = "reserve"]
        /\ offered' = [offered EXCEPT ![g] = offered[g]] /\ offered[g] \in Nat
    BY <1>1, <1>5, Local DEF Go
  <2>4. /\ total' \in Int /\ totalMemory' \in Int /\ concurrent' \in Int
        /\ total' <= MaxTotalBytes /\ totalMemory' <= MaxTotalMemoryBytes
        /\ concurrent' <= MaxConcurrent
    BY SMTT(20), <1>5, Local DEF manager
  <2> QED
    BY Zenon, <1>1, <2>2, <2>3, <2>4, OneSession
<1> QED
  BY <1>3, <1>4, <1>5 DEF Write

\* reserve takes what is left of the budgets and no more; with a file in use
\* the memory budget cannot refuse.
LEMMA ReserveKeeps ==
    ASSUME BudgetInv, NEW g \in Sessions, reserve(g)
    PROVE  BudgetInv'
<1> DEFINE err == reserveError(len[g], memoryBytes(g))
<1>1. /\ pc[g] = "reserve" /\ UNCHANGED <<len, offered>>
      /\ len' = [len EXCEPT ![g] = len[g]] /\ len[g] \in 0..MaxWrite
      /\ offered' = [offered EXCEPT ![g] = offered[g]] /\ offered[g] \in Nat
  BY Local DEF reserve
<1>2. memoryBytes(g) \in Nat /\ len[g] \in Nat
  BY <1>1, SpoolOptions DEF memoryBytes
<1>3. CASE err = "none" /\ Reserved(g)
  <2>1. /\ total' \in Int /\ totalMemory' \in Int /\ concurrent' \in Int
        /\ total' <= MaxTotalBytes /\ totalMemory' <= MaxTotalMemoryBytes
        /\ concurrent' <= MaxConcurrent
    BY <1>2, <1>3, Local, SpoolOptions DEF Reserved, reserveError
  <2>2. /\ spool' = [spool EXCEPT ![g] = spool[g]] /\ spool[g] \in Spools
        /\ pc' = [pc EXCEPT ![g] = "copy"]
    BY <1>3, Local DEF Reserved, Go
  <2>3. SpoolInv(spool[g], "copy", len[g], offered[g])
    BY <1>1, Local DEF SpoolInv, Writing
  <2> QED
    BY Zenon, <1>1, <2>1, <2>2, <2>3, OneSession
<1>4. CASE ~spool[g].file /\ Go(g, "spill") /\ UNCHANGED <<manager, spool>>
  <2>1. /\ total' \in Int /\ totalMemory' \in Int /\ concurrent' \in Int
        /\ total' <= MaxTotalBytes /\ totalMemory' <= MaxTotalMemoryBytes
        /\ concurrent' <= MaxConcurrent
    BY <1>4, Local DEF manager
  <2>2. /\ spool' = [spool EXCEPT ![g] = spool[g]] /\ spool[g] \in Spools
        /\ pc' = [pc EXCEPT ![g] = "spill"]
    BY <1>4, Local DEF Go
  <2>3. SpoolInv(spool[g], "spill", len[g], offered[g])
    BY Zenon, <1>1, <1>4, Local DEF SpoolInv, Writing
  <2> QED
    BY Zenon, <1>1, <2>1, <2>2, <2>3, OneSession
<1>5. CASE /\ err # "none" /\ ~(err = "memory" /\ ~spool[g].file)
           /\ Fail(g, err) /\ UNCHANGED manager
  <2>1. spool[g].file => err # "memory"
    BY SMTT(20), Local, SpoolOptions DEF reserveError, memoryBytes
  <2>2. err = "total"
    BY <1>5, <2>1 DEF reserveError
  <2> QED
    BY Zenon, <1>1, <1>5, <2>2, FailKeeps
<1> QED
  BY Zenon, <1>3, <1>4, <1>5 DEF reserve

\* The spill that an exhausted memory budget asks for.
LEMMA SpillAndRetryKeeps ==
    ASSUME BudgetInv, NEW g \in Sessions, spillAndRetry(g)
    PROVE  BudgetInv'
<1>1. /\ pc[g] = "spill" /\ UNCHANGED offered
      /\ len' = [len EXCEPT ![g] = len[g]] /\ len[g] \in 0..MaxWrite
  BY Local DEF spillAndRetry
<1>2. ~spool[g].file /\ spool[g].size + len[g] <= MaxBytes
  BY <1>1, Local DEF SpoolInv, Writing
<1>3. CASE spillLocked(g) /\ Go(g, "reserve")
  BY Zenon, <1>1, <1>2, <1>3, SpillKeeps DEF Writing
<1>4. CASE Fail(g, "disk") /\ UNCHANGED manager
  BY Zenon, <1>1, <1>4, FailKeeps
<1> QED
  BY <1>3, <1>4 DEF spillAndRetry

\* A spool that took octets is a spool.
LEMMA WrittenType ==
    ASSUME NEW w \in Spools, NEW k \in Nat
    PROVE  Written(w, k) \in Spools
<1> DEFINE stored == w.stored + k
           memory == w.memory + k
           size == w.size + k
           reserved == w.reserved + k
           reservedMemory == w.reservedMemory + k
<1>1. /\ stored \in Nat /\ memory \in Nat /\ size \in Nat /\ reserved \in Nat
      /\ reservedMemory \in Nat
  BY DEF Spools
<1> HIDE DEF stored, memory, size, reserved, reservedMemory
<1>2. [w EXCEPT !.stored = stored, !.size = size, !.reserved = reserved] \in Spools
  BY Zenon, <1>1 DEF Spools
<1>3. [w EXCEPT !.memory = memory, !.size = size, !.reserved = reserved,
                !.reservedMemory = reservedMemory] \in Spools
  BY Zenon, <1>1 DEF Spools
<1> QED
  BY <1>2, <1>3 DEF Written, stored, memory, size, reserved, reservedMemory

\* copy stays within what Write and reserve decided.
LEMMA CopyKeeps ==
    ASSUME BudgetInv, NEW g \in Sessions, copy(g)
    PROVE  BudgetInv'
<1>1. /\ pc[g] = "copy" /\ UNCHANGED <<totalMemory, concurrent>>
      /\ len' = [len EXCEPT ![g] = len[g]] /\ len[g] \in 0..MaxWrite
  BY Local DEF copy
<1>2. /\ spool[g] \in Spools /\ offered[g] \in Nat /\ len[g] \in Nat
      /\ SpoolInv(spool[g], "copy", len[g], offered[g])
  BY <1>1, Local, SpoolOptions
<1>3. PICK k \in 0..len[g] :
         /\ spool[g].file \/ k = len[g]
         /\ total' = total - unused(g, k)
         /\ \/ /\ k = len[g]
               /\ spool' = [spool EXCEPT ![g] = Written(spool[g], k)]
               /\ Go(g, "open")
            \/ /\ k < len[g]
               /\ spool' = [spool EXCEPT ![g] = [Written(spool[g], k) EXCEPT !.err = "disk"]]
               /\ Go(g, "failed")
  BY DEF copy
<1> DEFINE v == Written(spool[g], k)
           m == offered[g] + len[g]
<1>4. k \in Nat /\ k <= len[g]
  BY <1>2
<1>5. v \in Spools /\ [v EXCEPT !.err = "disk"] \in Spools
  <2>1. v \in Spools
    BY <1>2, <1>4, WrittenType
  <2> HIDE DEF v
  <2> QED
    BY <2>1 DEF Spools
<1>6. offered' = [offered EXCEPT ![g] = m] /\ m \in Nat
  BY <1>2 DEF copy
<1>7. /\ total' \in Int /\ totalMemory' \in Int /\ concurrent' \in Int
      /\ total' <= MaxTotalBytes /\ totalMemory' <= MaxTotalMemoryBytes
      /\ concurrent' <= MaxConcurrent
  BY <1>1, <1>2, <1>3, <1>4, Local, SpoolOptions DEF unused
<1>8. CASE k = len[g] /\ spool' = [spool EXCEPT ![g] = v] /\ Go(g, "open")
  <2>1. SpoolInv(v, "open", len[g], m)
    BY <1>2, <1>4, <1>8, SpoolOptions DEF SpoolInv, Spools, Written, Writing
  <2>2. pc' = [pc EXCEPT ![g] = "open"]
    BY <1>8 DEF Go
  <2> HIDE DEF v, m
  <2> QED
    BY Zenon, <1>1, <1>5, <1>6, <1>7, <1>8, <2>1, <2>2, OneSession
<1>9. CASE /\ spool[g].file /\ Go(g, "failed")
           /\ spool' = [spool EXCEPT ![g] = [v EXCEPT !.err = "disk"]]
  <2>1. SpoolInv([v EXCEPT !.err = "disk"], "failed", len[g], m)
    BY <1>2, <1>4, <1>9, SpoolOptions DEF SpoolInv, Spools, Written, Writing
  <2>2. pc' = [pc EXCEPT ![g] = "failed"]
    BY <1>9 DEF Go
  <2> HIDE DEF v, m
  <2> QED
    BY Zenon, <1>1, <1>5, <1>6, <1>7, <1>9, <2>1, <2>2, OneSession
<1> QED
  BY <1>2, <1>3, <1>4, <1>8, <1>9

\* Close and releaseSpool only give back.
LEMMA CloseKeeps ==
    ASSUME BudgetInv, NEW g \in Sessions, Close(g) \/ releaseSpool(g)
    PROVE  BudgetInv'
<1>1. /\ len' = [len EXCEPT ![g] = len[g]] /\ len[g] \in 0..MaxWrite
      /\ offered' = [offered EXCEPT ![g] = offered[g]] /\ offered[g] \in Nat
      /\ spool[g].reserved \in Nat /\ spool[g].reservedMemory \in Nat
  BY Local DEF Close, releaseSpool, Spools
<1>2. /\ total' \in Int /\ totalMemory' \in Int /\ concurrent' \in Int
      /\ total' <= MaxTotalBytes /\ totalMemory' <= MaxTotalMemoryBytes
      /\ concurrent' <= MaxConcurrent
  BY <1>1, Local, SpoolOptions DEF Close, releaseSpool, manager
<1>3. CASE Close(g)
  <2>1. /\ spool' = [spool EXCEPT ![g] = spool[g]] /\ spool[g] \in Spools
        /\ pc' = [pc EXCEPT ![g] = "closing"]
    BY <1>3, Local DEF Close, Go
  <2>2. SpoolInv(spool[g], "closing", len[g], offered[g])
    BY Local DEF SpoolInv, Writing
  <2> QED
    BY Zenon, <1>1, <1>2, <2>1, <2>2, OneSession
<1>4. CASE releaseSpool(g)
  <2>1. /\ spool' = [spool EXCEPT ![g] = NewSpool] /\ NewSpool \in Spools
        /\ pc' = [pc EXCEPT ![g] = "none"]
    BY <1>4 DEF releaseSpool, Go, NewSpool, Spools
  <2>2. SpoolInv(NewSpool, "none", len[g], offered[g])
    BY SpoolOptions DEF SpoolInv, NewSpool, Writing
  <2> QED
    BY Zenon, <1>1, <1>2, <2>1, <2>2, OneSession
<1> QED
  BY <1>3, <1>4

\* Every reachable state of the spools satisfies the invariant.
THEOREM BudgetInvariance == SpoolSpec => []BudgetInv
<1>1. SpoolInit => BudgetInv
  BY SpoolOptions
     DEF SpoolInit, BudgetInv, SpoolShape, SpoolInv, NewSpool, Spools, Writing
<1>2. BudgetInv /\ [SpoolNext]_spoolVars => BudgetInv'
  <2> SUFFICES ASSUME BudgetInv, [SpoolNext]_spoolVars
               PROVE  BudgetInv'
    OBVIOUS
  <2>1. CASE UNCHANGED spoolVars
    BY <2>1 DEF BudgetInv, SpoolShape, spoolVars
  <2>2. CASE SpoolNext
    BY <2>2, NewSpoolKeeps, WriteKeeps, ReserveKeeps, SpillAndRetryKeeps,
       CopyKeeps, CloseKeeps DEF SpoolNext
  <2> QED
    BY <2>1, <2>2
<1> QED
  BY <1>1, <1>2, PTL DEF SpoolSpec

\* The aggregate limits and the limits of each spool hold under any number of
\* sessions.
THEOREM BudgetKept == SpoolSpec => []WithinBudget
<1>1. BudgetInv => WithinBudget
  BY DEF BudgetInv, WithinBudget, SpoolInv
<1> QED
  BY BudgetInvariance, <1>1, PTL

\* A spool no Write of which failed holds the whole content.
THEOREM ContentIsComplete == SpoolSpec => []ContentComplete
<1>1. BudgetInv => ContentComplete
  BY DEF BudgetInv, ContentComplete, SpoolInv
<1> QED
  BY BudgetInvariance, <1>1, PTL

\* No chunk is refused for want of memory alone.
THEOREM MemoryOnlySpills == SpoolSpec => []MemoryNeverRefuses
<1>1. BudgetInv => MemoryNeverRefuses
  BY DEF BudgetInv, MemoryNeverRefuses, SpoolInv
<1> QED
  BY BudgetInvariance, <1>1, PTL

-----------------------------------------------------------------------------
(***************************************************************************)
(* The ledger.  Each counter of the manager is the number of octets, or of *)
(* sessions, that it accounts for, so a step of a session has to move it   *)
(* by what the session's own share moves.                                  *)
(***************************************************************************)
Places == {"none", "open", "reserve", "spill", "copy", "failed", "closing"}

\* The shares of a session at p whose spool is v and whose Write has n octets.
Share(v, p, n) == v.reserved + IF p = "copy" THEN n ELSE 0
MemoryShare(v, p, n) == v.reservedMemory + IF p = "copy" /\ ~v.file THEN n ELSE 0
Place(p) == IF p = "none" THEN 0 ELSE 1

LedgerInv ==
    /\ IsFiniteSet(Octets(held)) /\ IsFiniteSet(Octets(heldMemory))
    /\ LedgerExact

\* One session's octets are as many as its amount.
LEMMA OwnOctets ==
    ASSUME NEW g, NEW n \in Nat
    PROVE  IsFiniteSet({g} \X (1..n)) /\ Cardinality({g} \X (1..n)) = n
<1>1. IsFiniteSet({g}) /\ Cardinality({g}) = 1
  BY Zenon, FS_Singleton
<1>2. IsFiniteSet(1..n) /\ Cardinality(1..n) = n
  BY FS_Interval
<1>3. IsFiniteSet({g} \X (1..n)) /\ Cardinality({g} \X (1..n)) = Cardinality({g}) * Cardinality(1..n)
  BY Zenon, <1>1, <1>2, FS_Product
<1> QED
  BY <1>1, <1>2, <1>3

\* When one session's amount changes, the number of octets changes by as much.
LEMMA OctetsMove ==
    ASSUME NEW f \in [Sessions -> Nat], NEW g \in Sessions, NEW n \in Nat, IsFiniteSet(Octets(f))
    PROVE  /\ IsFiniteSet(Octets([f EXCEPT ![g] = n]))
           /\ Cardinality(Octets([f EXCEPT ![g] = n])) = Cardinality(Octets(f)) - f[g] + n
<1> DEFINE own(k) == {g} \X (1..k)
           rest == UNION {{h} \X (1..f[h]) : h \in Sessions \ {g}}
           f2 == [f EXCEPT ![g] = n]
<1>1. f[g] \in Nat
  OBVIOUS
<1>2. Octets(f) = rest \cup own(f[g])
  BY DEF Octets
<1>3. Octets(f2) = rest \cup own(n)
  <2>1. \A h \in Sessions \ {g} : f2[h] = f[h]
    OBVIOUS
  <2>2. f2[g] = n
    OBVIOUS
  <2> HIDE DEF f2
  <2> QED
    BY <2>1, <2>2 DEF Octets
<1>4. \A k \in Nat : rest \cap own(k) = {}
  OBVIOUS
<1>5. rest \in SUBSET Octets(f)
  BY <1>2
<1>6. IsFiniteSet(rest) /\ Cardinality(rest) \in Nat
  <2> HIDE DEF rest, own
  <2> QED
    BY <1>5, FS_Subset, FS_CardinalityType
<1>7. ASSUME NEW k \in Nat
      PROVE  IsFiniteSet(rest \cup own(k)) /\ Cardinality(rest \cup own(k)) = Cardinality(rest) + k
  <2>1. IsFiniteSet(own(k)) /\ Cardinality(own(k)) = k
    BY Zenon, OwnOctets
  <2>2. rest \cap own(k) = {}
    BY <1>4
  <2> HIDE DEF rest, own
  <2>3. /\ IsFiniteSet(rest \cup own(k))
        /\ Cardinality(rest \cup own(k)) = Cardinality(rest) + Cardinality(own(k)) - Cardinality(rest \cap own(k))
    BY <1>6, <2>1, FS_Union
  <2>4. Cardinality(rest \cap own(k)) = 0
    BY <2>2, FS_EmptySet
  <2> QED
    BY <1>6, <2>1, <2>3, <2>4
<1> HIDE DEF rest, own
<1>8. IsFiniteSet(Octets(f2)) /\ Cardinality(Octets(f2)) = Cardinality(rest) + n
  BY Zenon, <1>3, <1>7
<1>9. Cardinality(Octets(f)) = Cardinality(rest) + f[g]
  BY <1>1, <1>2, <1>7
<1> QED
  BY <1>1, <1>6, <1>8, <1>9

\* newSpool and releaseSpool move the count by one, nothing else does.
LEMMA PlacesMove ==
    ASSUME BudgetInv, NEW g \in Sessions, NEW p \in Places, pc' = [pc EXCEPT ![g] = p]
    PROVE  Cardinality({h \in Sessions : pc'[h] # "none"})
              = Cardinality({h \in Sessions : pc[h] # "none"}) - Place(pc[g]) + Place(p)
<1> DEFINE before == {h \in Sessions : pc[h] # "none"}
           now == {h \in Sessions : pc'[h] # "none"}
<1>1. IsFiniteSet(before) /\ Cardinality(before) \in Nat
  <2>1. before \in SUBSET Sessions
    OBVIOUS
  <2> HIDE DEF before
  <2> QED
    BY <2>1, SpoolOptions, FS_Subset, FS_CardinalityType
<1>2. /\ g \in before <=> pc[g] # "none"
      /\ now = IF p = "none" THEN before \ {g} ELSE before \cup {g}
  BY DEF BudgetInv, SpoolShape
<1> HIDE DEF before, now
<1>3. /\ Cardinality(before \cup {g}) = IF g \in before THEN Cardinality(before) ELSE Cardinality(before) + 1
      /\ Cardinality(before \ {g}) = IF g \in before THEN Cardinality(before) - 1 ELSE Cardinality(before)
  BY Zenon, <1>1, FS_AddElement, FS_RemoveElement
<1>4. Cardinality(now) = Cardinality(before) - Place(pc[g]) + Place(p)
  BY <1>1, <1>2, <1>3 DEF Place
<1> QED
  BY <1>4 DEF before, now

\* The shares as the ledger has them.
LEMMA Shares ==
    ASSUME BudgetInv
    PROVE  /\ held \in [Sessions -> Nat] /\ heldMemory \in [Sessions -> Nat]
           /\ \A g \in Sessions : /\ held[g] = Share(spool[g], pc[g], len[g])
                                  /\ heldMemory[g] = MemoryShare(spool[g], pc[g], len[g])
<1>1. ASSUME NEW g \in Sessions
      PROVE  /\ spool[g].reserved \in Nat /\ spool[g].reservedMemory \in Nat /\ len[g] \in Nat
  BY Local, SpoolOptions DEF Spools
<1> QED
  BY <1>1 DEF held, heldMemory, inFlight, Share, MemoryShare

\* A step of one session that moves the counters by what its shares move.
LEMMA LedgerStep ==
    ASSUME BudgetInv, BudgetInv', LedgerInv, NEW g \in Sessions, NEW p \in Places, NEW n, NEW v,
           pc' = [pc EXCEPT ![g] = p], len' = [len EXCEPT ![g] = n],
           spool' = [spool EXCEPT ![g] = v],
           total' = total - Share(spool[g], pc[g], len[g]) + Share(v, p, n),
           totalMemory' = totalMemory - MemoryShare(spool[g], pc[g], len[g]) + MemoryShare(v, p, n),
           concurrent' = concurrent - Place(pc[g]) + Place(p)
    PROVE  LedgerInv'
<1>1. /\ held \in [Sessions -> Nat] /\ heldMemory \in [Sessions -> Nat]
      /\ held[g] = Share(spool[g], pc[g], len[g])
      /\ heldMemory[g] = MemoryShare(spool[g], pc[g], len[g])
  BY Shares
<1>2. /\ held' \in [Sessions -> Nat] /\ heldMemory' \in [Sessions -> Nat]
      /\ \A h \in Sessions : /\ held'[h] = Share(spool'[h], pc'[h], len'[h])
                             /\ heldMemory'[h] = MemoryShare(spool'[h], pc'[h], len'[h])
  <2>1. \A h \in Sessions : /\ spool'[h] \in Spools /\ len'[h] \in 0..MaxWrite
    BY DEF BudgetInv, SpoolShape
  <2>2. \A h \in Sessions : /\ spool'[h].reserved \in Nat /\ spool'[h].reservedMemory \in Nat
                            /\ len'[h] \in Nat
    BY <2>1, SpoolOptions DEF Spools
  <2> QED
    BY <2>2 DEF held, heldMemory, inFlight, Share, MemoryShare
<1>3. pc'[g] = p /\ len'[g] = n /\ spool'[g] = v
  BY DEF BudgetInv, SpoolShape
<1>4. \A h \in Sessions \ {g} : pc'[h] = pc[h] /\ len'[h] = len[h] /\ spool'[h] = spool[h]
  BY DEF BudgetInv, SpoolShape
<1>5. Share(v, p, n) \in Nat /\ MemoryShare(v, p, n) \in Nat
  BY <1>2, <1>3
<1>6. /\ held' = [held EXCEPT ![g] = Share(v, p, n)]
      /\ heldMemory' = [heldMemory EXCEPT ![g] = MemoryShare(v, p, n)]
  BY <1>1, <1>2, <1>3, <1>4, Shares
<1>7. /\ IsFiniteSet(Octets(held')) /\ IsFiniteSet(Octets(heldMemory'))
      /\ Cardinality(Octets(held')) = Cardinality(Octets(held)) - held[g] + Share(v, p, n)
      /\ Cardinality(Octets(heldMemory'))
            = Cardinality(Octets(heldMemory)) - heldMemory[g] + MemoryShare(v, p, n)
  BY Zenon, <1>1, <1>5, <1>6, OctetsMove DEF LedgerInv
<1>8. Octets(held)' = Octets(held') /\ Octets(heldMemory)' = Octets(heldMemory')
  BY DEF Octets
<1>9. total' = Cardinality(Octets(held)') /\ totalMemory' = Cardinality(Octets(heldMemory)')
  BY Zenon, <1>1, <1>7, <1>8 DEF LedgerInv, LedgerExact
<1>10. concurrent' = Cardinality({h \in Sessions : pc'[h] # "none"})
  BY Zenon, PlacesMove DEF LedgerInv, LedgerExact
<1> QED
  BY <1>7, <1>8, <1>9, <1>10 DEF LedgerInv, LedgerExact

\* An error of Write before it has reserved.
LEMMA FailBalances ==
    ASSUME BudgetInv, BudgetInv', LedgerInv, NEW g \in Sessions, NEW n \in 0..MaxWrite,
           NEW err \in {"tooLarge", "total", "memory", "disk"},
           pc[g] \in {"open", "reserve", "spill"}, Fail(g, err), len' = [len EXCEPT ![g] = n],
           UNCHANGED manager
    PROVE  LedgerInv'
<1> DEFINE v == [spool[g] EXCEPT !.err = err]
<1>1. /\ v.reserved = spool[g].reserved /\ v.reservedMemory = spool[g].reservedMemory
      /\ spool[g].reserved \in Nat /\ spool[g].reservedMemory \in Nat
  BY Local DEF Spools
<1>2. spool' = [spool EXCEPT ![g] = v] /\ pc' = [pc EXCEPT ![g] = "failed"]
  BY DEF Fail, Go
<1> HIDE DEF v
<1>3. /\ total' = total - Share(spool[g], pc[g], len[g]) + Share(v, "failed", n)
      /\ totalMemory' = totalMemory - MemoryShare(spool[g], pc[g], len[g]) + MemoryShare(v, "failed", n)
      /\ concurrent' = concurrent - Place(pc[g]) + Place("failed")
  BY <1>1, Local DEF Share, MemoryShare, Place, manager
<1> QED
  BY Zenon, <1>2, <1>3, LedgerStep DEF Places

\* A spill gives back the memory it has, and that is what was reserved.
LEMMA SpillBalances ==
    ASSUME BudgetInv, BudgetInv', LedgerInv, NEW g \in Sessions, NEW n \in 0..MaxWrite,
           pc[g] \in {"open", "spill"}, spillLocked(g), Go(g, "reserve"), len' = [len EXCEPT ![g] = n]
    PROVE  LedgerInv'
<1> DEFINE v == [spool[g] EXCEPT !.memory = 0, !.file = TRUE,
                                 !.stored = spool[g].memory, !.reservedMemory = 0]
<1>1. /\ v.reserved = spool[g].reserved /\ v.reservedMemory = 0
      /\ spool[g].reserved \in Nat /\ spool[g].reservedMemory \in Nat
  BY Local DEF Spools
<1>2. spool' = [spool EXCEPT ![g] = v] /\ pc' = [pc EXCEPT ![g] = "reserve"]
  BY Zenon DEF spillLocked, Go
<1> HIDE DEF v
<1>3. /\ total' = total - Share(spool[g], pc[g], len[g]) + Share(v, "reserve", n)
      /\ totalMemory' = totalMemory - MemoryShare(spool[g], pc[g], len[g]) + MemoryShare(v, "reserve", n)
      /\ concurrent' = concurrent - Place(pc[g]) + Place("reserve")
  BY <1>1, Local DEF Share, MemoryShare, Place, spillLocked
<1> QED
  BY Zenon, <1>2, <1>3, LedgerStep DEF Places

\* A step that only moves on, with no reservation before or after it.
LEMMA MoveBalances ==
    ASSUME BudgetInv, BudgetInv', LedgerInv, NEW g \in Sessions, NEW n \in 0..MaxWrite,
           NEW p \in Places \ {"none", "copy"}, pc[g] \notin {"none", "copy"}, Go(g, p),
           len' = [len EXCEPT ![g] = n], UNCHANGED <<manager, spool>>
    PROVE  LedgerInv'
<1>1. /\ total' = total - Share(spool[g], pc[g], len[g]) + Share(spool[g], p, n)
      /\ totalMemory' = totalMemory - MemoryShare(spool[g], pc[g], len[g]) + MemoryShare(spool[g], p, n)
      /\ concurrent' = concurrent - Place(pc[g]) + Place(p)
  BY Local DEF Share, MemoryShare, Place, manager, Spools
<1>2. spool' = [spool EXCEPT ![g] = spool[g]] /\ pc' = [pc EXCEPT ![g] = p]
  BY Local DEF Go
<1> QED
  BY Zenon, <1>1, <1>2, LedgerStep

\* newSpool takes a place, releaseSpool gives it back with all the spool holds.
LEMMA PlaceBalances ==
    ASSUME BudgetInv, BudgetInv', LedgerInv, NEW g \in Sessions, newSpool(g) \/ releaseSpool(g)
    PROVE  LedgerInv'
<1>1. /\ NewSpool.reserved = 0 /\ NewSpool.reservedMemory = 0
      /\ spool[g].reserved \in Nat /\ spool[g].reservedMemory \in Nat
      /\ spool' = [spool EXCEPT ![g] = NewSpool] /\ len' = [len EXCEPT ![g] = len[g]]
  BY Local DEF newSpool, releaseSpool, NewSpool, Spools
<1>2. CASE newSpool(g)
  <2>1. spool[g].reserved = 0 /\ spool[g].reservedMemory = 0
    BY <1>2, Local DEF newSpool, SpoolInv, Spools
  <2>2. /\ total' = total - Share(spool[g], pc[g], len[g]) + Share(NewSpool, "open", len[g])
        /\ totalMemory' = totalMemory - MemoryShare(spool[g], pc[g], len[g])
                          + MemoryShare(NewSpool, "open", len[g])
        /\ concurrent' = concurrent - Place(pc[g]) + Place("open")
    BY <1>1, <1>2, <2>1, Local DEF newSpool, Share, MemoryShare, Place
  <2>3. pc' = [pc EXCEPT ![g] = "open"]
    BY <1>2 DEF newSpool, Go
  <2> QED
    BY Zenon, <1>1, <2>2, <2>3, LedgerStep DEF Places
<1>3. CASE releaseSpool(g)
  <2>1. /\ total' = total - Share(spool[g], pc[g], len[g]) + Share(NewSpool, "none", len[g])
        /\ totalMemory' = totalMemory - MemoryShare(spool[g], pc[g], len[g])
                          + MemoryShare(NewSpool, "none", len[g])
        /\ concurrent' = concurrent - Place(pc[g]) + Place("none")
    BY <1>1, <1>3, Local DEF releaseSpool, Share, MemoryShare, Place
  <2>2. pc' = [pc EXCEPT ![g] = "none"]
    BY SMTT(20), <1>3 DEF releaseSpool, Go
  <2> QED
    BY Zenon, <1>1, <2>1, <2>2, LedgerStep DEF Places
<1> QED
  BY <1>2, <1>3

\* Reserved charges what copy will store.
LEMMA ReserveBalances ==
    ASSUME BudgetInv, BudgetInv', LedgerInv, NEW g \in Sessions, reserve(g)
    PROVE  LedgerInv'
<1>1. pc[g] = "reserve" /\ len' = [len EXCEPT ![g] = len[g]] /\ len[g] \in 0..MaxWrite
  BY Local DEF reserve
<1>2. CASE Reserved(g)
  <2>1. /\ spool[g].reserved \in Nat /\ spool[g].reservedMemory \in Nat /\ len[g] \in Nat
        /\ spool[g].file \in BOOLEAN
    BY Local, SpoolOptions DEF Spools
  <2>2. /\ total' = total - Share(spool[g], pc[g], len[g]) + Share(spool[g], "copy", len[g])
        /\ totalMemory' = totalMemory - MemoryShare(spool[g], pc[g], len[g])
                          + MemoryShare(spool[g], "copy", len[g])
        /\ concurrent' = concurrent - Place(pc[g]) + Place("copy")
    BY <1>1, <1>2, <2>1, Local DEF Reserved, memoryBytes, Share, MemoryShare, Place
  <2>3. spool' = [spool EXCEPT ![g] = spool[g]] /\ pc' = [pc EXCEPT ![g] = "copy"]
    BY <1>2, Local DEF Reserved, Go
  <2> QED
    BY Zenon, <1>1, <2>2, <2>3, LedgerStep DEF Places
<1>3. CASE Go(g, "spill") /\ UNCHANGED <<manager, spool>>
  BY Zenon, <1>1, <1>3, MoveBalances DEF Places
<1>4. CASE (\E err \in {"tooLarge", "total", "memory", "disk"} : Fail(g, err)) /\ UNCHANGED manager
  <2>1. pc[g] \in {"open", "reserve", "spill"}
    BY <1>1
  <2> QED
    BY Zenon, <1>1, <1>4, <2>1, FailBalances
<1> QED
  BY Zenon, <1>2, <1>3, <1>4 DEF reserve, reserveError

\* copy keeps the reservation of what it stored and returns the rest.
LEMMA CopyBalances ==
    ASSUME BudgetInv, BudgetInv', LedgerInv, NEW g \in Sessions, copy(g)
    PROVE  LedgerInv'
<1>1. /\ pc[g] = "copy" /\ UNCHANGED <<totalMemory, concurrent>> /\ len' = [len EXCEPT ![g] = len[g]]
      /\ spool[g] \in Spools /\ len[g] \in Nat
  BY Local, SpoolOptions DEF copy
<1>2. PICK k \in 0..len[g] :
         /\ spool[g].file \/ k = len[g]
         /\ total' = total - unused(g, k)
         /\ \/ spool' = [spool EXCEPT ![g] = Written(spool[g], k)] /\ Go(g, "open")
            \/ spool' = [spool EXCEPT ![g] = [Written(spool[g], k) EXCEPT !.err = "disk"]] /\ Go(g, "failed")
  BY DEF copy
<1>3. k \in Nat /\ k <= len[g]
  BY <1>1
<1> DEFINE w == Written(spool[g], k)
<1>4. w \in Spools
  BY <1>1, <1>3, WrittenType
<1>5. /\ w.reserved = spool[g].reserved + k /\ w.file = spool[g].file
      /\ w.reservedMemory = spool[g].reservedMemory + IF spool[g].file THEN 0 ELSE k
      /\ spool[g].reserved \in Nat /\ spool[g].reservedMemory \in Nat
  BY <1>1, <1>3 DEF Written, Spools
<1> HIDE DEF w
<1> DEFINE e == [w EXCEPT !.err = "disk"]
<1>6. e.reserved = w.reserved /\ e.file = w.file /\ e.reservedMemory = w.reservedMemory
  BY <1>4 DEF Spools
<1> HIDE DEF e
<1>7. ASSUME NEW v \in {w, e}, NEW p \in {"open", "failed"},
             spool' = [spool EXCEPT ![g] = v], Go(g, p)
      PROVE  LedgerInv'
  <2>1. /\ v.reserved = spool[g].reserved + k
        /\ v.reservedMemory = spool[g].reservedMemory + IF spool[g].file THEN 0 ELSE k
    BY <1>5, <1>6
  <2>2. /\ total' = total - Share(spool[g], pc[g], len[g]) + Share(v, p, len[g])
        /\ concurrent' = concurrent - Place(pc[g]) + Place(p)
    BY <1>1, <1>2, <1>3, <1>5, <2>1, Local DEF Share, Place, unused
  <2>3. totalMemory' = totalMemory - MemoryShare(spool[g], pc[g], len[g]) + MemoryShare(v, p, len[g])
    BY <1>1, <1>2, <1>3, <1>5, <2>1, Local DEF MemoryShare
  <2>4. pc' = [pc EXCEPT ![g] = p] /\ p \in Places
    BY <1>7 DEF Go, Places
  <2> QED
    BY Zenon, <1>1, <1>7, <2>2, <2>3, <2>4, LedgerStep
<1> QED
  BY <1>2, <1>7 DEF w, e

\* Every step of a session balances.
LEMMA StepBalances ==
    ASSUME BudgetInv, BudgetInv', LedgerInv, SpoolNext
    PROVE  LedgerInv'
<1>1. PICK g \in Sessions :
         \/ newSpool(g) \/ releaseSpool(g) \/ reserve(g) \/ copy(g)
         \/ \E n \in 1..MaxWrite : Write(g, n)
         \/ spillAndRetry(g) \/ Close(g)
  BY DEF SpoolNext
<1>2. ASSUME NEW n \in 1..MaxWrite, Write(g, n)
      PROVE  LedgerInv'
  <2>1. pc[g] = "open" /\ len' = [len EXCEPT ![g] = n] /\ n \in 0..MaxWrite
    BY <1>2, SpoolOptions DEF Write
  <2>2. pc[g] \in {"open", "spill"} /\ pc[g] \in {"open", "reserve", "spill"}
    BY <2>1
  <2>3. CASE (\E err \in {"tooLarge", "total", "memory", "disk"} : Fail(g, err)) /\ UNCHANGED manager
    BY Zenon, <2>1, <2>2, <2>3, FailBalances
  <2>4. CASE spillLocked(g) /\ Go(g, "reserve")
    BY Zenon, <2>1, <2>2, <2>4, SpillBalances
  <2>5. CASE Go(g, "reserve") /\ UNCHANGED <<manager, spool>>
    BY Zenon, <2>1, <2>5, MoveBalances DEF Places
  <2> QED
    BY <1>2, <2>3, <2>4, <2>5 DEF Write
<1>3. CASE spillAndRetry(g)
  <2>1. pc[g] = "spill" /\ len' = [len EXCEPT ![g] = len[g]] /\ len[g] \in 0..MaxWrite
    BY <1>3, Local DEF spillAndRetry
  <2>2. pc[g] \in {"open", "spill"} /\ pc[g] \in {"open", "reserve", "spill"}
    BY <2>1
  <2> QED
    BY Zenon, <1>3, <2>1, <2>2, SpillBalances, FailBalances DEF spillAndRetry
<1>4. CASE Close(g)
  <2>1. pc[g] \in {"open", "failed"} /\ Go(g, "closing") /\ UNCHANGED <<manager, spool>>
        /\ len' = [len EXCEPT ![g] = len[g]] /\ len[g] \in 0..MaxWrite
    BY <1>4, Local DEF Close
  <2> QED
    BY Zenon, <2>1, MoveBalances DEF Places
<1> QED
  BY <1>1, <1>2, <1>3, <1>4, PlaceBalances, ReserveBalances, CopyBalances

\* The counters are exact in every reachable state.
THEOREM LedgerInvariance == SpoolSpec => []LedgerInv
<1>1. SpoolInit => LedgerInv
  <2> SUFFICES ASSUME SpoolInit
               PROVE  LedgerInv
    OBVIOUS
  <2>1. \A g \in Sessions : held[g] = 0 /\ heldMemory[g] = 0 /\ pc[g] = "none"
    BY DEF SpoolInit, held, heldMemory, inFlight, NewSpool
  <2>2. Octets(held) = {} /\ Octets(heldMemory) = {} /\ {g \in Sessions : pc[g] # "none"} = {}
    BY <2>1 DEF Octets
  <2> QED
    BY <2>2, FS_EmptySet DEF SpoolInit, LedgerInv, LedgerExact
<1>2. BudgetInv /\ BudgetInv' /\ LedgerInv /\ [SpoolNext]_spoolVars => LedgerInv'
  <2> SUFFICES ASSUME BudgetInv, BudgetInv', LedgerInv, [SpoolNext]_spoolVars
               PROVE  LedgerInv'
    OBVIOUS
  <2>1. CASE UNCHANGED spoolVars
    BY <2>1 DEF spoolVars, LedgerInv, LedgerExact, Octets, held, heldMemory, inFlight
  <2> QED
    BY <2>1, StepBalances
<1> QED
  BY <1>1, <1>2, BudgetInvariance, PTL DEF SpoolSpec

\* Nothing the sessions reserve leaks, and nothing is released twice (reserve,
\* release and releaseSpool against Write, spillLocked and Close).
THEOREM LedgerIsExact == SpoolSpec => []LedgerExact
<1>1. LedgerInv => LedgerExact
  BY DEF LedgerInv
<1> QED
  BY LedgerInvariance, <1>1, PTL

\* In particular no counter of the manager is ever negative.
THEOREM SpoolTypes == SpoolSpec => []SpoolTypeOK
<1>1. BudgetInv /\ LedgerInv => SpoolTypeOK
  <2> SUFFICES ASSUME BudgetInv, LedgerInv
               PROVE  SpoolTypeOK
    OBVIOUS
  <2>1. IsFiniteSet({g \in Sessions : pc[g] # "none"})
    BY SpoolOptions, FS_Subset
  <2>2. total \in Nat /\ totalMemory \in Nat /\ concurrent \in Nat
    BY <2>1, FS_CardinalityType DEF LedgerInv, LedgerExact
  <2> QED
    BY <2>2 DEF BudgetInv, SpoolShape, SpoolTypeOK
<1> QED
  BY <1>1, BudgetInvariance, LedgerInvariance, PTL
=============================================================================
