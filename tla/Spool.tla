------------------------------- MODULE Spool -------------------------------
(***************************************************************************)
(* The BDAT storage budget of one Server (smtpserver/spool.go).  Sessions  *)
(* run on goroutines of their own and share one spoolManager; a session    *)
(* has at most one spool at a time and is the only one to use it, so its   *)
(* fields change under one goroutine, and what interleaves are the calls   *)
(* that lock the manager: newSpool, reserve, release and releaseSpool.     *)
(* Every step below makes at most one of them.                             *)
(***************************************************************************)
EXTENDS Integers, FiniteSets

CONSTANTS
    Sessions,
    MaxBytes,             \* spoolOptions, as newSpoolManager checks them
    MaxMemoryBytes,
    MaxTotalBytes,
    MaxTotalMemoryBytes,
    MaxConcurrent,
    MaxWrite              \* bound: the longest slice of one Write

ASSUME SpoolOptions ==
    /\ {MaxBytes, MaxMemoryBytes, MaxTotalBytes, MaxTotalMemoryBytes,
        MaxConcurrent, MaxWrite} \subseteq Nat \ {0}
    /\ IsFiniteSet(Sessions)

VARIABLES
    total,                \* spoolManager
    totalMemory,
    concurrent,
    pc,                   \* where each session is in the operations of its spool
    len,                  \* len(p) of its Write in progress
    spool,                \* the fields of its spool
    offered               \* history: octets its completed Writes were given

manager   == <<total, totalMemory, concurrent>>
spoolVars == <<total, totalMemory, concurrent, pc, len, spool, offered>>

\* memory: len(memory).  stored: octets in the file.  Close takes reserved and
\* reservedMemory over to releaseSpool; they stay here until then.
Spools == [memory : Nat, file : BOOLEAN, stored : Nat, size : Nat,
           reserved : Nat, reservedMemory : Nat, err : {"none", "tooLarge",
           "total", "memory", "disk"}]

NewSpool == [memory |-> 0, file |-> FALSE, stored |-> 0, size |-> 0,
             reserved |-> 0, reservedMemory |-> 0, err |-> "none"]

SpoolInit ==
    /\ total = 0 /\ totalMemory = 0 /\ concurrent = 0
    /\ pc = [g \in Sessions |-> "none"]
    /\ len = [g \in Sessions |-> 0]
    /\ spool = [g \in Sessions |-> NewSpool]
    /\ offered = [g \in Sessions |-> 0]

Go(g, to) == pc' = [pc EXCEPT ![g] = to]

\* An error of Write.  spoolChunkWriter keeps the first one and gives the spool
\* nothing more; failBDAT then closes the spool.
Fail(g, err) ==
    /\ Go(g, "failed")
    /\ spool' = [spool EXCEPT ![g].err = err]

newSpool(g) ==
    /\ pc[g] = "none"
    /\ concurrent < MaxConcurrent
    /\ concurrent' = concurrent + 1
    /\ Go(g, "open")
    /\ spool' = [spool EXCEPT ![g] = NewSpool]
    /\ offered' = [offered EXCEPT ![g] = 0]
    /\ UNCHANGED <<total, totalMemory, len>>

\* Mutant: an exhausted memory budget is not noticed.
reserveErrorTotalOnly(bytes, memory) ==
    IF bytes > MaxTotalBytes - total THEN "total" ELSE "none"

\* What reserve answers to the asked amounts.
reserveError(bytes, memory) ==
    IF bytes > MaxTotalBytes - total THEN "total"
    ELSE IF memory > MaxTotalMemoryBytes - totalMemory THEN "memory"
    ELSE "none"

\* spillLocked that succeeds: the file is written first, then the memory is
\* released.
spillLocked(g) ==
    /\ totalMemory' = totalMemory - spool[g].reservedMemory
    /\ spool' = [spool EXCEPT ![g].memory = 0, ![g].file = TRUE,
                              ![g].stored = spool[g].memory,
                              ![g].reservedMemory = 0]
    /\ UNCHANGED <<total, concurrent>>

tooLarge(g, n) == n > MaxBytes - spool[g].size
outgrowsMemory(g, n) == ~spool[g].file /\ spool[g].size + n > MaxMemoryBytes

\* Write up to its first reservation.
Write(g, n) ==
    /\ pc[g] = "open"
    /\ len' = [len EXCEPT ![g] = n]
    /\ \/ tooLarge(g, n) /\ Fail(g, "tooLarge") /\ UNCHANGED manager
       \/ /\ ~tooLarge(g, n) /\ outgrowsMemory(g, n)
          /\ \/ spillLocked(g) /\ Go(g, "reserve")
             \/ Fail(g, "disk") /\ UNCHANGED manager
       \/ /\ ~tooLarge(g, n) /\ ~outgrowsMemory(g, n)
          /\ Go(g, "reserve") /\ UNCHANGED <<manager, spool>>
    /\ UNCHANGED offered

memoryBytes(g) == IF spool[g].file THEN 0 ELSE len[g]

\* reserve that succeeds, and fails.
Reserved(g) ==
    /\ total' = total + len[g]
    /\ totalMemory' = totalMemory + memoryBytes(g)
    /\ UNCHANGED <<concurrent, spool>>
    /\ Go(g, "copy")

reserve(g) ==
    /\ pc[g] = "reserve"
    /\ LET err == reserveError(len[g], memoryBytes(g))
       IN  \/ err = "none" /\ Reserved(g)
           \/ /\ err = "memory" /\ ~spool[g].file
              /\ Go(g, "spill") /\ UNCHANGED <<manager, spool>>
           \/ /\ err # "none" /\ ~(err = "memory" /\ ~spool[g].file)
              /\ Fail(g, err) /\ UNCHANGED manager
    /\ UNCHANGED <<len, offered>>

\* Mutant: the retry does not spill first.
retryWithoutSpill(g) ==
    /\ pc[g] = "spill"
    /\ Go(g, "reserve")
    /\ UNCHANGED <<manager, spool, len, offered>>

\* The memory budget was exhausted: spill, and reserve again without memory.
spillAndRetry(g) ==
    /\ pc[g] = "spill"
    /\ \/ spillLocked(g) /\ Go(g, "reserve")
       \/ Fail(g, "disk") /\ UNCHANGED manager
    /\ UNCHANGED <<len, offered>>

\* What is left of the reservation when k octets were written.
unused(g, k) == len[g] - k

\* The spool v after k octets reached memory or the file.
Written(v, k) ==
    IF v.file
      THEN [v EXCEPT !.stored = v.stored + k, !.size = v.size + k,
                     !.reserved = v.reserved + k]
      ELSE [v EXCEPT !.memory = v.memory + k, !.size = v.size + k,
                     !.reserved = v.reserved + k,
                     !.reservedMemory = v.reservedMemory + k]

\* Only a file can take fewer octets than it is given.
copy(g) ==
    /\ pc[g] = "copy"
    /\ \E k \in 0..len[g] :
         /\ spool[g].file \/ k = len[g]
         /\ total' = total - unused(g, k)
         /\ \/ /\ k = len[g]
               /\ spool' = [spool EXCEPT ![g] = Written(spool[g], k)]
               /\ Go(g, "open")
            \/ /\ k < len[g]
               /\ spool' = [spool EXCEPT ![g] = [Written(spool[g], k) EXCEPT !.err = "disk"]]
               /\ Go(g, "failed")
    /\ offered' = [offered EXCEPT ![g] = offered[g] + len[g]]
    /\ UNCHANGED <<totalMemory, concurrent, len>>

\* Close, when the session resets its transaction or ends.
Close(g) ==
    /\ pc[g] \in {"open", "failed"}
    /\ Go(g, "closing")
    /\ UNCHANGED <<manager, len, spool, offered>>

\* Mutant: the octets are released, the place in the count is not.
releaseSpoolButCount(g) ==
    /\ pc[g] = "closing"
    /\ total' = total - spool[g].reserved
    /\ totalMemory' = totalMemory - spool[g].reservedMemory
    /\ spool' = [spool EXCEPT ![g] = NewSpool]
    /\ Go(g, "none")
    /\ UNCHANGED <<concurrent, len, offered>>

\* Close's last call, once the file is closed.
releaseSpool(g) ==
    /\ pc[g] = "closing"
    /\ total' = total - spool[g].reserved
    /\ totalMemory' = totalMemory - spool[g].reservedMemory
    /\ concurrent' = concurrent - 1
    /\ spool' = [spool EXCEPT ![g] = NewSpool]
    /\ Go(g, "none")
    /\ UNCHANGED <<len, offered>>

\* The rest of an operation that has begun: no step of it waits.
Continue(g) == reserve(g) \/ spillAndRetry(g) \/ copy(g) \/ releaseSpool(g)

SpoolNext ==
    \E g \in Sessions :
        \/ newSpool(g)
        \/ \E n \in 1..MaxWrite : Write(g, n)
        \/ reserve(g)
        \/ spillAndRetry(g)
        \/ copy(g)
        \/ Close(g)
        \/ releaseSpool(g)

\* The Go scheduler runs every goroutine that can run.
SpoolSpec == SpoolInit /\ [][SpoolNext]_spoolVars /\ \A g \in Sessions : WF_spoolVars(Continue(g))

------------------------------------------------------------------------------
\* Every variable keeps its type; the manager's counters are never negative.
SpoolTypeOK ==
    /\ total \in Nat /\ totalMemory \in Nat /\ concurrent \in Nat
    /\ pc \in [Sessions -> {"none", "open", "reserve", "spill", "copy", "failed",
                            "closing"}]
    /\ len \in [Sessions -> 0..MaxWrite]
    /\ spool \in [Sessions -> Spools]
    /\ offered \in [Sessions -> Nat]

\* No interleaving of the sessions takes the Server over its aggregate limits,
\* and no session takes its own spool over the limits of one (reserve,
\* newSpool and the checks of Write).
WithinBudget ==
    /\ total <= MaxTotalBytes
    /\ totalMemory <= MaxTotalMemoryBytes
    /\ concurrent <= MaxConcurrent
    /\ \A g \in Sessions : /\ spool[g].size <= MaxBytes
                           /\ spool[g].memory <= MaxMemoryBytes

\* What each session has reserved: the octets in its spool, and those its Write
\* is about to copy there.
inFlight(g) == IF pc[g] = "copy" THEN len[g] ELSE 0
held == [g \in Sessions |-> spool[g].reserved + inFlight(g)]
heldMemory ==
    [g \in Sessions |-> spool[g].reservedMemory + IF spool[g].file THEN 0 ELSE inFlight(g)]

\* So many octets of each session, one by one.
Octets(amount) == UNION {{g} \X (1..amount[g]) : g \in Sessions}

\* The manager's counters are what the sessions hold, reservations of a Write
\* in progress included: nothing leaks and nothing is released twice, on the
\* error paths of Write, spillLocked and Close too.
LedgerExact ==
    /\ total = Cardinality(Octets(held))
    /\ totalMemory = Cardinality(Octets(heldMemory))
    /\ concurrent = Cardinality({g \in Sessions : pc[g] # "none"})

\* As long as no Write failed, the spool holds every octet it was given, in one
\* place, with a reservation for each (Write and spillLocked): what Reader
\* hands to the backend is the whole content.
ContentComplete ==
    \A g \in Sessions : pc[g] = "open" =>
        /\ spool[g].size = offered[g]
        /\ spool[g].memory + spool[g].stored = spool[g].size
        /\ spool[g].file => spool[g].memory = 0
        /\ spool[g].reserved = spool[g].size
        /\ spool[g].reservedMemory = spool[g].memory

\* An exhausted memory budget alone never refuses a chunk: Write spills and
\* tries again without memory.
MemoryNeverRefuses == \A g \in Sessions : spool[g].err # "memory"

\* Every Write and every Close that has begun ends, whatever the other sessions
\* do: a session retries at most once.
OperationsEnd ==
    \A g \in Sessions :
        pc[g] \in {"reserve", "spill", "copy", "closing"}
            ~> pc[g] \in {"open", "failed", "none"}

==============================================================================
