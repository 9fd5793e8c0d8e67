------------------------------ MODULE MemStats ------------------------------
(***************************************************************************)
(* Mode 1 of libmprofile.so: mprofile/init.c replaces OpenSSL's malloc(),  *)
(* realloc() and free() by wrappers that put a header in front of every    *)
(* block and keep process-wide totals in the structure `ms'.  An atexit()  *)
(* handler prints the totals.                                              *)
(*                                                                         *)
(* The totals are C11-style atomics updated one after another, without a   *)
(* lock, so the grain of this module is one atomic access per step: pc[t]  *)
(* names the access thread t performs next.  Everything a wrapper does     *)
(* that no other thread can see (reading and writing the header of a block *)
(* it owns, the libc call) is part of the step that enters the wrapper.    *)
(*                                                                         *)
(* The counters are uint64_t: additions and subtractions are modulo Wrap,  *)
(* and CountersExact shows when the modulus does not matter.                *)
(***************************************************************************)
EXTENDS Integers, FiniteSets, Functions

CONSTANTS
    Threads,      \* threads of the profiled application
    Main,         \* the thread that returns from main() and runs atexit()
    Blocks,       \* addresses libc malloc() can hand out
    NULL,         \* the null pointer
    Sizes,        \* request sizes, 0 included where a model wants it
    Wrap,         \* 2^64 in the code: the counters are kept modulo Wrap
    MaxCalls,     \* bound on OPENSSL_*alloc/free calls in one behaviour
    MallocFails,  \* may libc refuse a request?
    ZeroRealloc,  \* does the application call OPENSSL_realloc(NULL, 0)?
    JoinWorkers   \* does main() join its threads before it returns?

ASSUME ThreadsAssumption == Main \in Threads
ASSUME FiniteAssumption  == IsFiniteSet(Threads)
ASSUME NullAssumption    == NULL \notin Blocks
ASSUME SizesAssumption   == Sizes \subseteq Nat
ASSUME BoundAssumption   == MaxCalls \in Nat
ASSUME WrapAssumption    == Wrap \in Nat \ {0}
ASSUME FlagsAssumption   == {MallocFails, ZeroRealloc, JoinWorkers} \subseteq BOOLEAN

VARIABLES
    live,     \* blocks libc considers allocated
    hdr,      \* mh_size of each block
    intact,   \* blocks whose header passes the mh_chk test
    held,     \* blocks the application owns and may pass to a wrapper
    ms,       \* struct memstats
    peak,     \* history: the largest ms.current any update_alloc() produced
    pc,       \* next access of each thread
    req,      \* locals of the wrapper each thread is in
    calls,    \* calls made so far, bounded by MaxCalls
    report,   \* what save_stats() printed
    printed,  \* how many fields of the report are printed
    aborted   \* abort() was called

vars == <<live, hdr, intact, held, ms, peak, pc, req, calls, report, printed, aborted>>
heapVars == <<live, hdr, intact>>
exitVars == <<report, printed, aborted>>

Counters == {"total_allocated", "total_released", "allocs", "free", "reallocs", "max"}

\* The order in which save_stats() reads and prints the counters.
Fields == <<"total_allocated", "total_released", "allocs", "free", "reallocs", "max">>

\* uint64_t
Words == 0..(Wrap - 1)

Ops == {"malloc", "free", "grow", "shrink"}

PCs == {"idle", "allocs", "reallocs", "total_allocated", "cur_add", "load_max",
        "cas", "frees", "total_released", "cur_sub", "libc_free", "save_stats"}

Requests == [op : Ops, blk : Blocks \cup {NULL}, delta : Nat, cur : Words, max : Words]
NoReq == [op |-> "free", blk |-> NULL, delta |-> 0, cur |-> 0, max |-> 0]

Init ==
    /\ live = {}
    /\ hdr = [b \in Blocks |-> 0]
    /\ intact = {}
    /\ held = {}
    /\ ms = [c \in Counters \cup {"current"} |-> 0]
    /\ peak = 0
    /\ pc = [t \in Threads |-> "idle"]
    /\ req = [t \in Threads |-> NoReq]
    /\ calls = 0
    /\ report = [c \in Counters |-> 0]
    /\ printed = 0
    /\ aborted = FALSE

Exited == printed = 6
AllIdle == \A t \in Threads : pc[t] = "idle"

-----------------------------------------------------------------------------
(* Entering a wrapper.                                                     *)

CanCall(t) ==
    /\ ~aborted /\ ~Exited
    /\ pc[t] = "idle"
    /\ calls < MaxCalls
    /\ JoinWorkers => \A u \in Threads : pc[u] # "save_stats"

Enter(t, op, b, delta, first) ==
    /\ pc' = [pc EXCEPT ![t] = first]
    /\ req' = [req EXCEPT ![t] = [NoReq EXCEPT !.op = op, !.blk = b, !.delta = delta]]
    /\ UNCHANGED <<ms, peak, exitVars>>

\* malloc(sz), and realloc(NULL, sz) with sz # 0, which is counted as malloc.
MallocStats(t, sz) ==
    /\ CanCall(t)
    /\ calls' = calls + 1
    /\ \E b \in Blocks \ live :
         /\ live' = live \cup {b}
         /\ hdr' = [hdr EXCEPT ![b] = sz]
         /\ intact' = intact \cup {b}
         /\ Enter(t, "malloc", b, sz, "allocs")
    /\ UNCHANGED held

\* malloc() or realloc() returned NULL: nothing is counted, the block passed
\* to realloc() stays with the application.
LibcRefuses(t) ==
    /\ CanCall(t)
    /\ MallocFails
    /\ calls' = calls + 1
    /\ UNCHANGED <<heapVars, held, ms, peak, pc, req, exitVars>>

\* Variant: the block goes back to libc before it is counted.
FreeStatsFreesFirst(t, b) ==
    /\ CanCall(t)
    /\ b \in intact
    /\ calls' = calls + 1
    /\ held' = held \ {b}
    /\ live' = live \ {b}
    /\ intact' = intact \ {b}
    /\ Enter(t, "free", b, hdr[b], "frees")
    /\ UNCHANGED hdr

\* free(b), and realloc(b, 0) with b # NULL, which is counted as free.
FreeStats(t, b) ==
    /\ CanCall(t)
    /\ b \in intact
    /\ calls' = calls + 1
    /\ held' = held \ {b}
    /\ Enter(t, "free", b, hdr[b], "frees")
    /\ UNCHANGED heapVars

\* Variant: the branch on a shrinking block is gone.
ReallocStatsOnlyGrows(t, b, sz) ==
    /\ CanCall(t)
    /\ b \in intact /\ sz > 0
    /\ calls' = calls + 1
    /\ held' = held \ {b}
    /\ \E nb \in {b} \cup (Blocks \ live) :
         /\ live' = (live \ {b}) \cup {nb}
         /\ hdr' = [hdr EXCEPT ![nb] = sz]
         /\ intact' = (intact \ {b}) \cup {nb}
         /\ Enter(t, "grow", nb, sz - hdr[b], "reallocs")

\* realloc(b, sz) with b # NULL and sz # 0; libc keeps the block or moves it.
ReallocStats(t, b, sz) ==
    /\ CanCall(t)
    /\ b \in intact /\ sz > 0
    /\ calls' = calls + 1
    /\ held' = held \ {b}
    /\ \E nb \in {b} \cup (Blocks \ live) :
         /\ live' = (live \ {b}) \cup {nb}
         /\ hdr' = [hdr EXCEPT ![nb] = sz]
         /\ intact' = (intact \ {b}) \cup {nb}
         /\ IF hdr[b] > sz
            THEN Enter(t, "shrink", nb, hdr[b] - sz, "reallocs")
            ELSE Enter(t, "grow", nb, sz - hdr[b], "reallocs")

\* realloc(NULL, 0): libc returns a block of its minimal size and the wrapper
\* hands out the address behind a header it never wrote.  What the header
\* test finds there is whatever the memory held before.
ReallocNullZero(t) ==
    /\ CanCall(t)
    /\ ZeroRealloc
    /\ calls' = calls + 1
    /\ \E b \in Blocks \ live, junk \in Sizes, ok \in BOOLEAN :
         /\ live' = live \cup {b}
         /\ hdr' = [hdr EXCEPT ![b] = junk]
         /\ intact' = IF ok THEN intact \cup {b} ELSE intact \ {b}
         /\ held' = held \cup {b}
    /\ UNCHANGED <<ms, peak, pc, req, exitVars>>

\* "memory corruption detected": free() or realloc() of a block whose header
\* does not pass the test.
AbortOnHeader(t, b) ==
    /\ CanCall(t)
    /\ b \notin intact
    /\ aborted' = TRUE
    /\ UNCHANGED <<heapVars, held, ms, peak, pc, req, calls, report, printed>>

-----------------------------------------------------------------------------
(* The atomic accesses.                                                    *)

\* Access a counter and go on; a thread is stopped once the process is gone.
At(t, l) == pc[t] = l /\ ~aborted /\ ~Exited

Add(c, n) == ms' = [ms EXCEPT ![c] = (@ + n) % Wrap]

Goto(t, l) == pc' = [pc EXCEPT ![t] = l]

\* The wrapper returns; malloc and realloc give the block to the application.
Return(t) ==
    /\ pc' = [pc EXCEPT ![t] = "idle"]
    /\ req' = [req EXCEPT ![t] = NoReq]
    /\ held' = IF req[t].op = "free" THEN held ELSE held \cup {req[t].blk}

CountAlloc(t) ==
    /\ At(t, "allocs")
    /\ Add("allocs", 1)
    /\ Goto(t, "total_allocated")
    /\ UNCHANGED <<heapVars, held, peak, req, calls, exitVars>>

\* Variant: a shrinking realloc does not call update_release().
CountReallocNoRelease(t) ==
    /\ At(t, "reallocs")
    /\ Add("reallocs", 1)
    /\ Goto(t, IF req[t].op = "shrink" THEN "total_released" ELSE "total_allocated")
    /\ UNCHANGED <<heapVars, held, peak, req, calls, exitVars>>

CountRealloc(t) ==
    /\ At(t, "reallocs")
    /\ Add("reallocs", 1)
    /\ Goto(t, IF req[t].op = "shrink" THEN "cur_sub" ELSE "total_allocated")
    /\ UNCHANGED <<heapVars, held, peak, req, calls, exitVars>>

\* Variant: the operation is not counted.
CountFreeSkips(t) ==
    /\ At(t, "frees")
    /\ Goto(t, "total_released")
    /\ UNCHANGED <<heapVars, held, ms, peak, req, calls, exitVars>>

CountFree(t) ==
    /\ At(t, "frees")
    /\ Add("free", 1)
    /\ Goto(t, "total_released")
    /\ UNCHANGED <<heapVars, held, peak, req, calls, exitVars>>

AddAllocated(t) ==
    /\ At(t, "total_allocated")
    /\ Add("total_allocated", req[t].delta)
    /\ Goto(t, "cur_add")
    /\ UNCHANGED <<heapVars, held, peak, req, calls, exitVars>>

\* A shrinking realloc counts the released bytes last and returns.
AddReleased(t) ==
    /\ At(t, "total_released")
    /\ Add("total_released", req[t].delta)
    /\ IF req[t].op = "shrink"
       THEN Return(t)
       ELSE Goto(t, "cur_sub") /\ UNCHANGED <<held, req>>
    /\ UNCHANGED <<heapVars, peak, calls, exitVars>>

\* update_release()
UpdateRelease(t) ==
    /\ At(t, "cur_sub")
    /\ Add("current", -req[t].delta)
    /\ Goto(t, IF req[t].op = "shrink" THEN "total_released" ELSE "libc_free")
    /\ UNCHANGED <<heapVars, held, peak, req, calls, exitVars>>

\* update_alloc(), in three accesses: add to ms_current, ...
UpdateAllocAdd(t) ==
    /\ At(t, "cur_add")
    /\ LET current == (ms.current + req[t].delta) % Wrap
       IN  /\ ms' = [ms EXCEPT !.current = current]
           /\ peak' = IF current > peak THEN current ELSE peak
           /\ req' = [req EXCEPT ![t].cur = current]
    /\ Goto(t, "load_max")
    /\ UNCHANGED <<heapVars, held, calls, exitVars>>

\* ... load ms_max, and return when it is large enough; ...
UpdateAllocLoad(t) ==
    /\ At(t, "load_max")
    /\ IF req[t].cur > ms.max
       THEN /\ req' = [req EXCEPT ![t].max = ms.max]
            /\ Goto(t, "cas")
            /\ UNCHANGED held
       ELSE Return(t)
    /\ UNCHANGED <<heapVars, ms, peak, calls, exitVars>>

\* Variant: one attempt without the loop around it.
UpdateAllocCasOnce(t) ==
    /\ At(t, "cas")
    /\ ms' = IF ms.max = req[t].max THEN [ms EXCEPT !.max = req[t].cur] ELSE ms
    /\ Return(t)
    /\ UNCHANGED <<heapVars, peak, calls, exitVars>>

\* Variant: a failed exchange does not reload the local `max'.
UpdateAllocCasStale(t) ==
    /\ At(t, "cas")
    /\ ms' = IF ms.max = req[t].max THEN [ms EXCEPT !.max = req[t].cur] ELSE ms
    /\ UNCHANGED <<heapVars, held, peak, pc, req, calls, exitVars>>

\* ... else compare and exchange it.  A successful exchange leaves the local
\* `max' as it was, so the loop comes back here; a failed one reloads it.
UpdateAllocCas(t) ==
    /\ At(t, "cas")
    /\ IF ms.max = req[t].max
       THEN /\ ms' = [ms EXCEPT !.max = req[t].cur]
            /\ UNCHANGED <<pc, req, held>>
       ELSE /\ IF req[t].cur > ms.max
               THEN req' = [req EXCEPT ![t].max = ms.max] /\ UNCHANGED <<pc, held>>
               ELSE Return(t)
            /\ UNCHANGED ms
    /\ UNCHANGED <<heapVars, peak, calls, exitVars>>

\* The free(mh) that ends the wrapper, and libc's side of realloc(b, 0).
LibcFree(t) ==
    /\ At(t, "libc_free")
    /\ live' = live \ {req[t].blk}
    /\ intact' = intact \ {req[t].blk}
    /\ Return(t)
    /\ UNCHANGED <<hdr, ms, peak, calls, exitVars>>

-----------------------------------------------------------------------------
(* Process exit.                                                           *)

\* main() returns and exit() calls save_stats(), the last atexit() handler.
Exit ==
    /\ ~aborted /\ ~Exited
    /\ pc[Main] = "idle"
    /\ JoinWorkers => AllIdle
    /\ Goto(Main, "save_stats")
    /\ UNCHANGED <<heapVars, held, ms, peak, req, calls, exitVars>>

SaveStats ==
    /\ At(Main, "save_stats")
    /\ report' = [report EXCEPT ![Fields[printed + 1]] = ms[Fields[printed + 1]]]
    /\ printed' = printed + 1
    /\ UNCHANGED <<heapVars, held, ms, peak, pc, req, calls, aborted>>

\* The process is gone.
Terminated == (aborted \/ Exited) /\ UNCHANGED vars

-----------------------------------------------------------------------------
Call(t) ==
    \/ \E sz \in Sizes : MallocStats(t, sz)
    \/ LibcRefuses(t)
    \/ \E b \in held : FreeStats(t, b)
    \/ \E b \in held, sz \in Sizes : ReallocStats(t, b, sz)
    \/ ReallocNullZero(t)
    \/ \E b \in held : AbortOnHeader(t, b)

Access(t) ==
    \/ CountAlloc(t) \/ CountRealloc(t) \/ CountFree(t)
    \/ AddAllocated(t) \/ AddReleased(t)
    \/ UpdateRelease(t)
    \/ UpdateAllocAdd(t) \/ UpdateAllocLoad(t) \/ UpdateAllocCas(t)
    \/ LibcFree(t)

Next ==
    \/ \E t \in Threads : Call(t) \/ Access(t)
    \/ Exit
    \/ SaveStats
    \/ Terminated

Spec == Init /\ [][Next]_vars

\* A thread inside a wrapper is a running thread: the scheduler gets to it.
\* Whether the application makes another call is its own affair.
FairSpec == Spec /\ \A t \in Threads : WF_vars(Access(t)) /\ WF_vars(SaveStats)
-----------------------------------------------------------------------------
(* Properties.                                                             *)

(* Types of the variables.                                                 *)
TypeOK ==
    /\ live \subseteq Blocks
    /\ hdr \in [Blocks -> Nat]
    /\ intact \subseteq Blocks
    /\ held \subseteq Blocks
    /\ ms \in [Counters \cup {"current"} -> Words]
    /\ peak \in Words
    /\ pc \in [Threads -> PCs]
    /\ req \in [Threads -> Requests]
    /\ calls \in 0..MaxCalls
    /\ report \in [Counters -> Words]
    /\ printed \in 0..6
    /\ aborted \in BOOLEAN

InCall(t) == pc[t] \notin {"idle", "save_stats"}

(* A block is in one place: owned by the application, or inside one call,  *)
(* or with libc.  The wrappers count a free before they hand the block to  *)
(* libc, so no other thread can be given an address that is still being    *)
(* accounted for.                                                          *)
Ownership ==
    /\ held \subseteq live
    /\ \A t \in Threads : InCall(t) => req[t].blk \in live \ held
    /\ \A t, u \in Threads :
          t # u /\ InCall(t) /\ InCall(u) => req[t].blk # req[u].blk

Before(t, ops, labels) == req[t].op \in ops /\ pc[t] \in labels

LiveBytes == SumFunctionOnSet(hdr, live)

\* What has to be added to the live bytes to get ms.current, on account of the
\* call of thread t: negative while libc has given its block and the block is
\* not counted, or counts it no more and has not freed it; positive while a
\* shrinking realloc has still to be subtracted.
OwedCurrent(t) ==
    CASE Before(t, {"malloc", "grow"}, {"allocs", "reallocs", "total_allocated", "cur_add"})
            -> -req[t].delta
      [] Before(t, {"shrink"}, {"reallocs", "cur_sub"}) -> req[t].delta
      [] Before(t, {"free"}, {"libc_free"}) -> -req[t].delta
      [] OTHER -> 0

\* The same for total_allocated - total_released.
OwedTotals(t) ==
    CASE Before(t, {"malloc", "grow"}, {"allocs", "reallocs", "total_allocated"})
            -> -req[t].delta
      [] Before(t, {"shrink"}, {"reallocs", "cur_sub", "total_released"}) -> req[t].delta
      [] Before(t, {"free"}, {"cur_sub", "libc_free"}) -> -req[t].delta
      [] OTHER -> 0

(* ms.current is the number of bytes in live blocks, give or take what the *)
(* threads inside a wrapper have yet to count; in particular no ordering   *)
(* of malloc, free and the two kinds of realloc makes the unsigned counter *)
(* wrap below zero (update_alloc, update_release).                         *)
(* total_allocated - total_released, the difference ReadMe.txt tells a     *)
(* reader to look at, is the number of live bytes up to the same kind of   *)
(* debt: every size counted in by malloc or a growing realloc is counted   *)
(* out by free, realloc(b, 0) or a shrinking realloc.                      *)
CountersExact ==
    /\ ms.current = LiveBytes + SumFunction([t \in Threads |-> OwedCurrent(t)])
    /\ ms.total_allocated - ms.total_released
         = LiveBytes + SumFunction([t \in Threads |-> OwedTotals(t)])

Raising(t) == pc[t] \in {"load_max", "cas"}

(* Once no thread is inside update_alloc()'s maximum loop, ms.max is the   *)
(* largest ms.current any update_alloc() produced: no interleaving of the  *)
(* load and the compare-exchange loses a peak.                             *)
MaxIsPeak == (\A t \in Threads : ~Raising(t)) => ms.max = peak

(* ms.max never decreases: a compare-exchange with a stale `max' cannot    *)
(* overwrite a larger peak stored by another thread.                       *)
MaxMonotone == [][ms'.max >= ms.max]_vars

(* With the workers joined before main() returns, the printed report is    *)
(* the truth about the run: the byte totals differ by what leaked, the     *)
(* operation counts by how many blocks leaked, and the maximum is the peak.*)
ReportTrue ==
    JoinWorkers /\ Exited =>
        /\ report.total_allocated - report.total_released = LiveBytes
        /\ report.allocs - report.free = Cardinality(live)
        /\ report.max = peak

(* Every call returns: the compare-exchange loop in update_alloc() ends    *)
(* for each thread although a failed exchange sends it round again.        *)
CallsReturn == \A t \in Threads : pc[t] # "idle" ~> (pc[t] = "idle" \/ Exited)
=============================================================================
