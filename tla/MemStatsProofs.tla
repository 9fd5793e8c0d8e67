--------------------------- MODULE MemStatsProofs ---------------------------
(***************************************************************************)
(* Theorems about MemStats: type correctness, the exclusive ownership of   *)
(* blocks, that the lock-free maximum of update_alloc() loses no peak, that*)
(* the counters are exact and that the report is the truth about the run.  *)
(* They hold for every finite number of threads, every number of blocks    *)
(* and calls and any exit policy, and whether or not libc fails.           *)
(***************************************************************************)
EXTENDS MemStats, SumTheorems, TLAPS

LEMMA WordArithmetic == 0 \in Words /\ \A n \in Int : n % Wrap \in Words
  BY WrapAssumption DEF Words

LEMMA NoReqType == NoReq \in Requests
  BY WordArithmetic DEF NoReq, Requests, Ops

LEMMA EnterType ==
    ASSUME TypeOK, NEW t \in Threads, NEW op \in Ops, NEW b \in Blocks,
           NEW delta \in Nat, NEW l \in PCs, Enter(t, op, b, delta, l)
    PROVE  pc' \in [Threads -> PCs] /\ req' \in [Threads -> Requests]
  <1>1. pc' \in [Threads -> PCs]
    BY DEF TypeOK, Enter
  <1>2. [NoReq EXCEPT !.op = op, !.blk = b, !.delta = delta] \in Requests
    BY WordArithmetic DEF NoReq, Requests
  <1>3. QED
    BY <1>1, <1>2 DEF TypeOK, Enter

LEMMA ReturnType ==
    ASSUME TypeOK, NEW t \in Threads, Return(t), req[t].blk \in Blocks
    PROVE  /\ pc' \in [Threads -> PCs]
           /\ req' \in [Threads -> Requests]
           /\ held' \subseteq Blocks
  BY NoReqType DEF TypeOK, Return, PCs

LEMMA InitType == Init => TypeOK
  <1> SUFFICES ASSUME Init PROVE TypeOK
    OBVIOUS
  <1>1. /\ ms \in [Counters \cup {"current"} -> Words]
        /\ peak \in Words
        /\ req \in [Threads -> Requests]
        /\ report \in [Counters -> Words]
    BY WordArithmetic, NoReqType DEF Init
  <1>2. hdr \in [Blocks -> Nat] /\ pc \in [Threads -> PCs]
    BY DEF Init, PCs
  <1>3. calls \in 0..MaxCalls /\ printed \in 0..6
    BY BoundAssumption DEF Init
  <1>4. live \subseteq Blocks /\ intact \subseteq Blocks /\ held \subseteq Blocks
    BY DEF Init
  <1>5. aborted \in BOOLEAN
    BY DEF Init
  <1>6. QED
    BY <1>1, <1>2, <1>3, <1>4, <1>5 DEF TypeOK

(***************************************************************************)
(* The type invariant is preserved by every step.  The block of a returning*)
(* call is an address because of Ownership.                                *)
(***************************************************************************)
LEMMA CallType ==
    ASSUME TypeOK, Ownership, NEW t \in Threads, Call(t)
    PROVE  TypeOK'
  <1>0. CanCall(t) => calls + 1 \in 0..MaxCalls
    BY BoundAssumption DEF TypeOK, CanCall
  <1>1. ASSUME NEW sz \in Sizes, MallocStats(t, sz) PROVE TypeOK'
    <2>1. PICK b \in Blocks \ live : /\ live' = live \cup {b}
                                     /\ hdr' = [hdr EXCEPT ![b] = sz]
                                     /\ intact' = intact \cup {b}
                                     /\ Enter(t, "malloc", b, sz, "allocs")
      BY <1>1 DEF MallocStats
    <2>2. pc' \in [Threads -> PCs] /\ req' \in [Threads -> Requests]
      BY <2>1, EnterType, SizesAssumption DEF Ops, PCs
    <2>3. QED
      BY <1>0, <1>1, <2>1, <2>2, SizesAssumption
      DEF TypeOK, MallocStats, Enter, exitVars
  <1>2. ASSUME LibcRefuses(t) PROVE TypeOK'
    BY <1>0, <1>2 DEF TypeOK, LibcRefuses, heapVars, exitVars
  <1>3. ASSUME NEW b \in held, FreeStats(t, b) PROVE TypeOK'
    <2>1. pc' \in [Threads -> PCs] /\ req' \in [Threads -> Requests]
      <3>1. b \in Blocks /\ hdr[b] \in Nat
        BY DEF TypeOK
      <3>2. QED
        BY <1>3, <3>1, EnterType DEF FreeStats, Ops, PCs
    <2>2. QED
      BY <1>0, <1>3, <2>1 DEF TypeOK, FreeStats, Enter, heapVars, exitVars
  <1>4. ASSUME NEW b \in held, NEW sz \in Sizes, ReallocStats(t, b, sz) PROVE TypeOK'
    <2>1. b \in Blocks /\ hdr[b] \in Nat /\ sz \in Nat
      BY SizesAssumption DEF TypeOK
    <2>2. PICK nb \in {b} \cup (Blocks \ live) :
             /\ live' = (live \ {b}) \cup {nb}
             /\ hdr' = [hdr EXCEPT ![nb] = sz]
             /\ intact' = (intact \ {b}) \cup {nb}
             /\ IF hdr[b] > sz
                THEN Enter(t, "shrink", nb, hdr[b] - sz, "reallocs")
                ELSE Enter(t, "grow", nb, sz - hdr[b], "reallocs")
      BY <1>4 DEF ReallocStats
    <2>3. CASE hdr[b] > sz
      <3>1. hdr[b] - sz \in Nat /\ Enter(t, "shrink", nb, hdr[b] - sz, "reallocs")
        BY <2>1, <2>2, <2>3
      <3>2. pc' \in [Threads -> PCs] /\ req' \in [Threads -> Requests]
        BY <2>1, <3>1, EnterType DEF Ops, PCs
      <3>3. QED
        BY <1>0, <1>4, <2>1, <2>2, <3>1, <3>2 DEF TypeOK, ReallocStats, Enter, exitVars
    <2>4. CASE ~(hdr[b] > sz)
      <3>1. sz - hdr[b] \in Nat /\ Enter(t, "grow", nb, sz - hdr[b], "reallocs")
        BY <2>1, <2>2, <2>4
      <3>2. pc' \in [Threads -> PCs] /\ req' \in [Threads -> Requests]
        BY <2>1, <3>1, EnterType DEF Ops, PCs
      <3>3. QED
        BY <1>0, <1>4, <2>1, <2>2, <3>1, <3>2 DEF TypeOK, ReallocStats, Enter, exitVars
    <2>5. QED
      BY <2>3, <2>4
  <1>5. ASSUME ReallocNullZero(t) PROVE TypeOK'
    BY <1>0, <1>5, SizesAssumption DEF TypeOK, ReallocNullZero, exitVars
  <1>6. ASSUME NEW b \in held, AbortOnHeader(t, b) PROVE TypeOK'
    BY <1>6 DEF TypeOK, AbortOnHeader, heapVars
  <1>7. QED
    BY <1>1, <1>2, <1>3, <1>4, <1>5, <1>6 DEF Call

LEMMA CounterType ==
    ASSUME TypeOK, NEW c \in Counters \cup {"current"}, NEW n \in Int, Add(c, n)
    PROVE  ms' \in [Counters \cup {"current"} -> Words]
  <1>1. ms[c] + n \in Int
    BY WrapAssumption DEF TypeOK, Words
  <1>2. QED
    BY <1>1, WordArithmetic DEF TypeOK, Add

LEMMA AccessType ==
    ASSUME TypeOK, Ownership, NEW t \in Threads, Access(t)
    PROVE  TypeOK'
  <1> USE DEF heapVars, exitVars
  <1>0. /\ pc[t] # "idle" /\ pc[t] # "save_stats" => req[t].blk \in Blocks
        /\ req[t].delta \in Nat /\ -req[t].delta \in Int
        /\ req[t] \in Requests
    BY DEF TypeOK, Ownership, InCall, Requests
  <1>1. ASSUME CountAlloc(t) PROVE TypeOK'
    BY <1>1, CounterType DEF TypeOK, CountAlloc, Goto, PCs, Counters
  <1>2. ASSUME CountRealloc(t) PROVE TypeOK'
    BY <1>2, CounterType DEF TypeOK, CountRealloc, Goto, PCs, Counters
  <1>3. ASSUME CountFree(t) PROVE TypeOK'
    BY <1>3, CounterType DEF TypeOK, CountFree, Goto, PCs, Counters
  <1>4. ASSUME AddAllocated(t) PROVE TypeOK'
    BY <1>0, <1>4, CounterType DEF TypeOK, AddAllocated, Goto, PCs, Counters
  <1>5. ASSUME AddReleased(t) PROVE TypeOK'
    <2>1. ms' \in [Counters \cup {"current"} -> Words]
      BY <1>0, <1>5, CounterType DEF AddReleased, Counters
    <2>2. CASE Return(t)
      BY <1>0, <1>5, <2>1, <2>2, ReturnType DEF TypeOK, AddReleased, At
    <2>3. CASE Goto(t, "cur_sub") /\ UNCHANGED <<held, req>>
      BY <1>5, <2>1, <2>3 DEF TypeOK, AddReleased, Goto, PCs
    <2>4. QED
      BY <1>5, <2>2, <2>3 DEF AddReleased
  <1>6. ASSUME UpdateRelease(t) PROVE TypeOK'
    BY <1>0, <1>6, CounterType DEF TypeOK, UpdateRelease, Goto, PCs, Counters
  <1>7. ASSUME UpdateAllocAdd(t) PROVE TypeOK'
    <2> DEFINE current == (ms.current + req[t].delta) % Wrap
    <2>1. current \in Words
      BY <1>0, WordArithmetic, WrapAssumption DEF TypeOK, Words
    <2>2. [req[t] EXCEPT !.cur = current] \in Requests
      BY <1>0, <2>1 DEF Requests
    <2>3. QED
      BY <1>7, <2>1, <2>2 DEF TypeOK, UpdateAllocAdd, Goto, PCs
  <1>8. ASSUME UpdateAllocLoad(t) PROVE TypeOK'
    <2>1. [req[t] EXCEPT !.max = ms.max] \in Requests
      BY <1>0 DEF TypeOK, Requests, Counters
    <2>2. CASE Return(t)
      BY <1>0, <1>8, <2>2, ReturnType DEF TypeOK, UpdateAllocLoad, At
    <2>3. CASE ~Return(t)
      BY <1>8, <2>1, <2>3 DEF TypeOK, UpdateAllocLoad, Goto, PCs
    <2>4. QED
      BY <2>2, <2>3
  <1>9. ASSUME UpdateAllocCas(t) PROVE TypeOK'
    <2>1. [req[t] EXCEPT !.max = ms.max] \in Requests
      BY <1>0 DEF TypeOK, Requests, Counters
    <2>2. CASE Return(t)
      BY <1>0, <1>9, <2>2, ReturnType DEF TypeOK, UpdateAllocCas, At, Requests
    <2>3. CASE ~Return(t)
      BY <1>0, <1>9, <2>1, <2>3 DEF TypeOK, UpdateAllocCas, Requests
    <2>4. QED
      BY <2>2, <2>3
  <1>10. ASSUME LibcFree(t) PROVE TypeOK'
    BY <1>0, <1>10, ReturnType DEF TypeOK, LibcFree, At
  <1>11. QED
    BY <1>1, <1>2, <1>3, <1>4, <1>5, <1>6, <1>7, <1>8, <1>9, <1>10 DEF Access

LEMMA NextType == TypeOK /\ Ownership /\ [Next]_vars => TypeOK'
  <1> SUFFICES ASSUME TypeOK, Ownership, [Next]_vars PROVE TypeOK'
    OBVIOUS
  <1> USE DEF heapVars, exitVars
  <1>1. ASSUME NEW t \in Threads, Call(t) PROVE TypeOK'
    BY <1>1, CallType
  <1>2. ASSUME NEW t \in Threads, Access(t) PROVE TypeOK'
    BY <1>2, AccessType
  <1>3. ASSUME Exit PROVE TypeOK'
    BY <1>3 DEF TypeOK, Exit, Goto, PCs
  <1>4. ASSUME SaveStats PROVE TypeOK'
    <2>1. printed + 1 \in 1..6
      BY <1>4 DEF TypeOK, SaveStats, At, Exited
    <2>2. Fields[printed + 1] \in Counters
      BY <2>1 DEF Fields, Counters
    <2>3. QED
      BY <1>4, <2>1, <2>2 DEF TypeOK, SaveStats
  <1>5. ASSUME UNCHANGED vars PROVE TypeOK'
    BY <1>5 DEF TypeOK, vars
  <1>6. QED
    BY <1>1, <1>2, <1>3, <1>4, <1>5 DEF Next, Terminated

(***************************************************************************)
(* Ownership is preserved by every step.                                   *)
(***************************************************************************)
LEMMA CallOwnership ==
    ASSUME TypeOK, Ownership, NEW t \in Threads, Call(t)
    PROVE  Ownership'
  <1>1. ASSUME NEW sz \in Sizes, MallocStats(t, sz) PROVE Ownership'
    <2>1. PICK b \in Blocks \ live : /\ live' = live \cup {b}
                                     /\ Enter(t, "malloc", b, sz, "allocs")
      BY <1>1 DEF MallocStats
    <2>2. req'[t].blk = b /\ \A u \in Threads \ {t} : req'[u] = req[u] /\ pc'[u] = pc[u]
      BY <2>1 DEF TypeOK, Enter, NoReq
    <2>3. QED
      BY <1>1, <2>1, <2>2 DEF TypeOK, Ownership, InCall, MallocStats
  <1>2. ASSUME LibcRefuses(t) PROVE Ownership'
    BY <1>2 DEF Ownership, InCall, LibcRefuses, heapVars
  <1>3. ASSUME NEW b \in held, FreeStats(t, b) PROVE Ownership'
    <2>1. req'[t].blk = b /\ \A u \in Threads \ {t} : req'[u] = req[u] /\ pc'[u] = pc[u]
      BY <1>3 DEF TypeOK, FreeStats, Enter, NoReq
    <2>2. QED
      BY <1>3, <2>1 DEF TypeOK, Ownership, InCall, FreeStats, heapVars
  <1>4. ASSUME NEW b \in held, NEW sz \in Sizes, ReallocStats(t, b, sz) PROVE Ownership'
    <2>1. PICK nb \in {b} \cup (Blocks \ live) :
             /\ live' = (live \ {b}) \cup {nb}
             /\ \E op \in Ops, d \in Int : Enter(t, op, nb, d, "reallocs")
      <3>1. hdr[b] \in Int /\ sz \in Int /\ hdr[b] - sz \in Int /\ sz - hdr[b] \in Int
        BY SizesAssumption DEF TypeOK
      <3>2. QED
        BY <1>4, <3>1 DEF ReallocStats, Ops
    <2>2. req'[t].blk = nb /\ \A u \in Threads \ {t} : req'[u] = req[u] /\ pc'[u] = pc[u]
      BY <2>1 DEF TypeOK, Enter, NoReq
    <2>3. QED
      BY <1>4, <2>1, <2>2 DEF TypeOK, Ownership, InCall, ReallocStats
  <1>5. ASSUME ReallocNullZero(t) PROVE Ownership'
    BY <1>5 DEF Ownership, InCall, ReallocNullZero
  <1>6. ASSUME NEW b \in held, AbortOnHeader(t, b) PROVE Ownership'
    BY <1>6 DEF Ownership, InCall, AbortOnHeader, heapVars
  <1>7. QED
    BY <1>1, <1>2, <1>3, <1>4, <1>5, <1>6 DEF Call

(***************************************************************************)
(* Which calls reach the labels on the release side of the wrappers.       *)
(***************************************************************************)
Control ==
    \A t \in Threads :
        /\ pc[t] \in {"frees", "libc_free"} => req[t].op = "free"
        /\ pc[t] \in {"cur_sub", "total_released"} => req[t].op \in {"free", "shrink"}

LEMMA CallControl ==
    ASSUME TypeOK, Control, NEW t \in Threads, Call(t)
    PROVE  Control'
  <1>1. ASSUME NEW op \in Ops, NEW b \in Blocks, NEW d \in Int, NEW l,
               Enter(t, op, b, d, l),
               l = "frees" => op = "free",
               l \in {"allocs", "reallocs", "frees"}
        PROVE  Control'
    BY <1>1 DEF TypeOK, Control, Enter, NoReq
  <1>2. ASSUME UNCHANGED <<pc, req>> PROVE Control'
    BY <1>2 DEF Control
  <1>3. ASSUME NEW sz \in Sizes, MallocStats(t, sz) PROVE Control'
    BY <1>1, <1>3, SizesAssumption DEF MallocStats, Ops
  <1>4. ASSUME NEW b \in held, FreeStats(t, b) PROVE Control'
    BY <1>1, <1>4 DEF FreeStats, Ops, TypeOK
  <1>5. ASSUME NEW b \in held, NEW sz \in Sizes, ReallocStats(t, b, sz) PROVE Control'
    <2>1. hdr[b] - sz \in Int /\ sz - hdr[b] \in Int /\ b \in Blocks
      BY SizesAssumption DEF TypeOK
    <2>2. QED
      BY <1>1, <1>5, <2>1 DEF ReallocStats, Ops
  <1>6. QED
    BY <1>2, <1>3, <1>4, <1>5 DEF Call, LibcRefuses, ReallocNullZero, AbortOnHeader

LEMMA AccessControl ==
    ASSUME TypeOK, Control, NEW t \in Threads, Access(t)
    PROVE  Control'
  <1>1. CASE Return(t)
    BY <1>1 DEF TypeOK, Control, Return
  <1>2. CASE ~Return(t)
    <2>1. \A u \in Threads : req'[u].op = req[u].op
      BY <1>2 DEF TypeOK, Requests, Access, CountAlloc, CountRealloc, CountFree,
                  AddAllocated, AddReleased, UpdateRelease, UpdateAllocAdd,
                  UpdateAllocLoad, UpdateAllocCas, LibcFree
    <2>2. QED
      BY <1>2, <2>1 DEF TypeOK, Requests, Ops, Control, Access, CountAlloc, CountRealloc,
                  CountFree, AddAllocated, AddReleased, UpdateRelease, UpdateAllocAdd,
                  UpdateAllocLoad, UpdateAllocCas, LibcFree, At, Goto
  <1>3. QED
    BY <1>1, <1>2

LEMMA ReturnOwnership ==
    ASSUME TypeOK, Ownership, NEW t \in Threads, InCall(t), Return(t),
           \/ live' = live
           \/ req[t].op = "free" /\ live' = live \ {req[t].blk}
    PROVE  Ownership'
  BY DEF TypeOK, Ownership, InCall, Return

LEMMA AccessOwnership ==
    ASSUME TypeOK, Ownership, Control, NEW t \in Threads, Access(t)
    PROVE  Ownership'
  <1>1. CASE Return(t)
    <2>1. InCall(t)
      BY <1>1 DEF Access, CountAlloc, CountRealloc, CountFree, AddAllocated, AddReleased,
                  UpdateRelease, UpdateAllocAdd, UpdateAllocLoad, UpdateAllocCas,
                  LibcFree, At, InCall
    <2>2. \/ live' = live
          \/ req[t].op = "free" /\ live' = live \ {req[t].blk}
      BY <1>1 DEF Access, CountAlloc, CountRealloc, CountFree, AddAllocated, AddReleased,
                  UpdateRelease, UpdateAllocAdd, UpdateAllocLoad, UpdateAllocCas,
                  LibcFree, heapVars, Control, At
    <2>3. QED
      BY <1>1, <2>1, <2>2, ReturnOwnership
  <1>2. CASE ~Return(t)
    <2>1. UNCHANGED <<live, held>> /\ \A u \in Threads : req'[u].blk = req[u].blk
      BY <1>2 DEF TypeOK, Requests, Access, CountAlloc, CountRealloc, CountFree,
                  AddAllocated, AddReleased, UpdateRelease, UpdateAllocAdd,
                  UpdateAllocLoad, UpdateAllocCas, LibcFree, heapVars
    <2>2. \A u \in Threads : InCall(u)' => InCall(u)
      BY <1>2 DEF TypeOK, Access, CountAlloc, CountRealloc, CountFree, AddAllocated,
                  AddReleased, UpdateRelease, UpdateAllocAdd, UpdateAllocLoad,
                  UpdateAllocCas, LibcFree, At, Goto, InCall
    <2>3. QED
      BY <2>1, <2>2 DEF Ownership
  <1>3. QED
    BY <1>1, <1>2

(***************************************************************************)
(* The maximum.  The strengthening says who is responsible for the peak:   *)
(* either ms.max already holds it, or a thread that read it from           *)
(* ms.current is still on its way to store it.                             *)
(***************************************************************************)
PeakPending == \E t \in Threads : Raising(t) /\ req[t].cur = peak

MaxInv ==
    /\ ms.max <= peak
    /\ \A t \in Threads : Raising(t) => req[t].cur <= peak
    /\ \A t \in Threads : pc[t] = "cas" => req[t].max <= ms.max /\ req[t].max < req[t].cur
    /\ ms.max = peak \/ PeakPending

LEMMA NumberTypes ==
    ASSUME TypeOK
    PROVE  /\ peak \in Int /\ ms.max \in Int /\ ms.current \in Int
           /\ \A t \in Threads : /\ req[t].cur \in Int /\ req[t].max \in Int
                                 /\ req[t].delta \in Int
  BY WrapAssumption DEF TypeOK, Requests, Words, Counters

\* A step that leaves the maximum, the peak and the raising threads alone.
LEMMA MaxFrame ==
    ASSUME TypeOK, MaxInv, ms'.max = ms.max, peak' = peak,
           \A t \in Threads : /\ Raising(t)' <=> Raising(t)
                              /\ pc'[t] = "cas" => pc[t] = "cas"
                              /\ Raising(t) => req'[t] = req[t]
    PROVE  MaxInv'
  BY DEF MaxInv, PeakPending, Raising

LEMMA CallMax ==
    ASSUME TypeOK, MaxInv, NEW t \in Threads, Call(t)
    PROVE  MaxInv'
  <1>1. ASSUME NEW op, NEW b, NEW d, NEW l, Enter(t, op, b, d, l), pc[t] = "idle",
               l \in {"allocs", "reallocs", "frees"}
        PROVE  MaxInv'
    <2>1. ms' = ms /\ peak' = peak
      BY <1>1 DEF Enter
    <2>2. \A u \in Threads : /\ Raising(u)' <=> Raising(u)
                             /\ pc'[u] = "cas" => pc[u] = "cas"
                             /\ Raising(u) => req'[u] = req[u]
      <3>1. \A u \in Threads : u # t => pc'[u] = pc[u] /\ req'[u] = req[u]
        BY <1>1 DEF TypeOK, Enter
      <3>2. pc'[t] = l
        BY <1>1 DEF TypeOK, Enter
      <3>3. QED
        BY <1>1, <3>1, <3>2 DEF Raising
    <2>3. QED
      BY <2>1, <2>2, MaxFrame
  <1>2. ASSUME UNCHANGED <<ms, peak, pc, req>> PROVE MaxInv'
    BY <1>2 DEF MaxInv, PeakPending, Raising
  <1>3. ASSUME NEW sz \in Sizes, MallocStats(t, sz) PROVE MaxInv'
    BY <1>1, <1>3 DEF MallocStats, CanCall
  <1>4. ASSUME NEW b \in held, FreeStats(t, b) PROVE MaxInv'
    BY <1>1, <1>4 DEF FreeStats, CanCall
  <1>5. ASSUME NEW b \in held, NEW sz \in Sizes, ReallocStats(t, b, sz) PROVE MaxInv'
    BY <1>1, <1>5 DEF ReallocStats, CanCall
  <1>6. QED
    BY <1>2, <1>3, <1>4, <1>5 DEF Call, LibcRefuses, ReallocNullZero, AbortOnHeader

LEMMA AddMax ==
    ASSUME TypeOK, MaxInv, NEW t \in Threads, UpdateAllocAdd(t)
    PROVE  MaxInv'
  <1> DEFINE current == (ms.current + req[t].delta) % Wrap
  <1>1. current \in Int
    BY NumberTypes, WrapAssumption
  <1>2. /\ ms'.max = ms.max
        /\ peak' = IF current > peak THEN current ELSE peak
        /\ req'[t].cur = current
        /\ pc[t] = "cur_add" /\ pc'[t] = "load_max"
        /\ \A u \in Threads : u # t => req'[u] = req[u] /\ pc'[u] = pc[u]
    BY DEF TypeOK, UpdateAllocAdd, At, Goto, Counters, Requests
  <1>3. CASE current > peak
    <2>1. peak' = current /\ Raising(t)'
      BY <1>2, <1>3 DEF Raising
    <2>2. ms'.max <= peak'
      BY <1>1, <1>2, <1>3, <2>1, NumberTypes DEF MaxInv
    <2>3. \A u \in Threads : Raising(u)' => req'[u].cur <= peak'
      BY <1>1, <1>2, <1>3, <2>1, NumberTypes DEF MaxInv, Raising
    <2>4. QED
      BY <1>2, <2>1, <2>2, <2>3 DEF MaxInv, PeakPending
  <1>4. CASE ~(current > peak)
    <2>1. peak' = peak
      BY <1>2, <1>4
    <2>2. \A u \in Threads : Raising(u)' => req'[u].cur <= peak'
      BY <1>1, <1>2, <1>4, <2>1, NumberTypes DEF MaxInv, Raising
    <2>3. PeakPending => PeakPending'
      BY <1>2, <2>1 DEF PeakPending, Raising
    <2>4. QED
      BY <1>2, <2>1, <2>2, <2>3 DEF MaxInv
  <1>5. QED
    BY <1>3, <1>4

\* A thread leaves the loop only when ms.max has caught up with what it read.
LEMMA LeaveMax ==
    ASSUME TypeOK, MaxInv, NEW t \in Threads, Return(t), Raising(t),
           req[t].cur <= ms.max, UNCHANGED <<ms, peak>>
    PROVE  MaxInv'
  <1>1. /\ pc'[t] = "idle"
        /\ \A u \in Threads : u # t => req'[u] = req[u] /\ pc'[u] = pc[u]
    BY DEF TypeOK, Return
  <1>2. ms.max = peak \/ PeakPending'
    <2>1. ASSUME ms.max # peak PROVE PeakPending'
      <3>1. PICK u \in Threads : Raising(u) /\ req[u].cur = peak
        BY <2>1 DEF MaxInv, PeakPending
      <3>2. u # t
        BY <2>1, <3>1, NumberTypes DEF MaxInv
      <3>3. QED
        BY <1>1, <3>1, <3>2 DEF PeakPending, Raising
    <2>2. QED
      BY <2>1
  <1>3. QED
    BY <1>1, <1>2 DEF MaxInv, Raising

LEMMA LoadMax ==
    ASSUME TypeOK, MaxInv, NEW t \in Threads, UpdateAllocLoad(t)
    PROVE  MaxInv'
  <1>1. CASE req[t].cur > ms.max
    <2>1. /\ UNCHANGED <<ms, peak>>
          /\ pc[t] = "load_max" /\ pc'[t] = "cas"
          /\ req'[t].max = ms.max /\ req'[t].cur = req[t].cur
          /\ \A u \in Threads : u # t => req'[u] = req[u] /\ pc'[u] = pc[u]
      BY <1>1 DEF TypeOK, Requests, UpdateAllocLoad, At, Goto
    <2>2. PeakPending => PeakPending'
      BY <2>1 DEF PeakPending, Raising
    <2>3. QED
      BY <1>1, <2>1, <2>2, NumberTypes DEF MaxInv, Raising
  <1>2. CASE ~(req[t].cur > ms.max)
    BY <1>2, LeaveMax, NumberTypes DEF UpdateAllocLoad, At, Raising
  <1>3. QED
    BY <1>1, <1>2

LEMMA CasMax ==
    ASSUME TypeOK, MaxInv, NEW t \in Threads, UpdateAllocCas(t)
    PROVE  MaxInv'
  <1>0. pc[t] = "cas" /\ Raising(t)
    BY DEF UpdateAllocCas, At, Raising
  <1>1. CASE ms.max = req[t].max
    <2>1. UNCHANGED <<peak, pc, req>> /\ ms'.max = req[t].cur
      BY <1>1 DEF TypeOK, UpdateAllocCas, Counters
    <2>2. ms.max < ms'.max /\ ms'.max <= peak
      BY <1>0, <1>1, <2>1 DEF MaxInv
    <2>3. PeakPending' <=> PeakPending
      BY <2>1 DEF PeakPending, Raising
    <2>4. ms.max # peak
      BY <2>1, <2>2, NumberTypes
    <2>5. QED
      BY <2>1, <2>2, <2>3, <2>4, NumberTypes DEF MaxInv, Raising
  <1>2. CASE ms.max # req[t].max /\ req[t].cur > ms.max
    <2>1. /\ UNCHANGED <<ms, peak, pc>>
          /\ req'[t].max = ms.max /\ req'[t].cur = req[t].cur
          /\ \A u \in Threads : u # t => req'[u] = req[u]
      BY <1>2 DEF TypeOK, Requests, UpdateAllocCas
    <2>2. PeakPending => PeakPending'
      BY <2>1 DEF PeakPending, Raising
    <2>3. QED
      BY <1>2, <2>1, <2>2, NumberTypes DEF MaxInv, Raising
  <1>3. CASE ms.max # req[t].max /\ ~(req[t].cur > ms.max)
    BY <1>0, <1>3, LeaveMax, NumberTypes DEF UpdateAllocCas
  <1>4. QED
    BY <1>1, <1>2, <1>3

LEMMA AccessMax ==
    ASSUME TypeOK, MaxInv, NEW t \in Threads, Access(t)
    PROVE  MaxInv'
  <1>1. ASSUME CountAlloc(t) \/ CountRealloc(t) \/ CountFree(t) \/ AddAllocated(t)
               \/ AddReleased(t) \/ UpdateRelease(t) \/ LibcFree(t)
        PROVE  MaxInv'
    <2>1. ms'.max = ms.max /\ peak' = peak
      BY <1>1 DEF TypeOK, CountAlloc, CountRealloc, CountFree, AddAllocated, AddReleased,
                  UpdateRelease, LibcFree, Add, Counters
    <2>2. ~Raising(t) /\ ~Raising(t)' /\ pc'[t] # "cas"
      BY <1>1 DEF TypeOK, CountAlloc, CountRealloc, CountFree, AddAllocated, AddReleased,
                  UpdateRelease, LibcFree, Raising, At, Goto, Return
    <2>3. \A u \in Threads : u # t => pc'[u] = pc[u] /\ req'[u] = req[u]
      BY <1>1 DEF TypeOK, CountAlloc, CountRealloc, CountFree, AddAllocated, AddReleased,
                  UpdateRelease, LibcFree, Goto, Return
    <2>4. QED
      BY <2>1, <2>2, <2>3, MaxFrame DEF Raising
  <1>2. QED
    BY <1>1, AddMax, LoadMax, CasMax DEF Access

(***************************************************************************)
(* The inductive invariant and the theorems.                               *)
(***************************************************************************)
IInv == TypeOK /\ Control /\ Ownership /\ MaxInv

LEMMA InitIInv == Init => IInv
  <1> SUFFICES ASSUME Init PROVE IInv
    OBVIOUS
  <1>1. \A t \in Threads : pc[t] = "idle"
    BY DEF Init
  <1>2. Control /\ Ownership
    BY <1>1 DEF Init, Control, Ownership, InCall
  <1>3. MaxInv
    <2>1. ms.max = 0 /\ peak = 0
      BY DEF Init, Counters
    <2>2. QED
      BY <1>1, <2>1 DEF MaxInv, Raising
  <1>4. QED
    BY <1>2, <1>3, InitType DEF IInv

LEMMA NextIInv == IInv /\ [Next]_vars => IInv'
  <1> SUFFICES ASSUME IInv, [Next]_vars PROVE IInv'
    OBVIOUS
  <1> USE DEF IInv
  <1>1. TypeOK'
    BY NextType
  <1>2. ASSUME NEW t \in Threads, Call(t) PROVE IInv'
    BY <1>1, <1>2, CallControl, CallOwnership, CallMax
  <1>3. ASSUME NEW t \in Threads, Access(t) PROVE IInv'
    BY <1>1, <1>3, AccessControl, AccessOwnership, AccessMax
  <1>4. ASSUME Exit PROVE IInv'
    <2>1. /\ UNCHANGED <<live, held, ms, peak, req>>
          /\ pc[Main] = "idle" /\ pc'[Main] = "save_stats"
          /\ \A u \in Threads : u # Main => pc'[u] = pc[u]
      BY <1>4, ThreadsAssumption DEF Exit, Goto, heapVars, TypeOK
    <2>2. Control' /\ Ownership'
      BY <2>1 DEF Control, Ownership, InCall
    <2>3. MaxInv'
      BY <2>1, MaxFrame DEF Raising
    <2>4. QED
      BY <1>1, <2>2, <2>3
  <1>5. ASSUME SaveStats \/ UNCHANGED vars PROVE IInv'
    <2>1. UNCHANGED <<live, held, ms, peak, pc, req>>
      BY <1>5 DEF SaveStats, vars, heapVars
    <2>2. Control' /\ Ownership'
      BY <2>1 DEF Control, Ownership, InCall
    <2>3. MaxInv'
      BY <2>1, MaxFrame DEF Raising
    <2>4. QED
      BY <1>1, <2>2, <2>3
  <1>6. QED
    BY <1>2, <1>3, <1>4, <1>5 DEF Next, Terminated

(* The variables of mprofile/init.c's mode 1 keep their types.             *)
THEOREM TypeCorrect == Spec => []TypeOK
  <1>1. IInv => TypeOK
    BY DEF IInv
  <1>2. QED
    BY <1>1, InitIInv, NextIInv, PTL DEF Spec

(* No two calls work on the same block, and none on a block the            *)
(* application or libc may hand out again.                                 *)
THEOREM BlocksAreExclusive == Spec => []Ownership
  <1>1. IInv => Ownership
    BY DEF IInv
  <1>2. QED
    BY <1>1, InitIInv, NextIInv, PTL DEF Spec

(* update_alloc() loses no peak: with no thread in its loop, ms.max is the *)
(* largest value of ms.current.                                            *)
THEOREM MaximumIsExact == Spec => []MaxIsPeak
  <1>1. IInv => MaxIsPeak
    BY DEF IInv, MaxInv, MaxIsPeak, PeakPending
  <1>2. QED
    BY <1>1, InitIInv, NextIInv, PTL DEF Spec

(* The compare-exchange only ever raises ms.max.                           *)
THEOREM MaximumIsMonotone == Spec => MaxMonotone
  <1>1. IInv /\ [Next]_vars => [ms'.max >= ms.max]_vars
    <2> SUFFICES ASSUME IInv, [Next]_vars PROVE ms'.max >= ms.max \/ UNCHANGED vars
      OBVIOUS
    <2>1. ms.max \in Int /\ ms'.max \in Int
      BY NumberTypes, NextIInv DEF IInv, TypeOK, Words, Counters
    <2>2. ASSUME NEW t \in Threads, UpdateAllocCas(t) PROVE ms'.max >= ms.max
      BY <2>1, <2>2, NumberTypes DEF UpdateAllocCas, At, IInv, MaxInv, TypeOK, Counters
    <2>3. ASSUME NEW t \in Threads, Call(t) \/ Access(t), ~UpdateAllocCas(t)
          PROVE  ms'.max = ms.max
      BY <2>3 DEF IInv, TypeOK, Counters, Call, MallocStats, LibcRefuses, FreeStats,
                  ReallocStats, ReallocNullZero, AbortOnHeader, Enter, Access, CountAlloc,
                  CountRealloc, CountFree, AddAllocated, AddReleased, UpdateRelease,
                  UpdateAllocAdd, UpdateAllocLoad, LibcFree, Add
    <2>4. QED
      BY <2>1, <2>2, <2>3 DEF Next, Exit, SaveStats, Terminated
  <1>2. QED
    BY <1>1, InitIInv, NextIInv, PTL DEF Spec, MaxMonotone

-----------------------------------------------------------------------------
(***************************************************************************)
(* The counters.  Thread t accounts for the block it works on: Counted(t)  *)
(* is what ms.current has of it, Totalled(t) what the two totals have; the *)
(* blocks of the application are counted in full.                          *)
(***************************************************************************)
Inside(t) == IF InCall(t) THEN hdr[req[t].blk] ELSE 0
Counted(t) == Inside(t) + OwedCurrent(t)
Totalled(t) == Inside(t) + OwedTotals(t)

\* What t has yet to add to total_allocated.
ToAllocate(t) ==
    IF Before(t, {"malloc", "grow"}, {"allocs", "reallocs", "total_allocated"})
    THEN req[t].delta ELSE 0

\* The same for ms.current.
ToClaim(t) ==
    IF Before(t, {"malloc", "grow"}, {"allocs", "reallocs", "total_allocated", "cur_add"})
    THEN req[t].delta ELSE 0

\* What t has yet to add to allocs - free, for the blocks that are live, ...
OwedOps(t) ==
    IF \/ Before(t, {"malloc"}, {"allocs"})
       \/ Before(t, {"free"}, {"total_released", "cur_sub", "libc_free"})
    THEN -1 ELSE 0

\* ... and to allocs + free.
PendingOps(t) == IF pc[t] \in {"allocs", "frees"} THEN 1 ELSE 0

\* What req says about the block at the labels of each operation.
Fitting(t) ==
    /\ pc[t] = "allocs" => req[t].op = "malloc"
    /\ pc[t] = "reallocs" => req[t].op \in {"grow", "shrink"}
    /\ pc[t] \in {"total_allocated", "cur_add", "load_max", "cas"}
         => req[t].op \in {"malloc", "grow"}
    /\ pc[t] \in {"frees", "libc_free"} => req[t].op = "free"
    /\ pc[t] \in {"total_released", "cur_sub"} => req[t].op \in {"free", "shrink"}
    /\ InCall(t) /\ req[t].op = "grow" => req[t].delta <= hdr[req[t].blk]
    /\ InCall(t) /\ req[t].op \in {"malloc", "free"} => req[t].delta = hdr[req[t].blk]

HeldBytes == Sum(hdr, held)
InsideBytes == Sum([t \in Threads |-> Inside(t)], Threads)
CountedBytes == Sum([t \in Threads |-> Counted(t)], Threads)
TotalledBytes == Sum([t \in Threads |-> Totalled(t)], Threads)
ToAllocateBytes == Sum([t \in Threads |-> ToAllocate(t)], Threads)
ToClaimBytes == Sum([t \in Threads |-> ToClaim(t)], Threads)
OwedCalls == Sum([t \in Threads |-> OwedOps(t)], Threads)
PendingCalls == Sum([t \in Threads |-> PendingOps(t)], Threads)

\* Every byte is in one of the sums, and with requests of m bytes at most the
\* sums are at most m times the calls.
Ledger(m) ==
    /\ LiveBytes = HeldBytes + InsideBytes
    /\ ms.current = HeldBytes + CountedBytes
    /\ ms.total_allocated - ms.total_released = HeldBytes + TotalledBytes
    /\ ms.total_allocated + ToAllocateBytes <= calls * m
    /\ ms.current + ToClaimBytes <= calls * m
    /\ ms.allocs - ms.free = Cardinality(live) + OwedCalls
    /\ ms.allocs + ms.free + PendingCalls <= calls

CounterInv(m) ==
    /\ IsFiniteSet(live)
    /\ \A t \in Threads : Fitting(t)
    /\ Ledger(m)

\* A run does not request more bytes, nor make more calls, than a uint64_t
\* can count.
Fits(m) == (\A sz \in Sizes : sz <= m) /\ MaxCalls * m < Wrap /\ MaxCalls < Wrap

CountersTyped(t) ==
    TypeOK /\ Ownership /\ Fitting(t)
        => /\ Inside(t) \in Nat /\ OwedCurrent(t) \in Int /\ OwedTotals(t) \in Int
           /\ Counted(t) \in Nat /\ Totalled(t) \in Nat
           /\ ToAllocate(t) \in Nat /\ ToClaim(t) \in Nat
           /\ OwedOps(t) \in Int /\ PendingOps(t) \in Nat
           /\ req[t].delta \in Nat
           /\ InCall(t) => req[t].blk \in Blocks /\ hdr[req[t].blk] \in Nat

LEMMA CounterTypes == \A t \in Threads : CountersTyped(t)
  <1> SUFFICES ASSUME TypeOK, Ownership, NEW t \in Threads, Fitting(t)
               PROVE  CountersTyped(t)
    BY DEF CountersTyped
  <1>1. /\ req[t].delta \in Nat /\ req[t].op \in Ops
        /\ InCall(t) => req[t].blk \in Blocks /\ hdr[req[t].blk] \in Nat
    BY DEF TypeOK, Requests, Ownership
  <1>2. Inside(t) \in Nat
    BY <1>1 DEF Inside
  <1>3. OwedCurrent(t) \in Int /\ OwedTotals(t) \in Int /\ ToAllocate(t) \in Nat
    BY <1>1 DEF OwedCurrent, OwedTotals, ToAllocate, Before
  <1>4. Counted(t) \in Nat
    BY <1>1, <1>2 DEF Counted, Inside, OwedCurrent, Before, Fitting, InCall, Ops
  <1>5. Totalled(t) \in Nat
    BY <1>1, <1>2 DEF Totalled, Inside, OwedTotals, Before, Fitting, InCall, Ops
  <1>6. ToClaim(t) \in Nat
    BY <1>1 DEF ToClaim, Before
  <1>7. QED
    BY <1>1, <1>2, <1>3, <1>4, <1>5, <1>6 DEF CountersTyped, OwedOps, PendingOps

LEMMA NextCounterTypes == \A t \in Threads : CountersTyped(t)'
  <1>1. (\A t \in Threads : CountersTyped(t))'
    BY CounterTypes, PTL
  <1>2. QED
    BY <1>1

HeapTyped ==
    TypeOK /\ Ownership /\ IsFiniteSet(live)
        => /\ IsFiniteSet(held) /\ HeldBytes \in Nat /\ LiveBytes \in Int
           /\ Cardinality(live) \in Nat

LEMMA HeapTypes == HeapTyped
  <1> SUFFICES ASSUME TypeOK, Ownership, IsFiniteSet(live)
               PROVE  /\ IsFiniteSet(held) /\ HeldBytes \in Nat /\ LiveBytes \in Int
                      /\ Cardinality(live) \in Nat
    BY DEF HeapTyped
  <1>1. IsFiniteSet(held)
    BY FS_Subset DEF Ownership
  <1>2. \A b \in live : hdr[b] \in Int /\ hdr[b] >= 0
    BY DEF TypeOK
  <1>3. Sum(hdr, held) \in Int /\ Sum(hdr, held) >= 0
    <2>1. \A b \in held : hdr[b] \in Int /\ hdr[b] >= 0
      BY <1>2 DEF Ownership
    <2>2. QED
      BY <1>1, <2>1, SumType
  <1>4. Sum(hdr, live) \in Int
    BY <1>2, SumType
  <1>5. QED
    BY <1>1, <1>3, <1>4, FS_CardinalityType DEF HeldBytes, LiveBytes, Sum

LEMMA NextHeapTypes == HeapTyped'
  BY HeapTypes, PTL

\* The sums over threads are numbers, and most cannot be negative.
SumsTyped ==
    TypeOK /\ Ownership /\ (\A t \in Threads : Fitting(t))
        => /\ InsideBytes \in Int /\ OwedCalls \in Int
           /\ CountedBytes \in Nat /\ TotalledBytes \in Nat
           /\ ToAllocateBytes \in Nat /\ ToClaimBytes \in Nat /\ PendingCalls \in Nat

LEMMA SumOfNumbers ==
    ASSUME NEW f, \A t \in Threads : f[t] \in Nat
    PROVE  Sum(f, Threads) \in Nat
  <1>1. \A t \in Threads : f[t] \in Int /\ f[t] >= 0
    OBVIOUS
  <1>2. QED
    BY <1>1, FiniteAssumption, SumType

LEMMA SumTypes == SumsTyped
  <1> SUFFICES ASSUME TypeOK, Ownership, \A t \in Threads : Fitting(t)
               PROVE  /\ InsideBytes \in Int /\ OwedCalls \in Int
                      /\ CountedBytes \in Nat /\ TotalledBytes \in Nat
                      /\ ToAllocateBytes \in Nat /\ ToClaimBytes \in Nat
                      /\ PendingCalls \in Nat
    BY DEF SumsTyped
  <1>1. \A t \in Threads :
          /\ Inside(t) \in Int /\ Counted(t) \in Nat /\ Totalled(t) \in Nat
          /\ ToAllocate(t) \in Nat /\ ToClaim(t) \in Nat
          /\ OwedOps(t) \in Int /\ PendingOps(t) \in Nat
    BY CounterTypes DEF CountersTyped
  <1>2. InsideBytes \in Int /\ OwedCalls \in Int
    BY <1>1, FiniteAssumption, SumType DEF InsideBytes, OwedCalls
  <1>3. CountedBytes \in Nat
    BY <1>1, SumOfNumbers DEF CountedBytes
  <1>4. TotalledBytes \in Nat
    BY <1>1, SumOfNumbers DEF TotalledBytes
  <1>5. ToAllocateBytes \in Nat
    BY <1>1, SumOfNumbers DEF ToAllocateBytes
  <1>6. ToClaimBytes \in Nat
    BY <1>1, SumOfNumbers DEF ToClaimBytes
  <1>7. PendingCalls \in Nat
    BY <1>1, SumOfNumbers DEF PendingCalls
  <1>8. QED
    BY <1>2, <1>3, <1>4, <1>5, <1>6, <1>7

LEMMA NextSumTypes == SumsTyped'
  BY SumTypes, PTL

\* What a thread owes depends on its own program counter, request and block.
SameDebts(u) ==
    /\ pc'[u] = pc[u] /\ req'[u] = req[u]
    /\ InCall(u) => hdr'[req[u].blk] = hdr[req[u].blk]

LEMMA DebtsFrame ==
    ASSUME NEW u, SameDebts(u)
    PROVE  /\ Inside(u)' = Inside(u) /\ Counted(u)' = Counted(u) /\ Totalled(u)' = Totalled(u)
           /\ ToAllocate(u)' = ToAllocate(u) /\ ToClaim(u)' = ToClaim(u)
           /\ OwedOps(u)' = OwedOps(u) /\ PendingOps(u)' = PendingOps(u)
           /\ Fitting(u)' <=> Fitting(u)
  <1>1. InCall(u)' <=> InCall(u)
    BY DEF SameDebts, InCall
  <1>2. Inside(u)' = Inside(u)
    BY <1>1 DEF SameDebts, Inside
  <1>3. OwedCurrent(u)' = OwedCurrent(u)
    BY DEF SameDebts, OwedCurrent, Before
  <1>4. OwedTotals(u)' = OwedTotals(u)
    BY DEF SameDebts, OwedTotals, Before
  <1>5. Counted(u)' = Counted(u) /\ Totalled(u)' = Totalled(u)
    BY <1>2, <1>3, <1>4 DEF Counted, Totalled
  <1>6. ToAllocate(u)' = ToAllocate(u) /\ ToClaim(u)' = ToClaim(u)
    BY DEF SameDebts, ToAllocate, ToClaim, Before
  <1>7. OwedOps(u)' = OwedOps(u) /\ PendingOps(u)' = PendingOps(u)
    BY DEF SameDebts, OwedOps, PendingOps, Before
  <1>8. Fitting(u)' <=> Fitting(u)
    BY <1>1 DEF SameDebts, Fitting
  <1>9. QED
    BY <1>2, <1>5, <1>6, <1>7, <1>8


\* A step of one thread changes each sum by what it changes for this thread.
LEMMA OneThread ==
    ASSUME NEW F, NEW G, NEW t \in Threads,
           \A u \in Threads : F[u] \in Int, G[t] \in Int,
           \A u \in Threads : u # t => G[u] = F[u]
    PROVE  Sum(G, Threads) = Sum(F, Threads) + (G[t] - F[t])
  BY FiniteAssumption, SumChange

LEMMA ThreadSums ==
    ASSUME TypeOK, Ownership, TypeOK', Ownership',
           \A u \in Threads : Fitting(u), NEW t \in Threads, Fitting(t)',
           \A u \in Threads : u # t => SameDebts(u)
    PROVE  /\ \A u \in Threads : Fitting(u)'
           /\ InsideBytes' = InsideBytes + (Inside(t)' - Inside(t))
           /\ CountedBytes' = CountedBytes + (Counted(t)' - Counted(t))
           /\ TotalledBytes' = TotalledBytes + (Totalled(t)' - Totalled(t))
           /\ ToAllocateBytes' = ToAllocateBytes + (ToAllocate(t)' - ToAllocate(t))
           /\ ToClaimBytes' = ToClaimBytes + (ToClaim(t)' - ToClaim(t))
           /\ OwedCalls' = OwedCalls + (OwedOps(t)' - OwedOps(t))
           /\ PendingCalls' = PendingCalls + (PendingOps(t)' - PendingOps(t))
  <1>1. \A u \in Threads : Fitting(u)'
    BY DebtsFrame
  <1>2. \A u \in Threads :
          /\ Inside(u) \in Int /\ Counted(u) \in Int /\ Totalled(u) \in Int
          /\ ToAllocate(u) \in Int /\ ToClaim(u) \in Int
          /\ OwedOps(u) \in Int /\ PendingOps(u) \in Int
    BY CounterTypes DEF CountersTyped
  <1>3. /\ Inside(t)' \in Int /\ Counted(t)' \in Int /\ Totalled(t)' \in Int
        /\ ToAllocate(t)' \in Int /\ ToClaim(t)' \in Int
        /\ OwedOps(t)' \in Int /\ PendingOps(t)' \in Int
    BY NextCounterTypes DEF CountersTyped
  <1>4. \A u \in Threads : u # t =>
          /\ Inside(u)' = Inside(u) /\ Counted(u)' = Counted(u) /\ Totalled(u)' = Totalled(u)
          /\ ToAllocate(u)' = ToAllocate(u) /\ ToClaim(u)' = ToClaim(u)
          /\ OwedOps(u)' = OwedOps(u) /\ PendingOps(u)' = PendingOps(u)
    BY DebtsFrame
  <1>5. InsideBytes' = InsideBytes + (Inside(t)' - Inside(t))
    <2> DEFINE F == [u \in Threads |-> Inside(u)]
               G == [u \in Threads |-> Inside(u)']
    <2>1. /\ \A u \in Threads : F[u] = Inside(u) /\ F[u] \in Int
          /\ \A u \in Threads : G[u] = Inside(u)'
          /\ G[t] \in Int
      BY <1>2, <1>3
    <2>2. \A u \in Threads : u # t => G[u] = F[u]
      BY <1>4
    <2>3. InsideBytes = Sum(F, Threads) /\ InsideBytes' = Sum(G, Threads)
      BY DEF InsideBytes
    <2> HIDE DEF F, G
    <2>4. Sum(G, Threads) = Sum(F, Threads) + (G[t] - F[t])
      BY <2>1, <2>2, OneThread
    <2>5. QED
      BY <2>1, <2>3, <2>4
  <1>6. CountedBytes' = CountedBytes + (Counted(t)' - Counted(t))
    <2> DEFINE F == [u \in Threads |-> Counted(u)]
               G == [u \in Threads |-> Counted(u)']
    <2>1. /\ \A u \in Threads : F[u] = Counted(u) /\ F[u] \in Int
          /\ \A u \in Threads : G[u] = Counted(u)'
          /\ G[t] \in Int
      BY <1>2, <1>3
    <2>2. \A u \in Threads : u # t => G[u] = F[u]
      BY <1>4
    <2>3. CountedBytes = Sum(F, Threads) /\ CountedBytes' = Sum(G, Threads)
      BY DEF CountedBytes
    <2> HIDE DEF F, G
    <2>4. Sum(G, Threads) = Sum(F, Threads) + (G[t] - F[t])
      BY <2>1, <2>2, OneThread
    <2>5. QED
      BY <2>1, <2>3, <2>4
  <1>7. TotalledBytes' = TotalledBytes + (Totalled(t)' - Totalled(t))
    <2> DEFINE F == [u \in Threads |-> Totalled(u)]
               G == [u \in Threads |-> Totalled(u)']
    <2>1. /\ \A u \in Threads : F[u] = Totalled(u) /\ F[u] \in Int
          /\ \A u \in Threads : G[u] = Totalled(u)'
          /\ G[t] \in Int
      BY <1>2, <1>3
    <2>2. \A u \in Threads : u # t => G[u] = F[u]
      BY <1>4
    <2>3. TotalledBytes = Sum(F, Threads) /\ TotalledBytes' = Sum(G, Threads)
      BY DEF TotalledBytes
    <2> HIDE DEF F, G
    <2>4. Sum(G, Threads) = Sum(F, Threads) + (G[t] - F[t])
      BY <2>1, <2>2, OneThread
    <2>5. QED
      BY <2>1, <2>3, <2>4
  <1>8. ToAllocateBytes' = ToAllocateBytes + (ToAllocate(t)' - ToAllocate(t))
    <2> DEFINE F == [u \in Threads |-> ToAllocate(u)]
               G == [u \in Threads |-> ToAllocate(u)']
    <2>1. /\ \A u \in Threads : F[u] = ToAllocate(u) /\ F[u] \in Int
          /\ \A u \in Threads : G[u] = ToAllocate(u)'
          /\ G[t] \in Int
      BY <1>2, <1>3
    <2>2. \A u \in Threads : u # t => G[u] = F[u]
      BY <1>4
    <2>3. ToAllocateBytes = Sum(F, Threads) /\ ToAllocateBytes' = Sum(G, Threads)
      BY DEF ToAllocateBytes
    <2> HIDE DEF F, G
    <2>4. Sum(G, Threads) = Sum(F, Threads) + (G[t] - F[t])
      BY <2>1, <2>2, OneThread
    <2>5. QED
      BY <2>1, <2>3, <2>4
  <1>9. ToClaimBytes' = ToClaimBytes + (ToClaim(t)' - ToClaim(t))
    <2> DEFINE F == [u \in Threads |-> ToClaim(u)]
               G == [u \in Threads |-> ToClaim(u)']
    <2>1. /\ \A u \in Threads : F[u] = ToClaim(u) /\ F[u] \in Int
          /\ \A u \in Threads : G[u] = ToClaim(u)'
          /\ G[t] \in Int
      BY <1>2, <1>3
    <2>2. \A u \in Threads : u # t => G[u] = F[u]
      BY <1>4
    <2>3. ToClaimBytes = Sum(F, Threads) /\ ToClaimBytes' = Sum(G, Threads)
      BY DEF ToClaimBytes
    <2> HIDE DEF F, G
    <2>4. Sum(G, Threads) = Sum(F, Threads) + (G[t] - F[t])
      BY <2>1, <2>2, OneThread
    <2>5. QED
      BY <2>1, <2>3, <2>4
  <1>10. OwedCalls' = OwedCalls + (OwedOps(t)' - OwedOps(t))
    <2> DEFINE F == [u \in Threads |-> OwedOps(u)]
               G == [u \in Threads |-> OwedOps(u)']
    <2>1. /\ \A u \in Threads : F[u] = OwedOps(u) /\ F[u] \in Int
          /\ \A u \in Threads : G[u] = OwedOps(u)'
          /\ G[t] \in Int
      BY <1>2, <1>3
    <2>2. \A u \in Threads : u # t => G[u] = F[u]
      BY <1>4
    <2>3. OwedCalls = Sum(F, Threads) /\ OwedCalls' = Sum(G, Threads)
      BY DEF OwedCalls
    <2> HIDE DEF F, G
    <2>4. Sum(G, Threads) = Sum(F, Threads) + (G[t] - F[t])
      BY <2>1, <2>2, OneThread
    <2>5. QED
      BY <2>1, <2>3, <2>4
  <1>11. PendingCalls' = PendingCalls + (PendingOps(t)' - PendingOps(t))
    <2> DEFINE F == [u \in Threads |-> PendingOps(u)]
               G == [u \in Threads |-> PendingOps(u)']
    <2>1. /\ \A u \in Threads : F[u] = PendingOps(u) /\ F[u] \in Int
          /\ \A u \in Threads : G[u] = PendingOps(u)'
          /\ G[t] \in Int
      BY <1>2, <1>3
    <2>2. \A u \in Threads : u # t => G[u] = F[u]
      BY <1>4
    <2>3. PendingCalls = Sum(F, Threads) /\ PendingCalls' = Sum(G, Threads)
      BY DEF PendingCalls
    <2> HIDE DEF F, G
    <2>4. Sum(G, Threads) = Sum(F, Threads) + (G[t] - F[t])
      BY <2>1, <2>2, OneThread
    <2>5. QED
      BY <2>1, <2>3, <2>4
  <1>12. QED
    BY <1>1, <1>5, <1>6, <1>7, <1>8, <1>9, <1>10, <1>11

-----------------------------------------------------------------------------
LEMMA NoWrap == \A n \in Int : 0 <= n /\ n < Wrap => n % Wrap = n
  BY WrapAssumption

LEMMA Products ==
    ASSUME NEW a \in Nat, NEW b \in Nat, NEW m \in Nat, a <= b
    PROVE  a * m \in Nat /\ b * m \in Nat /\ a * m <= b * m /\ (a + 1) * m = a * m + m
  <1>1. (b - a) * m = b * m - a * m /\ (b - a) * m >= 0
    OBVIOUS
  <1>2. QED
    BY <1>1

\* A step of thread t that gives the application dh bytes, and adds dc to
\* ms.current, da and dr to the totals, dn and df to allocs and free.
Extra(m) == IF calls' = calls THEN 0 ELSE m

Books(t, m, dh, dc, da, dr, dn, df) ==
    /\ IsFiniteSet(live')
    /\ HeldBytes' = HeldBytes + dh
    /\ LiveBytes' = LiveBytes + dh + (Inside(t)' - Inside(t))
    /\ ms'.current = (ms.current + dc) % Wrap
    /\ ms'.total_allocated = (ms.total_allocated + da) % Wrap
    /\ ms'.total_released = (ms.total_released + dr) % Wrap
    /\ ms'.allocs = (ms.allocs + dn) % Wrap
    /\ ms'.free = (ms.free + df) % Wrap
    /\ dc = dh + (Counted(t)' - Counted(t))
    /\ da - dr = dh + (Totalled(t)' - Totalled(t))
    /\ dn - df = (Cardinality(live)' - Cardinality(live)) + (OwedOps(t)' - OwedOps(t))
    /\ da + (ToAllocate(t)' - ToAllocate(t)) <= Extra(m)
    /\ dc + (ToClaim(t)' - ToClaim(t)) <= Extra(m)
    /\ dn + df + (PendingOps(t)' - PendingOps(t)) <= calls' - calls
    /\ calls' \in {calls, calls + 1}

(***************************************************************************)
(* Such a step keeps the counters exact; no addition leaves the words.     *)
(***************************************************************************)
LEMMA Balance ==
    ASSUME NEW m \in Nat, Fits(m), TypeOK, Ownership, TypeOK', Ownership', CounterInv(m),
           NEW t \in Threads, Fitting(t)', \A u \in Threads : u # t => SameDebts(u),
           NEW dh \in Int, NEW dc \in Int, NEW da \in Nat, NEW dr \in Nat,
           NEW dn \in Nat, NEW df \in Nat, Books(t, m, dh, dc, da, dr, dn, df)
    PROVE  CounterInv(m)'
  <1>0. /\ HeldBytes' = HeldBytes + dh
        /\ LiveBytes' = LiveBytes + dh + (Inside(t)' - Inside(t))
        /\ dc = dh + (Counted(t)' - Counted(t))
        /\ da - dr = dh + (Totalled(t)' - Totalled(t))
        /\ dn - df = (Cardinality(live)' - Cardinality(live)) + (OwedOps(t)' - OwedOps(t))
        /\ dn + df + (PendingOps(t)' - PendingOps(t)) <= calls' - calls
    BY DEF Books
  <1>1. /\ \A u \in Threads : Fitting(u)'
        /\ InsideBytes' = InsideBytes + (Inside(t)' - Inside(t))
        /\ CountedBytes' = CountedBytes + (Counted(t)' - Counted(t))
        /\ TotalledBytes' = TotalledBytes + (Totalled(t)' - Totalled(t))
        /\ ToAllocateBytes' = ToAllocateBytes + (ToAllocate(t)' - ToAllocate(t))
        /\ ToClaimBytes' = ToClaimBytes + (ToClaim(t)' - ToClaim(t))
        /\ OwedCalls' = OwedCalls + (OwedOps(t)' - OwedOps(t))
        /\ PendingCalls' = PendingCalls + (PendingOps(t)' - PendingOps(t))
    BY ThreadSums DEF CounterInv
  <1>2. /\ InsideBytes \in Int /\ OwedCalls \in Int
        /\ CountedBytes \in Nat /\ TotalledBytes \in Nat
        /\ ToAllocateBytes \in Nat /\ ToClaimBytes \in Nat /\ PendingCalls \in Nat
    BY SumTypes DEF SumsTyped, CounterInv
  <1>3. /\ InsideBytes' \in Int /\ OwedCalls' \in Int
        /\ CountedBytes' \in Nat /\ TotalledBytes' \in Nat
        /\ ToAllocateBytes' \in Nat /\ ToClaimBytes' \in Nat /\ PendingCalls' \in Nat
    BY <1>1, NextSumTypes DEF SumsTyped
  <1>4. /\ Inside(t) \in Int /\ Counted(t) \in Int /\ Totalled(t) \in Int
        /\ ToAllocate(t) \in Int /\ ToClaim(t) \in Int
        /\ OwedOps(t) \in Int /\ PendingOps(t) \in Int
    BY CounterTypes DEF CountersTyped, CounterInv
  <1>5. /\ Inside(t)' \in Int /\ Counted(t)' \in Int /\ Totalled(t)' \in Int
        /\ ToAllocate(t)' \in Int /\ ToClaim(t)' \in Int
        /\ OwedOps(t)' \in Int /\ PendingOps(t)' \in Int
    BY NextCounterTypes DEF CountersTyped
  <1>6. HeldBytes \in Nat /\ LiveBytes \in Int /\ Cardinality(live) \in Nat
    BY HeapTypes DEF HeapTyped, CounterInv
  <1>7. HeldBytes' \in Nat /\ LiveBytes' \in Int /\ Cardinality(live)' \in Nat
    BY NextHeapTypes DEF HeapTyped, Books
  <1>8. /\ ms.current \in Nat /\ ms.total_allocated \in Nat /\ ms.total_released \in Nat
        /\ ms.allocs \in Nat /\ ms.free \in Nat
        /\ ms.total_allocated < Wrap /\ calls \in Nat /\ calls' \in Nat
        /\ calls <= MaxCalls /\ calls' <= MaxCalls
        /\ MaxCalls \in Nat /\ MaxCalls * m < Wrap /\ MaxCalls < Wrap
    BY WrapAssumption, BoundAssumption DEF TypeOK, Words, Counters, Fits
  <1> DEFINE k == calls * m
             kk == calls' * m
  <1>9. k \in Nat /\ kk \in Nat /\ kk < Wrap /\ kk - k = Extra(m)
    <2> DEFINE top == MaxCalls * m
    <2>1. k \in Nat /\ kk \in Nat /\ kk <= top /\ top \in Nat
      BY <1>8, Products
    <2>2. calls' = calls + 1 => kk = k + m
      BY <1>8, Products
    <2>3. calls' = calls => kk = k
      OBVIOUS
    <2>4. top < Wrap
      BY <1>8
    <2> HIDE DEF k, kk, top
    <2>5. kk < Wrap
      BY <2>1, <2>4, WrapAssumption
    <2>6. kk - k = Extra(m)
      <3>1. CASE calls' = calls
        BY <2>1, <2>3, <3>1 DEF Extra
      <3>2. CASE calls' = calls + 1
        BY <1>8, <2>1, <2>2, <3>2 DEF Extra
      <3>3. QED
        BY <3>1, <3>2 DEF Books
    <2>7. QED
      BY <2>1, <2>5, <2>6
  <1>10. /\ LiveBytes = HeldBytes + InsideBytes
         /\ ms.current = HeldBytes + CountedBytes
         /\ ms.total_allocated - ms.total_released = HeldBytes + TotalledBytes
         /\ ms.total_allocated + ToAllocateBytes <= k
         /\ ms.current + ToClaimBytes <= k
         /\ ms.allocs - ms.free = Cardinality(live) + OwedCalls
         /\ ms.allocs + ms.free + PendingCalls <= calls
    BY DEF CounterInv, Ledger
  <1> HIDE DEF k, kk
  <1>11. /\ da + (ToAllocate(t)' - ToAllocate(t)) <= kk - k
         /\ dc + (ToClaim(t)' - ToClaim(t)) <= kk - k
    BY <1>9 DEF Books
  <1>12. ms'.current = ms.current + dc
    <2>1. ms.current + dc = HeldBytes' + CountedBytes'
      BY <1>0, <1>1, <1>2, <1>4, <1>5, <1>6, <1>10
    <2>2. ms.current + dc + ToClaimBytes' <= kk
      BY <1>1, <1>2, <1>4, <1>5, <1>8, <1>9, <1>10, <1>11
    <2>3. 0 <= ms.current + dc /\ ms.current + dc < Wrap
      BY <1>3, <1>7, <1>8, <1>9, <2>1, <2>2, WrapAssumption
    <2>4. QED
      BY <1>8, <2>3, NoWrap DEF Books
  <1>13. ms'.total_allocated = ms.total_allocated + da
    <2>1. ms.total_allocated + da + ToAllocateBytes' <= kk
      BY <1>1, <1>2, <1>4, <1>5, <1>8, <1>9, <1>10, <1>11
    <2>2. ms.total_allocated + da < Wrap
      BY <1>3, <1>8, <1>9, <2>1, WrapAssumption
    <2>3. QED
      BY <1>8, <2>2, NoWrap DEF Books
  <1>14. (ms.total_allocated + da) - (ms.total_released + dr) = HeldBytes' + TotalledBytes'
    <2>1. da - dr = dh + (Totalled(t)' - Totalled(t))
      BY <1>0
    <2>2. HeldBytes' = HeldBytes + dh
      BY <1>0
    <2>3. TotalledBytes' = TotalledBytes + (Totalled(t)' - Totalled(t))
      BY <1>1
    <2>4. ms.total_allocated - ms.total_released = HeldBytes + TotalledBytes
      BY <1>10
    <2>5. /\ TotalledBytes \in Int /\ Totalled(t) \in Int /\ Totalled(t)' \in Int
          /\ HeldBytes \in Int /\ ms.total_allocated \in Int /\ ms.total_released \in Int
      BY <1>2, <1>4, <1>5, <1>6, <1>8
    <2>6. QED
      BY <2>1, <2>2, <2>3, <2>4, <2>5
  <1>15. ms'.total_released = ms.total_released + dr
    <2>2. ms.total_allocated + da < Wrap
      <3>1. ms.total_allocated + da + ToAllocateBytes' <= kk
        BY <1>1, <1>2, <1>4, <1>5, <1>8, <1>9, <1>10, <1>11
      <3>2. QED
        BY <1>3, <1>8, <1>9, <3>1, WrapAssumption
    <2>3. ms.total_released + dr < Wrap
      BY <1>3, <1>7, <1>8, <1>14, <2>2, WrapAssumption
    <2>4. QED
      BY <1>8, <2>3, NoWrap DEF Books
  <1>16. ms.allocs + dn + (ms.free + df) + PendingCalls' <= calls'
    BY <1>0, <1>1, <1>2, <1>4, <1>5, <1>8, <1>10
  <1>17. ms'.allocs = ms.allocs + dn /\ ms'.free = ms.free + df
    <2>1. ms.allocs + dn < Wrap /\ ms.free + df < Wrap
      BY <1>3, <1>8, <1>16, WrapAssumption
    <2>2. QED
      BY <1>8, <2>1, NoWrap DEF Books
  <1>18. /\ LiveBytes' = HeldBytes' + InsideBytes'
         /\ ms'.current = HeldBytes' + CountedBytes'
         /\ ms'.total_allocated - ms'.total_released = HeldBytes' + TotalledBytes'
    <2>1. LiveBytes' = HeldBytes' + InsideBytes'
      <3>1. LiveBytes' = LiveBytes + dh + (Inside(t)' - Inside(t))
        BY <1>0
      <3>2. HeldBytes' = HeldBytes + dh
        BY <1>0
      <3>3. InsideBytes' = InsideBytes + (Inside(t)' - Inside(t))
        BY <1>1
      <3>4. LiveBytes = HeldBytes + InsideBytes
        BY <1>10
      <3>5. /\ InsideBytes \in Int /\ HeldBytes \in Int
            /\ Inside(t) \in Int /\ Inside(t)' \in Int
        BY <1>2, <1>4, <1>5, <1>6
      <3>6. QED
        BY <3>1, <3>2, <3>3, <3>4, <3>5
    <2>2. ms'.current = HeldBytes' + CountedBytes'
      <3>1. dc = dh + (Counted(t)' - Counted(t))
        BY <1>0
      <3>2. HeldBytes' = HeldBytes + dh
        BY <1>0
      <3>3. CountedBytes' = CountedBytes + (Counted(t)' - Counted(t))
        BY <1>1
      <3>4. ms.current = HeldBytes + CountedBytes
        BY <1>10
      <3>5. /\ CountedBytes \in Int /\ HeldBytes \in Int
            /\ Counted(t) \in Int /\ Counted(t)' \in Int
        BY <1>2, <1>4, <1>5, <1>6
      <3>6. QED
        BY <1>12, <3>1, <3>2, <3>3, <3>4, <3>5
    <2>3. QED
      BY <1>13, <1>15, <1>14, <2>1, <2>2
  <1>19. /\ ms'.total_allocated + ToAllocateBytes' <= calls' * m
         /\ ms'.current + ToClaimBytes' <= calls' * m
    BY <1>1, <1>2, <1>4, <1>5, <1>8, <1>9, <1>10, <1>11, <1>12, <1>13 DEF kk
  <1>20. ms'.allocs - ms'.free = Cardinality(live)' + OwedCalls'
    <2>1. dn - df = (Cardinality(live)' - Cardinality(live)) + (OwedOps(t)' - OwedOps(t))
      BY <1>0
    <2>2. OwedCalls' = OwedCalls + (OwedOps(t)' - OwedOps(t))
      BY <1>1
    <2>3. ms.allocs - ms.free = Cardinality(live) + OwedCalls
      BY <1>10
    <2>4. /\ Cardinality(live) \in Int /\ Cardinality(live)' \in Int
          /\ OwedCalls \in Int /\ OwedOps(t) \in Int /\ OwedOps(t)' \in Int
          /\ ms.allocs \in Int /\ ms.free \in Int
      BY <1>2, <1>4, <1>5, <1>6, <1>7, <1>8
    <2> DEFINE n == Cardinality(live)
               nn == Cardinality(live)'
    <2>5. /\ dn - df = (nn - n) + (OwedOps(t)' - OwedOps(t))
          /\ ms.allocs - ms.free = n + OwedCalls
          /\ n \in Int /\ nn \in Int
      BY <2>1, <2>3, <2>4
    <2> HIDE DEF n, nn
    <2>6. (ms.allocs + dn) - (ms.free + df) = nn + OwedCalls'
      BY <2>2, <2>4, <2>5
    <2>7. ms'.allocs - ms'.free = nn + OwedCalls'
      BY <1>17, <2>6
    <2>8. QED
      BY <2>7 DEF nn
  <1>21. ms'.allocs + ms'.free + PendingCalls' <= calls'
    BY <1>16, <1>17
  <1>22. QED
    BY <1>1, <1>18, <1>19, <1>20, <1>21 DEF CounterInv, Ledger, Books

-----------------------------------------------------------------------------
\* The account of thread t: what its functions are worth at each label.
Account(t, i, c, tt, a, l, o, p) ==
    /\ Inside(t) = i /\ Counted(t) = c /\ Totalled(t) = tt
    /\ ToAllocate(t) = a /\ ToClaim(t) = l
    /\ OwedOps(t) = o /\ PendingOps(t) = p

Accounts(t) ==
    LET h == hdr[req[t].blk]
        d == req[t].delta
    IN  TypeOK /\ Ownership /\ Fitting(t) =>
        /\ pc[t] \in {"idle", "save_stats"} => Account(t, 0, 0, 0, 0, 0, 0, 0)
        /\ pc[t] = "allocs" => Account(t, h, 0, 0, h, h, -1, 1) /\ d = h
        /\ pc[t] = "reallocs" /\ req[t].op = "grow"
             => Account(t, h, h - d, h - d, d, d, 0, 0)
        /\ pc[t] = "reallocs" /\ req[t].op = "shrink"
             => Account(t, h, h + d, h + d, 0, 0, 0, 0)
        /\ pc[t] = "total_allocated" => Account(t, h, h - d, h - d, d, d, 0, 0)
        /\ pc[t] = "cur_add" => Account(t, h, h - d, h, 0, d, 0, 0)
        /\ pc[t] \in {"load_max", "cas"} => Account(t, h, h, h, 0, 0, 0, 0)
        /\ pc[t] = "frees" => Account(t, h, h, h, 0, 0, 0, 1) /\ d = h
        /\ pc[t] = "total_released" /\ req[t].op = "free"
             => Account(t, h, h, h, 0, 0, -1, 0)
        /\ pc[t] = "cur_sub" /\ req[t].op = "free"
             => Account(t, h, h, h - d, 0, 0, -1, 0)
        /\ pc[t] = "libc_free" => Account(t, h, 0, 0, 0, 0, -1, 0) /\ d = h
        /\ pc[t] = "cur_sub" /\ req[t].op = "shrink"
             => Account(t, h, h + d, h + d, 0, 0, 0, 0)
        /\ pc[t] = "total_released" /\ req[t].op = "shrink"
             => Account(t, h, h, h + d, 0, 0, 0, 0)

LEMMA AccountTable == \A t \in Threads : Accounts(t)
  <1> SUFFICES ASSUME NEW t \in Threads, TypeOK, Ownership, Fitting(t)
               PROVE  Accounts(t)
    BY DEF Accounts
  <1> DEFINE h == hdr[req[t].blk]
             d == req[t].delta
  <1>1. d \in Nat /\ req[t].op \in Ops /\ (InCall(t) => h \in Nat)
    BY CounterTypes DEF CountersTyped, TypeOK, Requests
  <1>2. Inside(t) = IF InCall(t) THEN h ELSE 0
    BY DEF Inside
  <1>3. /\ OwedCurrent(t) =
             CASE Before(t, {"malloc", "grow"},
                         {"allocs", "reallocs", "total_allocated", "cur_add"}) -> -d
               [] Before(t, {"shrink"}, {"reallocs", "cur_sub"}) -> d
               [] Before(t, {"free"}, {"libc_free"}) -> -d
               [] OTHER -> 0
        /\ OwedTotals(t) =
             CASE Before(t, {"malloc", "grow"}, {"allocs", "reallocs",
                "total_allocated"}) -> -d
               [] Before(t, {"shrink"}, {"reallocs", "cur_sub", "total_released"}) -> d
               [] Before(t, {"free"}, {"cur_sub", "libc_free"}) -> -d
               [] OTHER -> 0
        /\ ToAllocate(t) = IF Before(t, {"malloc", "grow"},
                                     {"allocs", "reallocs",
                                        "total_allocated"}) THEN d ELSE 0
        /\ ToClaim(t) = IF Before(t, {"malloc", "grow"},
                             {"allocs", "reallocs", "total_allocated",
                                "cur_add"}) THEN d ELSE 0
    BY DEF OwedCurrent, OwedTotals, ToAllocate, ToClaim
  <1>4. InCall(t) /\ req[t].op \in {"malloc", "free"} => d = h
    BY DEF Fitting
  <1>5. /\ pc[t] = "allocs" => req[t].op = "malloc"
        /\ pc[t] \in {"total_allocated", "cur_add", "load_max", "cas"}
             => req[t].op \in {"malloc", "grow"}
        /\ pc[t] \in {"frees", "libc_free"} => req[t].op = "free"
    BY DEF Fitting
  <1> HIDE DEF h, d
  <1>6. ASSUME pc[t] = "idle" PROVE Account(t, 0, 0, 0, 0, 0, 0, 0)
    <2>1. ~InCall(t) /\ Inside(t) = 0
      BY <1>2, <1>6 DEF InCall
    <2>2. OwedCurrent(t) = 0 /\ OwedTotals(t) = 0
      BY <1>1, <1>3, <1>5, <1>6 DEF Before, Ops
    <2>3. /\ ToAllocate(t) = 0 /\ ToClaim(t) = 0
          /\ OwedOps(t) = 0 /\ PendingOps(t) = 0
      BY <1>1, <1>3, <1>5, <1>6 DEF Before, Ops, OwedOps, PendingOps
    <2>4. QED
      BY <1>1, <1>4, <1>5, <1>6, <2>1, <2>2, <2>3 DEF Account, Counted, Totalled
  <1>7. ASSUME pc[t] = "save_stats" PROVE Account(t, 0, 0, 0, 0, 0, 0, 0)
    <2>1. ~InCall(t) /\ Inside(t) = 0
      BY <1>2, <1>7 DEF InCall
    <2>2. OwedCurrent(t) = 0 /\ OwedTotals(t) = 0
      BY <1>1, <1>3, <1>5, <1>7 DEF Before, Ops
    <2>3. /\ ToAllocate(t) = 0 /\ ToClaim(t) = 0
          /\ OwedOps(t) = 0 /\ PendingOps(t) = 0
      BY <1>1, <1>3, <1>5, <1>7 DEF Before, Ops, OwedOps, PendingOps
    <2>4. QED
      BY <1>1, <1>4, <1>5, <1>7, <2>1, <2>2, <2>3 DEF Account, Counted, Totalled
  <1>8. ASSUME pc[t] = "allocs" PROVE Account(t, h, 0, 0, h, h, -1, 1) /\ d = h
    <2>1. InCall(t) /\ Inside(t) = h
      BY <1>2, <1>8 DEF InCall
    <2>2. OwedCurrent(t) = -d /\ OwedTotals(t) = -d
      BY <1>1, <1>3, <1>5, <1>8 DEF Before, Ops
    <2>3. /\ ToAllocate(t) = d /\ ToClaim(t) = d
          /\ OwedOps(t) = -1 /\ PendingOps(t) = 1
      BY <1>1, <1>3, <1>5, <1>8 DEF Before, Ops, OwedOps, PendingOps
    <2>4. QED
      BY <1>1, <1>4, <1>5, <1>8, <2>1, <2>2, <2>3 DEF Account, Counted, Totalled
  <1>9. ASSUME pc[t] = "reallocs" /\ req[t].op = "grow"
        PROVE  Account(t, h, h - d, h - d, d, d, 0, 0)
    <2>1. InCall(t) /\ Inside(t) = h
      BY <1>2, <1>9 DEF InCall
    <2>2. OwedCurrent(t) = -d /\ OwedTotals(t) = -d
      BY <1>1, <1>3, <1>5, <1>9 DEF Before, Ops
    <2>3. /\ ToAllocate(t) = d /\ ToClaim(t) = d
          /\ OwedOps(t) = 0 /\ PendingOps(t) = 0
      BY <1>1, <1>3, <1>5, <1>9 DEF Before, Ops, OwedOps, PendingOps
    <2>4. QED
      BY <1>1, <1>4, <1>5, <1>9, <2>1, <2>2, <2>3 DEF Account, Counted, Totalled
  <1>10. ASSUME pc[t] = "reallocs" /\ req[t].op = "shrink"
         PROVE  Account(t, h, h + d, h + d, 0, 0, 0, 0)
    <2>1. InCall(t) /\ Inside(t) = h
      BY <1>2, <1>10 DEF InCall
    <2>2. OwedCurrent(t) = d /\ OwedTotals(t) = d
      BY <1>1, <1>3, <1>5, <1>10 DEF Before, Ops
    <2>3. /\ ToAllocate(t) = 0 /\ ToClaim(t) = 0
          /\ OwedOps(t) = 0 /\ PendingOps(t) = 0
      BY <1>1, <1>3, <1>5, <1>10 DEF Before, Ops, OwedOps, PendingOps
    <2>4. QED
      BY <1>1, <1>4, <1>5, <1>10, <2>1, <2>2, <2>3 DEF Account, Counted, Totalled
  <1>11. ASSUME pc[t] = "total_allocated" PROVE Account(t, h, h - d, h - d, d, d, 0, 0)
    <2>1. InCall(t) /\ Inside(t) = h
      BY <1>2, <1>11 DEF InCall
    <2>2. OwedCurrent(t) = -d /\ OwedTotals(t) = -d
      BY <1>1, <1>3, <1>5, <1>11 DEF Before, Ops
    <2>3. /\ ToAllocate(t) = d /\ ToClaim(t) = d
          /\ OwedOps(t) = 0 /\ PendingOps(t) = 0
      BY <1>1, <1>3, <1>5, <1>11 DEF Before, Ops, OwedOps, PendingOps
    <2>4. QED
      BY <1>1, <1>4, <1>5, <1>11, <2>1, <2>2, <2>3 DEF Account, Counted, Totalled
  <1>12. ASSUME pc[t] = "cur_add" PROVE Account(t, h, h - d, h, 0, d, 0, 0)
    <2>1. InCall(t) /\ Inside(t) = h
      BY <1>2, <1>12 DEF InCall
    <2>2. OwedCurrent(t) = -d /\ OwedTotals(t) = 0
      BY <1>1, <1>3, <1>5, <1>12 DEF Before, Ops
    <2>3. /\ ToAllocate(t) = 0 /\ ToClaim(t) = d
          /\ OwedOps(t) = 0 /\ PendingOps(t) = 0
      BY <1>1, <1>3, <1>5, <1>12 DEF Before, Ops, OwedOps, PendingOps
    <2>4. QED
      BY <1>1, <1>4, <1>5, <1>12, <2>1, <2>2, <2>3 DEF Account, Counted, Totalled
  <1>13. ASSUME pc[t] = "load_max" PROVE Account(t, h, h, h, 0, 0, 0, 0)
    <2>1. InCall(t) /\ Inside(t) = h
      BY <1>2, <1>13 DEF InCall
    <2>2. OwedCurrent(t) = 0 /\ OwedTotals(t) = 0
      BY <1>1, <1>3, <1>5, <1>13 DEF Before, Ops
    <2>3. /\ ToAllocate(t) = 0 /\ ToClaim(t) = 0
          /\ OwedOps(t) = 0 /\ PendingOps(t) = 0
      BY <1>1, <1>3, <1>5, <1>13 DEF Before, Ops, OwedOps, PendingOps
    <2>4. QED
      BY <1>1, <1>4, <1>5, <1>13, <2>1, <2>2, <2>3 DEF Account, Counted, Totalled
  <1>14. ASSUME pc[t] = "cas" PROVE Account(t, h, h, h, 0, 0, 0, 0)
    <2>1. InCall(t) /\ Inside(t) = h
      BY <1>2, <1>14 DEF InCall
    <2>2. OwedCurrent(t) = 0 /\ OwedTotals(t) = 0
      BY <1>1, <1>3, <1>5, <1>14 DEF Before, Ops
    <2>3. /\ ToAllocate(t) = 0 /\ ToClaim(t) = 0
          /\ OwedOps(t) = 0 /\ PendingOps(t) = 0
      BY <1>1, <1>3, <1>5, <1>14 DEF Before, Ops, OwedOps, PendingOps
    <2>4. QED
      BY <1>1, <1>4, <1>5, <1>14, <2>1, <2>2, <2>3 DEF Account, Counted, Totalled
  <1>15. ASSUME pc[t] = "frees" PROVE Account(t, h, h, h, 0, 0, 0, 1) /\ d = h
    <2>1. InCall(t) /\ Inside(t) = h
      BY <1>2, <1>15 DEF InCall
    <2>2. OwedCurrent(t) = 0 /\ OwedTotals(t) = 0
      BY <1>1, <1>3, <1>5, <1>15 DEF Before, Ops
    <2>3. /\ ToAllocate(t) = 0 /\ ToClaim(t) = 0
          /\ OwedOps(t) = 0 /\ PendingOps(t) = 1
      BY <1>1, <1>3, <1>5, <1>15 DEF Before, Ops, OwedOps, PendingOps
    <2>4. QED
      BY <1>1, <1>4, <1>5, <1>15, <2>1, <2>2, <2>3 DEF Account, Counted, Totalled
  <1>16. ASSUME pc[t] = "total_released" /\ req[t].op = "free"
         PROVE  Account(t, h, h, h, 0, 0, -1, 0)
    <2>1. InCall(t) /\ Inside(t) = h
      BY <1>2, <1>16 DEF InCall
    <2>2. OwedCurrent(t) = 0 /\ OwedTotals(t) = 0
      BY <1>1, <1>3, <1>5, <1>16 DEF Before, Ops
    <2>3. /\ ToAllocate(t) = 0 /\ ToClaim(t) = 0
          /\ OwedOps(t) = -1 /\ PendingOps(t) = 0
      BY <1>1, <1>3, <1>5, <1>16 DEF Before, Ops, OwedOps, PendingOps
    <2>4. QED
      BY <1>1, <1>4, <1>5, <1>16, <2>1, <2>2, <2>3 DEF Account, Counted, Totalled
  <1>17. ASSUME pc[t] = "cur_sub" /\ req[t].op = "free"
         PROVE  Account(t, h, h, h - d, 0, 0, -1, 0)
    <2>1. InCall(t) /\ Inside(t) = h
      BY <1>2, <1>17 DEF InCall
    <2>2. OwedCurrent(t) = 0 /\ OwedTotals(t) = -d
      BY <1>1, <1>3, <1>5, <1>17 DEF Before, Ops
    <2>3. /\ ToAllocate(t) = 0 /\ ToClaim(t) = 0
          /\ OwedOps(t) = -1 /\ PendingOps(t) = 0
      BY <1>1, <1>3, <1>5, <1>17 DEF Before, Ops, OwedOps, PendingOps
    <2>4. QED
      BY <1>1, <1>4, <1>5, <1>17, <2>1, <2>2, <2>3 DEF Account, Counted, Totalled
  <1>18. ASSUME pc[t] = "libc_free" PROVE Account(t, h, 0, 0, 0, 0, -1, 0) /\ d = h
    <2>1. InCall(t) /\ Inside(t) = h
      BY <1>2, <1>18 DEF InCall
    <2>2. OwedCurrent(t) = -d /\ OwedTotals(t) = -d
      BY <1>1, <1>3, <1>5, <1>18 DEF Before, Ops
    <2>3. /\ ToAllocate(t) = 0 /\ ToClaim(t) = 0
          /\ OwedOps(t) = -1 /\ PendingOps(t) = 0
      BY <1>1, <1>3, <1>5, <1>18 DEF Before, Ops, OwedOps, PendingOps
    <2>4. QED
      BY <1>1, <1>4, <1>5, <1>18, <2>1, <2>2, <2>3 DEF Account, Counted, Totalled
  <1>19. ASSUME pc[t] = "cur_sub" /\ req[t].op = "shrink"
         PROVE  Account(t, h, h + d, h + d, 0, 0, 0, 0)
    <2>1. InCall(t) /\ Inside(t) = h
      BY <1>2, <1>19 DEF InCall
    <2>2. OwedCurrent(t) = d /\ OwedTotals(t) = d
      BY <1>1, <1>3, <1>5, <1>19 DEF Before, Ops
    <2>3. /\ ToAllocate(t) = 0 /\ ToClaim(t) = 0
          /\ OwedOps(t) = 0 /\ PendingOps(t) = 0
      BY <1>1, <1>3, <1>5, <1>19 DEF Before, Ops, OwedOps, PendingOps
    <2>4. QED
      BY <1>1, <1>4, <1>5, <1>19, <2>1, <2>2, <2>3 DEF Account, Counted, Totalled
  <1>20. ASSUME pc[t] = "total_released" /\ req[t].op = "shrink"
         PROVE  Account(t, h, h, h + d, 0, 0, 0, 0)
    <2>1. InCall(t) /\ Inside(t) = h
      BY <1>2, <1>20 DEF InCall
    <2>2. OwedCurrent(t) = 0 /\ OwedTotals(t) = d
      BY <1>1, <1>3, <1>5, <1>20 DEF Before, Ops
    <2>3. /\ ToAllocate(t) = 0 /\ ToClaim(t) = 0
          /\ OwedOps(t) = 0 /\ PendingOps(t) = 0
      BY <1>1, <1>3, <1>5, <1>20 DEF Before, Ops, OwedOps, PendingOps
    <2>4. QED
      BY <1>1, <1>4, <1>5, <1>20, <2>1, <2>2, <2>3 DEF Account, Counted, Totalled
  <1>21. QED
    BY <1>6, <1>7, <1>8, <1>9, <1>10, <1>11, <1>12, <1>13, <1>14, <1>15, <1>16, <1>17,
       <1>18, <1>19, <1>20 DEF Accounts, h, d

LEMMA NextAccountTable == \A t \in Threads : Accounts(t)'
  <1>1. (\A t \in Threads : Accounts(t))'
    BY AccountTable, PTL
  <1>2. QED
    BY <1>1

-----------------------------------------------------------------------------
LEMMA SameHeap ==
    ASSUME UNCHANGED <<live, hdr, held>>, IsFiniteSet(live)
    PROVE  /\ HeldBytes' = HeldBytes /\ LiveBytes' = LiveBytes
           /\ Cardinality(live)' = Cardinality(live) /\ IsFiniteSet(live')
  BY DEF HeldBytes, LiveBytes

LEMMA CounterValues ==
    ASSUME TypeOK
    PROVE  \A c \in Counters \cup {"current"} : ms[c] \in Nat /\ (ms[c] + 0) % Wrap = ms[c]
  <1>1. \A c \in Counters \cup {"current"} : ms[c] \in Int /\ 0 <= ms[c] /\ ms[c] < Wrap
    BY WrapAssumption DEF TypeOK, Words
  <1>2. QED
    BY <1>1, NoWrap

LEMMA AddPosts ==
    ASSUME TypeOK, NEW c \in Counters \cup {"current"}, NEW n \in Int, Add(c, n)
    PROVE  /\ ms'[c] = (ms[c] + n) % Wrap
           /\ \A x \in Counters \cup {"current"} :
                 x # c => ms'[x] = (ms[x] + 0) % Wrap
  BY CounterValues DEF TypeOK, Add

\* A step inside a wrapper touches no other thread.
LEMMA AccessIsLocal ==
    ASSUME TypeOK, NEW t \in Threads, Access(t)
    PROVE  /\ \A u \in Threads : u # t => SameDebts(u)
           /\ UNCHANGED <<hdr, calls>>
  <1>1. /\ \A u \in Threads : u # t => pc'[u] = pc[u] /\ req'[u] = req[u]
        /\ UNCHANGED <<hdr, calls>>
    BY DEF TypeOK, Access, CountAlloc, CountRealloc, CountFree, AddAllocated, AddReleased,
           UpdateRelease, UpdateAllocAdd, UpdateAllocLoad, UpdateAllocCas, LibcFree,
           Goto, Return, heapVars
  <1>2. QED
    BY <1>1 DEF SameDebts


\* By how much the account of a thread changes.
Moves(t, i, c, tt, a, l, o, p) ==
    /\ Inside(t)' - Inside(t) = i /\ Counted(t)' - Counted(t) = c
    /\ Totalled(t)' - Totalled(t) = tt
    /\ ToAllocate(t)' - ToAllocate(t) = a /\ ToClaim(t)' - ToClaim(t) = l
    /\ OwedOps(t)' - OwedOps(t) = o /\ PendingOps(t)' - PendingOps(t) = p

\* What a step changes in the heap, and what it posts to the counters.
Heap(dh, dl, dk) ==
    /\ HeldBytes' = HeldBytes + dh /\ LiveBytes' = LiveBytes + dl
    /\ Cardinality(live)' = Cardinality(live) + dk /\ IsFiniteSet(live')

Posts(dc, da, dr, dn, df) ==
    /\ ms'.current = (ms.current + dc) % Wrap
    /\ ms'.total_allocated = (ms.total_allocated + da) % Wrap
    /\ ms'.total_released = (ms.total_released + dr) % Wrap
    /\ ms'.allocs = (ms.allocs + dn) % Wrap
    /\ ms'.free = (ms.free + df) % Wrap

\* The two sides agree.
Agree(m, dh, dl, dk, dc, da, dr, dn, df, i, c, tt, a, l, o, p) ==
    /\ {dh, dl, dk, dc, i, c, tt, a, l, o, p} \subseteq Int
    /\ {da, dr, dn, df} \subseteq Nat
    /\ dl = dh + i /\ dc = dh + c /\ da - dr = dh + tt /\ dn - df = dk + o
    /\ calls' \in {calls, calls + 1}
    /\ da + a <= Extra(m) /\ dc + l <= Extra(m) /\ dn + df + p <= calls' - calls

(***************************************************************************)
(* Double entry: a step keeps the counters exact when what it posts is what*)
(* the heap and the accounts of its thread change by.                      *)
(***************************************************************************)
LEMMA DoubleEntry ==
    ASSUME NEW m \in Nat, Fits(m), TypeOK, Ownership, TypeOK', Ownership', CounterInv(m),
           NEW t \in Threads, Fitting(t)', \A u \in Threads : u # t => SameDebts(u),
           NEW dh, NEW dl, NEW dk, NEW dc, NEW da, NEW dr, NEW dn, NEW df,
           NEW i, NEW c, NEW tt, NEW a, NEW l, NEW o, NEW p,
           Heap(dh, dl, dk), Posts(dc, da, dr, dn, df), Moves(t, i, c, tt, a, l, o, p),
           Agree(m, dh, dl, dk, dc, da, dr, dn, df, i, c, tt, a, l, o, p)
    PROVE  CounterInv(m)'
  <1>0. /\ dh \in Int /\ dl \in Int /\ dk \in Int /\ dc \in Int /\ i \in Int /\ c \in Int
        /\ tt \in Int /\ a \in Int /\ l \in Int /\ o \in Int /\ p \in Int
        /\ da \in Nat /\ dr \in Nat /\ dn \in Nat /\ df \in Nat
        /\ dl = dh + i /\ dc = dh + c /\ da - dr = dh + tt /\ dn - df = dk + o
        /\ calls' \in {calls, calls + 1}
        /\ da + a <= Extra(m) /\ dc + l <= Extra(m) /\ dn + df + p <= calls' - calls
    BY DEF Agree
  <1>1. HeldBytes \in Int /\ LiveBytes \in Int /\ Cardinality(live) \in Int
    BY HeapTypes DEF HeapTyped, CounterInv
  <1>2. /\ IsFiniteSet(live') /\ HeldBytes' = HeldBytes + dh
        /\ LiveBytes' = LiveBytes + dh + (Inside(t)' - Inside(t))
    BY <1>0, <1>1 DEF Heap, Moves
  <1>3. dn - df = (Cardinality(live)' - Cardinality(live)) + (OwedOps(t)' - OwedOps(t))
    BY <1>0, <1>1 DEF Heap, Moves
  <1>4. /\ dc = dh + (Counted(t)' - Counted(t))
        /\ da - dr = dh + (Totalled(t)' - Totalled(t))
        /\ da + (ToAllocate(t)' - ToAllocate(t)) <= Extra(m)
        /\ dc + (ToClaim(t)' - ToClaim(t)) <= Extra(m)
        /\ dn + df + (PendingOps(t)' - PendingOps(t)) <= calls' - calls
    BY <1>0 DEF Moves
  <1>5. Books(t, m, dh, dc, da, dr, dn, df)
    BY <1>0, <1>2, <1>3, <1>4, Zenon DEF Books, Posts
  <1>6. QED
    BY <1>0, <1>5, Balance

\* With the heap left alone.
LEMMA NoHeap ==
    ASSUME TypeOK, Ownership, IsFiniteSet(live), UNCHANGED <<live, hdr, held>>
    PROVE  Heap(0, 0, 0)
  BY HeapTypes, SameHeap DEF HeapTyped, Heap

LEMMA CountAllocEntry ==
    ASSUME NEW m \in Nat, Fits(m), TypeOK, Ownership, TypeOK', Ownership', CounterInv(m),
           NEW t \in Threads, CountAlloc(t)
    PROVE  CounterInv(m)'
  <1>1. /\ pc[t] = "allocs" /\ pc'[t] = "total_allocated" /\ req' = req
        /\ UNCHANGED <<live, hdr, held, calls>> /\ Add("allocs", 1)
    BY DEF TypeOK, CountAlloc, At, Goto, heapVars
  <1>2. \A u \in Threads : u # t => SameDebts(u)
    BY AccessIsLocal DEF Access
  <1>3. Fitting(t)'
    BY <1>1 DEF CounterInv, Fitting, InCall
  <1>4. Moves(t, 0, 0, 0, 0, 0, 1, -1)
    <2> DEFINE h == hdr[req[t].blk]
               d == req[t].delta
    <2>1. Account(t, h, 0, 0, h, h, -1, 1) /\ d = h
      BY <1>1, AccountTable DEF Accounts, CounterInv
    <2>2. /\ Inside(t)' = h /\ Counted(t)' = h - d /\ Totalled(t)' = h - d
          /\ ToAllocate(t)' = d /\ ToClaim(t)' = d /\ OwedOps(t)' = 0 /\ PendingOps(t)' = 0
      BY <1>1, <1>3, NextAccountTable DEF Accounts, Account
    <2>3. h \in Nat
      BY <1>1 DEF TypeOK, Ownership, InCall
    <2> HIDE DEF h, d
    <2>4. QED
      BY <2>1, <2>2, <2>3 DEF Moves, Account
  <1>5. Posts(0, 0, 0, 1, 0)
    BY <1>1, AddPosts DEF Counters, Posts
  <1>6. Agree(m, 0, 0, 0, 0, 0, 0, 1, 0, 0, 0, 0, 0, 0, 1, -1)
    BY <1>1 DEF Agree, Extra, TypeOK
  <1>7. QED
    BY <1>1, <1>2, <1>3, <1>4, <1>5, <1>6, NoHeap, DoubleEntry DEF CounterInv

\* A block that goes back to the application.
LEMMA ReturnHeap ==
    ASSUME TypeOK, Ownership, IsFiniteSet(live), NEW t \in Threads, InCall(t),
           held' = held \cup {req[t].blk}, UNCHANGED <<live, hdr>>
    PROVE  Heap(hdr[req[t].blk], 0, 0)
  <1> DEFINE b == req[t].blk
  <1>1. b \in Blocks /\ b \notin held /\ hdr[b] \in Int /\ \A x \in held : hdr[x] \in Int
    BY DEF TypeOK, Ownership
  <1>2. /\ IsFiniteSet(held) /\ LiveBytes \in Int /\ Cardinality(live) \in Nat
    BY HeapTypes DEF HeapTyped
  <1> HIDE DEF b
  <1>3. Sum(hdr, held \cup {b}) = Sum(hdr, held) + hdr[b]
    BY <1>1, <1>2, SumAdd
  <1>4. HeldBytes' = HeldBytes + hdr[b]
    BY <1>3 DEF HeldBytes, b
  <1>5. /\ LiveBytes' = LiveBytes + 0 /\ Cardinality(live)' = Cardinality(live) + 0
        /\ IsFiniteSet(live')
    BY <1>2 DEF LiveBytes
  <1>6. QED
    BY <1>4, <1>5 DEF Heap, b

LEMMA CountGrowEntry ==
    ASSUME NEW m \in Nat, Fits(m), TypeOK, Ownership, TypeOK', Ownership', CounterInv(m),
           NEW t \in Threads, CountRealloc(t), req[t].op = "grow"
    PROVE  CounterInv(m)'
  <1>1. /\ pc[t] = "reallocs" /\ pc'[t] = "total_allocated" /\ req' = req
        /\ UNCHANGED <<live, hdr, held, calls>> /\ Add("reallocs", 1)
    BY DEF TypeOK, CountRealloc, At, Goto, heapVars
  <1>2. \A u \in Threads : u # t => SameDebts(u)
    BY AccessIsLocal DEF Access
  <1>3. Fitting(t)'
    BY <1>1 DEF CounterInv, Fitting, InCall
  <1> DEFINE h == hdr[req[t].blk]
             d == req[t].delta
  <1>4. /\ Account(t, h, h - d, h - d, d, d, 0, 0)
        /\ h \in Nat /\ d \in Nat
    <2>1. h \in Nat /\ d \in Nat
      BY <1>1 DEF TypeOK, Requests, Ownership, InCall
    <2>2. QED
      BY <1>1, <2>1, AccountTable DEF Accounts, CounterInv
  <1>5. Moves(t, 0, 0, 0, 0, 0, 0, 0)
    <2>1. /\ Inside(t)' = h /\ Counted(t)' = h - d /\ Totalled(t)' = h - d
          /\ ToAllocate(t)' = d /\ ToClaim(t)' = d
          /\ OwedOps(t)' = 0 /\ PendingOps(t)' = 0
      BY <1>1, <1>3, NextAccountTable DEF Accounts, Account
    <2> HIDE DEF h, d
    <2>2. QED
      BY <1>4, <2>1 DEF Moves, Account
  <1>6. Posts(0, 0, 0, 0, 0)
    BY <1>1, <1>4, AddPosts DEF Counters, Posts
  <1>7. Agree(m, 0, 0, 0, 0, 0, 0, 0, 0, 0, 0, 0, 0, 0, 0, 0)
    <2> HIDE DEF h, d
    <2>1. QED
      BY <1>1, <1>4 DEF Agree, Extra, TypeOK
  <1>8. Heap(0, 0, 0)
    BY <1>1, NoHeap DEF CounterInv
  <1> HIDE DEF h, d
  <1>9. QED
    BY <1>2, <1>3, <1>5, <1>6, <1>7, <1>8, DoubleEntry

LEMMA CountShrinkEntry ==
    ASSUME NEW m \in Nat, Fits(m), TypeOK, Ownership, TypeOK', Ownership', CounterInv(m),
           NEW t \in Threads, CountRealloc(t), req[t].op = "shrink"
    PROVE  CounterInv(m)'
  <1>1. /\ pc[t] = "reallocs" /\ pc'[t] = "cur_sub" /\ req' = req
        /\ UNCHANGED <<live, hdr, held, calls>> /\ Add("reallocs", 1)
    BY DEF TypeOK, CountRealloc, At, Goto, heapVars
  <1>2. \A u \in Threads : u # t => SameDebts(u)
    BY AccessIsLocal DEF Access
  <1>3. Fitting(t)'
    BY <1>1 DEF CounterInv, Fitting, InCall
  <1> DEFINE h == hdr[req[t].blk]
             d == req[t].delta
  <1>4. /\ Account(t, h, h + d, h + d, 0, 0, 0, 0)
        /\ h \in Nat /\ d \in Nat
    <2>1. h \in Nat /\ d \in Nat
      BY <1>1 DEF TypeOK, Requests, Ownership, InCall
    <2>2. QED
      BY <1>1, <2>1, AccountTable DEF Accounts, CounterInv
  <1>5. Moves(t, 0, 0, 0, 0, 0, 0, 0)
    <2>1. /\ Inside(t)' = h /\ Counted(t)' = h + d /\ Totalled(t)' = h + d
          /\ ToAllocate(t)' = 0 /\ ToClaim(t)' = 0
          /\ OwedOps(t)' = 0 /\ PendingOps(t)' = 0
      BY <1>1, <1>3, NextAccountTable DEF Accounts, Account
    <2> HIDE DEF h, d
    <2>2. QED
      BY <1>4, <2>1 DEF Moves, Account
  <1>6. Posts(0, 0, 0, 0, 0)
    BY <1>1, <1>4, AddPosts DEF Counters, Posts
  <1>7. Agree(m, 0, 0, 0, 0, 0, 0, 0, 0, 0, 0, 0, 0, 0, 0, 0)
    <2> HIDE DEF h, d
    <2>1. QED
      BY <1>1, <1>4 DEF Agree, Extra, TypeOK
  <1>8. Heap(0, 0, 0)
    BY <1>1, NoHeap DEF CounterInv
  <1> HIDE DEF h, d
  <1>9. QED
    BY <1>2, <1>3, <1>5, <1>6, <1>7, <1>8, DoubleEntry

LEMMA CountFreeEntry ==
    ASSUME NEW m \in Nat, Fits(m), TypeOK, Ownership, TypeOK', Ownership', CounterInv(m),
           NEW t \in Threads, CountFree(t), req[t].op = "free"
    PROVE  CounterInv(m)'
  <1>1. /\ pc[t] = "frees" /\ pc'[t] = "total_released" /\ req' = req
        /\ UNCHANGED <<live, hdr, held, calls>> /\ Add("free", 1)
    BY DEF TypeOK, CountFree, At, Goto, heapVars
  <1>2. \A u \in Threads : u # t => SameDebts(u)
    BY AccessIsLocal DEF Access
  <1>3. Fitting(t)'
    BY <1>1 DEF CounterInv, Fitting, InCall
  <1> DEFINE h == hdr[req[t].blk]
             d == req[t].delta
  <1>4. /\ Account(t, h, h, h, 0, 0, 0, 1)
        /\ h \in Nat /\ d \in Nat
    <2>1. h \in Nat /\ d \in Nat
      BY <1>1 DEF TypeOK, Requests, Ownership, InCall
    <2>2. QED
      BY <1>1, <2>1, AccountTable DEF Accounts, CounterInv
  <1>5. Moves(t, 0, 0, 0, 0, 0, -1, -1)
    <2>1. /\ Inside(t)' = h /\ Counted(t)' = h /\ Totalled(t)' = h
          /\ ToAllocate(t)' = 0 /\ ToClaim(t)' = 0
          /\ OwedOps(t)' = -1 /\ PendingOps(t)' = 0
      BY <1>1, <1>3, NextAccountTable DEF Accounts, Account
    <2> HIDE DEF h, d
    <2>2. QED
      BY <1>4, <2>1 DEF Moves, Account
  <1>6. Posts(0, 0, 0, 0, 1)
    BY <1>1, <1>4, AddPosts DEF Counters, Posts
  <1>7. Agree(m, 0, 0, 0, 0, 0, 0, 0, 1, 0, 0, 0, 0, 0, -1, -1)
    <2> HIDE DEF h, d
    <2>1. QED
      BY <1>1, <1>4 DEF Agree, Extra, TypeOK
  <1>8. Heap(0, 0, 0)
    BY <1>1, NoHeap DEF CounterInv
  <1> HIDE DEF h, d
  <1>9. QED
    BY <1>2, <1>3, <1>5, <1>6, <1>7, <1>8, DoubleEntry

LEMMA AddAllocatedEntry ==
    ASSUME NEW m \in Nat, Fits(m), TypeOK, Ownership, TypeOK', Ownership', CounterInv(m),
           NEW t \in Threads, AddAllocated(t)
    PROVE  CounterInv(m)'
  <1>1. /\ pc[t] = "total_allocated" /\ pc'[t] = "cur_add" /\ req' = req
        /\ UNCHANGED <<live, hdr, held, calls>> /\ Add("total_allocated", req[t].delta)
    BY DEF TypeOK, AddAllocated, At, Goto, heapVars
  <1>2. \A u \in Threads : u # t => SameDebts(u)
    BY AccessIsLocal DEF Access
  <1>3. Fitting(t)'
    BY <1>1 DEF CounterInv, Fitting, InCall
  <1> DEFINE h == hdr[req[t].blk]
             d == req[t].delta
  <1>4. /\ Account(t, h, h - d, h - d, d, d, 0, 0)
        /\ h \in Nat /\ d \in Nat
    <2>1. h \in Nat /\ d \in Nat
      BY <1>1 DEF TypeOK, Requests, Ownership, InCall
    <2>2. QED
      BY <1>1, <2>1, AccountTable DEF Accounts, CounterInv
  <1>5. Moves(t, 0, 0, d, -d, 0, 0, 0)
    <2>1. /\ Inside(t)' = h /\ Counted(t)' = h - d /\ Totalled(t)' = h
          /\ ToAllocate(t)' = 0 /\ ToClaim(t)' = d
          /\ OwedOps(t)' = 0 /\ PendingOps(t)' = 0
      BY <1>1, <1>3, NextAccountTable DEF Accounts, Account
    <2> HIDE DEF h, d
    <2>2. QED
      BY <1>4, <2>1 DEF Moves, Account
  <1>6. Posts(0, d, 0, 0, 0)
    BY <1>1, <1>4, AddPosts DEF Counters, Posts
  <1>7. Agree(m, 0, 0, 0, 0, d, 0, 0, 0, 0, 0, d, -d, 0, 0, 0)
    <2> HIDE DEF h, d
    <2>1. QED
      BY <1>1, <1>4 DEF Agree, Extra, TypeOK
  <1>8. Heap(0, 0, 0)
    BY <1>1, NoHeap DEF CounterInv
  <1> HIDE DEF h, d
  <1>9. QED
    BY <1>2, <1>3, <1>5, <1>6, <1>7, <1>8, DoubleEntry

LEMMA AddReleasedFreeEntry ==
    ASSUME NEW m \in Nat, Fits(m), TypeOK, Ownership, TypeOK', Ownership', CounterInv(m),
           NEW t \in Threads, AddReleased(t), req[t].op = "free"
    PROVE  CounterInv(m)'
  <1>1. /\ pc[t] = "total_released" /\ pc'[t] = "cur_sub" /\ req' = req
        /\ UNCHANGED <<live, hdr, held, calls>> /\ Add("total_released", req[t].delta)
    BY DEF TypeOK, AddReleased, At, Goto, heapVars
  <1>2. \A u \in Threads : u # t => SameDebts(u)
    BY AccessIsLocal DEF Access
  <1>3. Fitting(t)'
    BY <1>1 DEF CounterInv, Fitting, InCall
  <1> DEFINE h == hdr[req[t].blk]
             d == req[t].delta
  <1>4. /\ Account(t, h, h, h, 0, 0, -1, 0)
        /\ h \in Nat /\ d \in Nat
    <2>1. h \in Nat /\ d \in Nat
      BY <1>1 DEF TypeOK, Requests, Ownership, InCall
    <2>2. QED
      BY <1>1, <2>1, AccountTable DEF Accounts, CounterInv
  <1>5. Moves(t, 0, 0, -d, 0, 0, 0, 0)
    <2>1. /\ Inside(t)' = h /\ Counted(t)' = h /\ Totalled(t)' = h - d
          /\ ToAllocate(t)' = 0 /\ ToClaim(t)' = 0
          /\ OwedOps(t)' = -1 /\ PendingOps(t)' = 0
      BY <1>1, <1>3, NextAccountTable DEF Accounts, Account
    <2> HIDE DEF h, d
    <2>2. QED
      BY <1>4, <2>1 DEF Moves, Account
  <1>6. Posts(0, 0, d, 0, 0)
    BY <1>1, <1>4, AddPosts DEF Counters, Posts
  <1>7. Agree(m, 0, 0, 0, 0, 0, d, 0, 0, 0, 0, -d, 0, 0, 0, 0)
    <2> HIDE DEF h, d
    <2>1. QED
      BY <1>1, <1>4 DEF Agree, Extra, TypeOK
  <1>8. Heap(0, 0, 0)
    BY <1>1, NoHeap DEF CounterInv
  <1> HIDE DEF h, d
  <1>9. QED
    BY <1>2, <1>3, <1>5, <1>6, <1>7, <1>8, DoubleEntry

LEMMA UpdateReleaseFreeEntry ==
    ASSUME NEW m \in Nat, Fits(m), TypeOK, Ownership, TypeOK', Ownership', CounterInv(m),
           NEW t \in Threads, UpdateRelease(t), req[t].op = "free"
    PROVE  CounterInv(m)'
  <1>1. /\ pc[t] = "cur_sub" /\ pc'[t] = "libc_free" /\ req' = req
        /\ UNCHANGED <<live, hdr, held, calls>> /\ Add("current", -req[t].delta)
    BY DEF TypeOK, UpdateRelease, At, Goto, heapVars
  <1>2. \A u \in Threads : u # t => SameDebts(u)
    BY AccessIsLocal DEF Access
  <1>3. Fitting(t)'
    BY <1>1 DEF CounterInv, Fitting, InCall
  <1> DEFINE h == hdr[req[t].blk]
             d == req[t].delta
  <1>4. /\ Account(t, h, h, h - d, 0, 0, -1, 0) /\ d = h
        /\ h \in Nat /\ d \in Nat
    <2>1. h \in Nat /\ d \in Nat
      BY <1>1 DEF TypeOK, Requests, Ownership, InCall
    <2>2. QED
      BY <1>1, <2>1, AccountTable DEF Accounts, CounterInv, Fitting, InCall
  <1>5. Moves(t, 0, -d, 0, 0, 0, 0, 0)
    <2>1. /\ Inside(t)' = h /\ Counted(t)' = 0 /\ Totalled(t)' = 0
          /\ ToAllocate(t)' = 0 /\ ToClaim(t)' = 0
          /\ OwedOps(t)' = -1 /\ PendingOps(t)' = 0
      BY <1>1, <1>3, NextAccountTable DEF Accounts, Account
    <2> HIDE DEF h, d
    <2>2. QED
      BY <1>4, <2>1 DEF Moves, Account
  <1>6. Posts(-d, 0, 0, 0, 0)
    BY <1>1, <1>4, AddPosts DEF Counters, Posts
  <1>7. Agree(m, 0, 0, 0, -d, 0, 0, 0, 0, 0, -d, 0, 0, 0, 0, 0)
    <2> HIDE DEF h, d
    <2>1. QED
      BY <1>1, <1>4 DEF Agree, Extra, TypeOK
  <1>8. Heap(0, 0, 0)
    BY <1>1, NoHeap DEF CounterInv
  <1> HIDE DEF h, d
  <1>9. QED
    BY <1>2, <1>3, <1>5, <1>6, <1>7, <1>8, DoubleEntry

LEMMA UpdateReleaseShrinkEntry ==
    ASSUME NEW m \in Nat, Fits(m), TypeOK, Ownership, TypeOK', Ownership', CounterInv(m),
           NEW t \in Threads, UpdateRelease(t), req[t].op = "shrink"
    PROVE  CounterInv(m)'
  <1>1. /\ pc[t] = "cur_sub" /\ pc'[t] = "total_released" /\ req' = req
        /\ UNCHANGED <<live, hdr, held, calls>> /\ Add("current", -req[t].delta)
    BY DEF TypeOK, UpdateRelease, At, Goto, heapVars
  <1>2. \A u \in Threads : u # t => SameDebts(u)
    BY AccessIsLocal DEF Access
  <1>3. Fitting(t)'
    BY <1>1 DEF CounterInv, Fitting, InCall
  <1> DEFINE h == hdr[req[t].blk]
             d == req[t].delta
  <1>4. /\ Account(t, h, h + d, h + d, 0, 0, 0, 0)
        /\ h \in Nat /\ d \in Nat
    <2>1. h \in Nat /\ d \in Nat
      BY <1>1 DEF TypeOK, Requests, Ownership, InCall
    <2>2. QED
      BY <1>1, <2>1, AccountTable DEF Accounts, CounterInv
  <1>5. Moves(t, 0, -d, 0, 0, 0, 0, 0)
    <2>1. /\ Inside(t)' = h /\ Counted(t)' = h /\ Totalled(t)' = h + d
          /\ ToAllocate(t)' = 0 /\ ToClaim(t)' = 0
          /\ OwedOps(t)' = 0 /\ PendingOps(t)' = 0
      BY <1>1, <1>3, NextAccountTable DEF Accounts, Account
    <2> HIDE DEF h, d
    <2>2. QED
      BY <1>4, <2>1 DEF Moves, Account
  <1>6. Posts(-d, 0, 0, 0, 0)
    BY <1>1, <1>4, AddPosts DEF Counters, Posts
  <1>7. Agree(m, 0, 0, 0, -d, 0, 0, 0, 0, 0, -d, 0, 0, 0, 0, 0)
    <2> HIDE DEF h, d
    <2>1. QED
      BY <1>1, <1>4 DEF Agree, Extra, TypeOK
  <1>8. Heap(0, 0, 0)
    BY <1>1, NoHeap DEF CounterInv
  <1> HIDE DEF h, d
  <1>9. QED
    BY <1>2, <1>3, <1>5, <1>6, <1>7, <1>8, DoubleEntry

LEMMA AddReleasedShrinkEntry ==
    ASSUME NEW m \in Nat, Fits(m), TypeOK, Ownership, TypeOK', Ownership', CounterInv(m),
           NEW t \in Threads, AddReleased(t), req[t].op = "shrink"
    PROVE  CounterInv(m)'
  <1>1. /\ pc[t] = "total_released" /\ pc'[t] = "idle" /\ held' = held \cup {req[t].blk}
        /\ UNCHANGED <<live, hdr, calls>> /\ Add("total_released", req[t].delta)
    BY DEF TypeOK, Return, AddReleased, At, heapVars
  <1>2. \A u \in Threads : u # t => SameDebts(u)
    BY AccessIsLocal DEF Access
  <1>3. Fitting(t)'
    BY <1>1 DEF CounterInv, Fitting, InCall
  <1> DEFINE h == hdr[req[t].blk]
             d == req[t].delta
  <1>4. /\ Account(t, h, h, h + d, 0, 0, 0, 0)
        /\ h \in Nat /\ d \in Nat
    <2>1. h \in Nat /\ d \in Nat
      BY <1>1 DEF TypeOK, Requests, Ownership, InCall
    <2>2. QED
      BY <1>1, <2>1, AccountTable DEF Accounts, CounterInv
  <1>5. Moves(t, -h, -h, -(h + d), 0, 0, 0, 0)
    <2>1. /\ Inside(t)' = 0 /\ Counted(t)' = 0 /\ Totalled(t)' = 0
          /\ ToAllocate(t)' = 0 /\ ToClaim(t)' = 0
          /\ OwedOps(t)' = 0 /\ PendingOps(t)' = 0
      BY <1>1, <1>3, NextAccountTable DEF Accounts, Account
    <2> HIDE DEF h, d
    <2>2. QED
      BY <1>4, <2>1 DEF Moves, Account
  <1>6. Posts(0, 0, d, 0, 0)
    BY <1>1, <1>4, AddPosts DEF Counters, Posts
  <1>7. Agree(m, h, 0, 0, 0, 0, d, 0, 0, -h, -h, -(h + d), 0, 0, 0, 0)
    <2> HIDE DEF h, d
    <2>1. QED
      BY <1>1, <1>4 DEF Agree, Extra, TypeOK
  <1>8. Heap(h, 0, 0)
    <2>1. InCall(t)
      BY <1>1 DEF InCall
    <2>2. QED
      BY <1>1, <2>1, ReturnHeap DEF CounterInv
  <1> HIDE DEF h, d
  <1>9. QED
    BY <1>2, <1>3, <1>5, <1>6, <1>7, <1>8, DoubleEntry

\* A block that goes back to libc.
LEMMA FreedHeap ==
    ASSUME TypeOK, Ownership, IsFiniteSet(live), NEW t \in Threads, InCall(t),
           live' = live \ {req[t].blk}, UNCHANGED <<held, hdr>>
    PROVE  Heap(0, -hdr[req[t].blk], -1)
  <1> DEFINE b == req[t].blk
  <1>1. b \in live /\ hdr[b] \in Int /\ \A x \in live : hdr[x] \in Int
    BY DEF TypeOK, Ownership
  <1>2. HeldBytes \in Int /\ LiveBytes \in Int /\ Cardinality(live) \in Nat
    BY HeapTypes DEF HeapTyped
  <1> HIDE DEF b
  <1>3. /\ IsFiniteSet(live \ {b})
        /\ Cardinality(live \ {b}) = Cardinality(live) - 1
    BY <1>1, FS_RemoveElement
  <1>4. Sum(hdr, live) = hdr[b] + Sum(hdr, live \ {b})
    BY <1>1, SumRemove
  <1>5. Sum(hdr, live \ {b}) \in Int
    BY <1>1, <1>3, SumType
  <1>6. LiveBytes' = Sum(hdr, live \ {b}) /\ LiveBytes = Sum(hdr, live)
    BY DEF LiveBytes, Sum, b
  <1>7. LiveBytes' = LiveBytes + (-hdr[b])
    BY <1>1, <1>4, <1>5, <1>6
  <1>8. /\ HeldBytes' = HeldBytes + 0 /\ IsFiniteSet(live')
        /\ Cardinality(live)' = Cardinality(live) + (-1)
    BY <1>2, <1>3 DEF HeldBytes, b
  <1>9. QED
    BY <1>7, <1>8 DEF Heap, b

\* The counters the accounts are about.
Posted == {"current", "total_allocated", "total_released", "allocs", "free"}

LEMMA UpdateAllocAddEntry ==
    ASSUME NEW m \in Nat, Fits(m), TypeOK, Ownership, TypeOK', Ownership', CounterInv(m),
           NEW t \in Threads, UpdateAllocAdd(t)
    PROVE  CounterInv(m)'
  <1>1. /\ pc[t] = "cur_add" /\ pc'[t] = "load_max" /\ req'[t].blk = req[t].blk /\ req'[t].op = req[t].op
        /\ req'[t].delta = req[t].delta
        /\ UNCHANGED <<live, hdr, held, calls>> /\ Add("current", req[t].delta)
    BY DEF TypeOK, Requests, UpdateAllocAdd, Add, At, Goto, heapVars
  <1>2. \A u \in Threads : u # t => SameDebts(u)
    BY AccessIsLocal DEF Access
  <1>3. Fitting(t)'
    BY <1>1 DEF CounterInv, Fitting, InCall
  <1> DEFINE h == hdr[req[t].blk]
             d == req[t].delta
  <1>4. /\ Account(t, h, h - d, h, 0, d, 0, 0)
        /\ h \in Nat /\ d \in Nat
    <2>1. h \in Nat /\ d \in Nat
      BY <1>1 DEF TypeOK, Requests, Ownership, InCall
    <2>2. QED
      BY <1>1, <2>1, AccountTable DEF Accounts, CounterInv
  <1>5. Moves(t, 0, d, 0, 0, -d, 0, 0)
    <2>1. /\ Inside(t)' = h /\ Counted(t)' = h /\ Totalled(t)' = h
          /\ ToAllocate(t)' = 0 /\ ToClaim(t)' = 0
          /\ OwedOps(t)' = 0 /\ PendingOps(t)' = 0
      BY <1>1, <1>3, NextAccountTable DEF Accounts, Account
    <2> HIDE DEF h, d
    <2>2. QED
      BY <1>4, <2>1 DEF Moves, Account
  <1>6. Posts(d, 0, 0, 0, 0)
    BY <1>1, <1>4, AddPosts DEF Counters, Posts
  <1>7. Agree(m, 0, 0, 0, d, 0, 0, 0, 0, 0, d, 0, 0, -d, 0, 0)
    <2> HIDE DEF h, d
    <2>1. QED
      BY <1>1, <1>4 DEF Agree, Extra, TypeOK
  <1>8. Heap(0, 0, 0)
    BY <1>1, NoHeap DEF CounterInv
  <1> HIDE DEF h, d
  <1>9. QED
    BY <1>2, <1>3, <1>5, <1>6, <1>7, <1>8, DoubleEntry

LEMMA LoadEntry ==
    ASSUME NEW m \in Nat, Fits(m), TypeOK, Ownership, TypeOK', Ownership', CounterInv(m),
           NEW t \in Threads, UpdateAllocLoad(t), ~Return(t)
    PROVE  CounterInv(m)'
  <1>1. /\ pc[t] = "load_max" /\ pc'[t] = "cas" /\ req'[t].blk = req[t].blk /\ req'[t].op = req[t].op
        /\ req'[t].delta = req[t].delta
        /\ UNCHANGED <<live, hdr, held, calls>> /\ (\A c \in Posted : ms'[c] = ms[c])
    BY DEF TypeOK, Requests, Counters, Posted, UpdateAllocLoad, At, Goto, heapVars
  <1>2. \A u \in Threads : u # t => SameDebts(u)
    BY AccessIsLocal DEF Access
  <1>3. Fitting(t)'
    BY <1>1 DEF CounterInv, Fitting, InCall
  <1> DEFINE h == hdr[req[t].blk]
             d == req[t].delta
  <1>4. /\ Account(t, h, h, h, 0, 0, 0, 0)
        /\ h \in Nat /\ d \in Nat
    <2>1. h \in Nat /\ d \in Nat
      BY <1>1 DEF TypeOK, Requests, Ownership, InCall
    <2>2. QED
      BY <1>1, <2>1, AccountTable DEF Accounts, CounterInv
  <1>5. Moves(t, 0, 0, 0, 0, 0, 0, 0)
    <2>1. /\ Inside(t)' = h /\ Counted(t)' = h /\ Totalled(t)' = h
          /\ ToAllocate(t)' = 0 /\ ToClaim(t)' = 0
          /\ OwedOps(t)' = 0 /\ PendingOps(t)' = 0
      BY <1>1, <1>3, NextAccountTable DEF Accounts, Account
    <2> HIDE DEF h, d
    <2>2. QED
      BY <1>4, <2>1 DEF Moves, Account
  <1>6. Posts(0, 0, 0, 0, 0)
    BY <1>1, CounterValues DEF Counters, Posts, Posted
  <1>7. Agree(m, 0, 0, 0, 0, 0, 0, 0, 0, 0, 0, 0, 0, 0, 0, 0)
    <2> HIDE DEF h, d
    <2>1. QED
      BY <1>1, <1>4 DEF Agree, Extra, TypeOK
  <1>8. Heap(0, 0, 0)
    BY <1>1, NoHeap DEF CounterInv
  <1> HIDE DEF h, d
  <1>9. QED
    BY <1>2, <1>3, <1>5, <1>6, <1>7, <1>8, DoubleEntry

LEMMA LoadReturnEntry ==
    ASSUME NEW m \in Nat, Fits(m), TypeOK, Ownership, TypeOK', Ownership', CounterInv(m),
           NEW t \in Threads, UpdateAllocLoad(t), Return(t)
    PROVE  CounterInv(m)'
  <1>1. /\ pc[t] = "load_max" /\ pc'[t] = "idle" /\ held' = held \cup {req[t].blk}
        /\ UNCHANGED <<live, hdr, calls>> /\ (\A c \in Posted : ms'[c] = ms[c])
    BY DEF TypeOK, Return, Requests, Counters, Posted, UpdateAllocLoad, Fitting,
       CounterInv, At, heapVars
  <1>2. \A u \in Threads : u # t => SameDebts(u)
    BY AccessIsLocal DEF Access
  <1>3. Fitting(t)'
    BY <1>1 DEF CounterInv, Fitting, InCall
  <1> DEFINE h == hdr[req[t].blk]
             d == req[t].delta
  <1>4. /\ Account(t, h, h, h, 0, 0, 0, 0)
        /\ h \in Nat /\ d \in Nat
    <2>1. h \in Nat /\ d \in Nat
      BY <1>1 DEF TypeOK, Requests, Ownership, InCall
    <2>2. QED
      BY <1>1, <2>1, AccountTable DEF Accounts, CounterInv
  <1>5. Moves(t, -h, -h, -h, 0, 0, 0, 0)
    <2>1. /\ Inside(t)' = 0 /\ Counted(t)' = 0 /\ Totalled(t)' = 0
          /\ ToAllocate(t)' = 0 /\ ToClaim(t)' = 0
          /\ OwedOps(t)' = 0 /\ PendingOps(t)' = 0
      BY <1>1, <1>3, NextAccountTable DEF Accounts, Account
    <2> HIDE DEF h, d
    <2>2. QED
      BY <1>4, <2>1 DEF Moves, Account
  <1>6. Posts(0, 0, 0, 0, 0)
    BY <1>1, CounterValues DEF Counters, Posts, Posted
  <1>7. Agree(m, h, 0, 0, 0, 0, 0, 0, 0, -h, -h, -h, 0, 0, 0, 0)
    <2> HIDE DEF h, d
    <2>1. QED
      BY <1>1, <1>4 DEF Agree, Extra, TypeOK
  <1>8. Heap(h, 0, 0)
    <2>1. InCall(t)
      BY <1>1 DEF InCall
    <2>2. QED
      BY <1>1, <2>1, ReturnHeap DEF CounterInv
  <1> HIDE DEF h, d
  <1>9. QED
    BY <1>2, <1>3, <1>5, <1>6, <1>7, <1>8, DoubleEntry

LEMMA CasEntry ==
    ASSUME NEW m \in Nat, Fits(m), TypeOK, Ownership, TypeOK', Ownership', CounterInv(m),
           NEW t \in Threads, UpdateAllocCas(t), ~Return(t)
    PROVE  CounterInv(m)'
  <1>1. /\ pc[t] = "cas" /\ pc'[t] = "cas" /\ req'[t].blk = req[t].blk /\ req'[t].op = req[t].op
        /\ req'[t].delta = req[t].delta
        /\ UNCHANGED <<live, hdr, held, calls>> /\ (\A c \in Posted : ms'[c] = ms[c])
    BY DEF TypeOK, Requests, Counters, Posted, UpdateAllocCas, At, Goto, heapVars
  <1>2. \A u \in Threads : u # t => SameDebts(u)
    BY AccessIsLocal DEF Access
  <1>3. Fitting(t)'
    BY <1>1 DEF CounterInv, Fitting, InCall
  <1> DEFINE h == hdr[req[t].blk]
             d == req[t].delta
  <1>4. /\ Account(t, h, h, h, 0, 0, 0, 0)
        /\ h \in Nat /\ d \in Nat
    <2>1. h \in Nat /\ d \in Nat
      BY <1>1 DEF TypeOK, Requests, Ownership, InCall
    <2>2. QED
      BY <1>1, <2>1, AccountTable DEF Accounts, CounterInv
  <1>5. Moves(t, 0, 0, 0, 0, 0, 0, 0)
    <2>1. /\ Inside(t)' = h /\ Counted(t)' = h /\ Totalled(t)' = h
          /\ ToAllocate(t)' = 0 /\ ToClaim(t)' = 0
          /\ OwedOps(t)' = 0 /\ PendingOps(t)' = 0
      BY <1>1, <1>3, NextAccountTable DEF Accounts, Account
    <2> HIDE DEF h, d
    <2>2. QED
      BY <1>4, <2>1 DEF Moves, Account
  <1>6. Posts(0, 0, 0, 0, 0)
    BY <1>1, CounterValues DEF Counters, Posts, Posted
  <1>7. Agree(m, 0, 0, 0, 0, 0, 0, 0, 0, 0, 0, 0, 0, 0, 0, 0)
    <2> HIDE DEF h, d
    <2>1. QED
      BY <1>1, <1>4 DEF Agree, Extra, TypeOK
  <1>8. Heap(0, 0, 0)
    BY <1>1, NoHeap DEF CounterInv
  <1> HIDE DEF h, d
  <1>9. QED
    BY <1>2, <1>3, <1>5, <1>6, <1>7, <1>8, DoubleEntry

LEMMA CasReturnEntry ==
    ASSUME NEW m \in Nat, Fits(m), TypeOK, Ownership, TypeOK', Ownership', CounterInv(m),
           NEW t \in Threads, UpdateAllocCas(t), Return(t)
    PROVE  CounterInv(m)'
  <1>1. /\ pc[t] = "cas" /\ pc'[t] = "idle" /\ held' = held \cup {req[t].blk}
        /\ UNCHANGED <<live, hdr, calls>> /\ (\A c \in Posted : ms'[c] = ms[c])
    BY DEF TypeOK, Return, Requests, Counters, Posted, UpdateAllocCas, Fitting,
       CounterInv, At, heapVars
  <1>2. \A u \in Threads : u # t => SameDebts(u)
    BY AccessIsLocal DEF Access
  <1>3. Fitting(t)'
    BY <1>1 DEF CounterInv, Fitting, InCall
  <1> DEFINE h == hdr[req[t].blk]
             d == req[t].delta
  <1>4. /\ Account(t, h, h, h, 0, 0, 0, 0)
        /\ h \in Nat /\ d \in Nat
    <2>1. h \in Nat /\ d \in Nat
      BY <1>1 DEF TypeOK, Requests, Ownership, InCall
    <2>2. QED
      BY <1>1, <2>1, AccountTable DEF Accounts, CounterInv
  <1>5. Moves(t, -h, -h, -h, 0, 0, 0, 0)
    <2>1. /\ Inside(t)' = 0 /\ Counted(t)' = 0 /\ Totalled(t)' = 0
          /\ ToAllocate(t)' = 0 /\ ToClaim(t)' = 0
          /\ OwedOps(t)' = 0 /\ PendingOps(t)' = 0
      BY <1>1, <1>3, NextAccountTable DEF Accounts, Account
    <2> HIDE DEF h, d
    <2>2. QED
      BY <1>4, <2>1 DEF Moves, Account
  <1>6. Posts(0, 0, 0, 0, 0)
    BY <1>1, CounterValues DEF Counters, Posts, Posted
  <1>7. Agree(m, h, 0, 0, 0, 0, 0, 0, 0, -h, -h, -h, 0, 0, 0, 0)
    <2> HIDE DEF h, d
    <2>1. QED
      BY <1>1, <1>4 DEF Agree, Extra, TypeOK
  <1>8. Heap(h, 0, 0)
    <2>1. InCall(t)
      BY <1>1 DEF InCall
    <2>2. QED
      BY <1>1, <2>1, ReturnHeap DEF CounterInv
  <1> HIDE DEF h, d
  <1>9. QED
    BY <1>2, <1>3, <1>5, <1>6, <1>7, <1>8, DoubleEntry

LEMMA LibcFreeEntry ==
    ASSUME NEW m \in Nat, Fits(m), TypeOK, Ownership, TypeOK', Ownership', CounterInv(m),
           NEW t \in Threads, LibcFree(t), req[t].op = "free"
    PROVE  CounterInv(m)'
  <1>1. /\ pc[t] = "libc_free" /\ pc'[t] = "idle" /\ live' = live \ {req[t].blk}
        /\ UNCHANGED <<held, hdr, calls>> /\ ms' = ms
    BY DEF TypeOK, Return, Posted, LibcFree, At, heapVars
  <1>2. \A u \in Threads : u # t => SameDebts(u)
    BY AccessIsLocal DEF Access
  <1>3. Fitting(t)'
    BY <1>1 DEF CounterInv, Fitting, InCall
  <1> DEFINE h == hdr[req[t].blk]
             d == req[t].delta
  <1>4. /\ Account(t, h, 0, 0, 0, 0, -1, 0)
        /\ h \in Nat /\ d \in Nat
    <2>1. h \in Nat /\ d \in Nat
      BY <1>1 DEF TypeOK, Requests, Ownership, InCall
    <2>2. QED
      BY <1>1, <2>1, AccountTable DEF Accounts, CounterInv
  <1>5. Moves(t, -h, 0, 0, 0, 0, 1, 0)
    <2>1. /\ Inside(t)' = 0 /\ Counted(t)' = 0 /\ Totalled(t)' = 0
          /\ ToAllocate(t)' = 0 /\ ToClaim(t)' = 0
          /\ OwedOps(t)' = 0 /\ PendingOps(t)' = 0
      BY <1>1, <1>3, NextAccountTable DEF Accounts, Account
    <2> HIDE DEF h, d
    <2>2. QED
      BY <1>4, <2>1 DEF Moves, Account
  <1>6. Posts(0, 0, 0, 0, 0)
    BY <1>1, CounterValues DEF Counters, Posts, Posted
  <1>7. Agree(m, 0, -h, -1, 0, 0, 0, 0, 0, -h, 0, 0, 0, 0, 1, 0)
    <2> HIDE DEF h, d
    <2>1. QED
      BY <1>1, <1>4 DEF Agree, Extra, TypeOK
  <1>8. Heap(0, -h, -1)
    <2>1. InCall(t)
      BY <1>1 DEF InCall
    <2>2. QED
      BY <1>1, <2>1, FreedHeap DEF CounterInv
  <1> HIDE DEF h, d
  <1>9. QED
    BY <1>2, <1>3, <1>5, <1>6, <1>7, <1>8, DoubleEntry

LEMMA AccessCounters ==
    ASSUME NEW m \in Nat, Fits(m), TypeOK, Ownership, TypeOK', Ownership', CounterInv(m),
           NEW t \in Threads, Access(t)
    PROVE  CounterInv(m)'
  <1>0. Fitting(t)
    BY DEF CounterInv
  <1>1. ASSUME CountAlloc(t) PROVE CounterInv(m)'
    BY <1>1, CountAllocEntry
  <1>2. ASSUME CountRealloc(t) PROVE CounterInv(m)'
    <2>1. req[t].op \in {"grow", "shrink"}
      BY <1>0, <1>2 DEF CountRealloc, At, Fitting
    <2>2. QED
      BY <1>2, <2>1, CountGrowEntry, CountShrinkEntry
  <1>3. ASSUME CountFree(t) PROVE CounterInv(m)'
    <2>1. req[t].op = "free"
      BY <1>0, <1>3 DEF CountFree, At, Fitting
    <2>2. QED
      BY <1>3, <2>1, CountFreeEntry
  <1>4. ASSUME AddAllocated(t) PROVE CounterInv(m)'
    BY <1>4, AddAllocatedEntry
  <1>5. ASSUME AddReleased(t) PROVE CounterInv(m)'
    <2>1. req[t].op \in {"free", "shrink"}
      BY <1>0, <1>5 DEF AddReleased, At, Fitting
    <2>2. QED
      BY <1>5, <2>1, AddReleasedFreeEntry, AddReleasedShrinkEntry
  <1>6. ASSUME UpdateRelease(t) PROVE CounterInv(m)'
    <2>1. req[t].op \in {"free", "shrink"}
      BY <1>0, <1>6 DEF UpdateRelease, At, Fitting
    <2>2. QED
      BY <1>6, <2>1, UpdateReleaseFreeEntry, UpdateReleaseShrinkEntry
  <1>7. ASSUME UpdateAllocAdd(t) PROVE CounterInv(m)'
    BY <1>7, UpdateAllocAddEntry
  <1>8. ASSUME UpdateAllocLoad(t) PROVE CounterInv(m)'
    BY <1>8, LoadEntry, LoadReturnEntry
  <1>9. ASSUME UpdateAllocCas(t) PROVE CounterInv(m)'
    BY <1>9, CasEntry, CasReturnEntry
  <1>10. ASSUME LibcFree(t) PROVE CounterInv(m)'
    <2>1. req[t].op = "free"
      BY <1>0, <1>10 DEF LibcFree, At, Fitting
    <2>2. QED
      BY <1>10, <2>1, LibcFreeEntry
  <1>11. QED
    BY <1>1, <1>2, <1>3, <1>4, <1>5, <1>6, <1>7, <1>8, <1>9, <1>10 DEF Access

-----------------------------------------------------------------------------
\* Calls into the wrappers: what they do to the heap.
LEMMA MallocHeap ==
    ASSUME TypeOK, Ownership, IsFiniteSet(live), NEW b \in Blocks \ live, NEW sz \in Nat,
           live' = live \cup {b}, hdr' = [hdr EXCEPT ![b] = sz], held' = held
    PROVE  Heap(0, sz, 1)
  <1>1. /\ hdr'[b] = sz /\ \A x \in live : hdr'[x] = hdr[x]
        /\ \A x \in live : hdr[x] \in Int
        /\ held \subseteq live /\ IsFiniteSet(held) /\ LiveBytes \in Int
        /\ HeldBytes \in Int /\ Cardinality(live) \in Nat
    BY HeapTypes DEF TypeOK, Ownership, HeapTyped
  <1>2. /\ IsFiniteSet(live \cup {b})
        /\ Cardinality(live \cup {b}) = Cardinality(live) + 1
    BY FS_AddElement
  <1>3. HeldBytes' = HeldBytes + 0
    <2>1. Sum(hdr', held) = Sum(hdr, held)
      BY <1>1, SumSame
    <2>2. QED
      BY <1>1, <2>1 DEF HeldBytes
  <1>4. LiveBytes' = LiveBytes + sz
    <2>1. Sum(hdr', live) = Sum(hdr, live)
      BY <1>1, SumSame
    <2>2. Sum(hdr', live \cup {b}) = Sum(hdr', live) + sz
      <3> DEFINE g == hdr'
      <3>1. b \notin live /\ g[b] = sz /\ g[b] \in Int /\ \A x \in live : g[x] \in Int
        BY <1>1
      <3> HIDE DEF g
      <3>2. Sum(g, live \cup {b}) = Sum(g, live) + g[b]
        BY ONLY <3>1, IsFiniteSet(live), SumAdd
      <3>3. QED
        BY <3>1, <3>2 DEF g
    <2>3. QED
      BY <2>1, <2>2 DEF LiveBytes, Sum
  <1>5. QED
    BY <1>2, <1>3, <1>4 DEF Heap

LEMMA FreeHeap ==
    ASSUME TypeOK, Ownership, IsFiniteSet(live), NEW b \in held,
           held' = held \ {b}, UNCHANGED <<live, hdr>>
    PROVE  Heap(-hdr[b], 0, 0)
  <1>1. /\ b \in live /\ hdr[b] \in Int /\ \A x \in held : hdr[x] \in Int
        /\ IsFiniteSet(held) /\ LiveBytes \in Int /\ Cardinality(live) \in Nat
        /\ HeldBytes \in Int
    BY HeapTypes DEF TypeOK, Ownership, HeapTyped
  <1>2. Sum(hdr, held) = hdr[b] + Sum(hdr, held \ {b})
    BY <1>1, SumRemove
  <1>3. Sum(hdr, held \ {b}) \in Int
    <2>1. IsFiniteSet(held \ {b})
      BY <1>1, FS_Subset
    <2>2. QED
      BY <1>1, <2>1, SumType
  <1>4. HeldBytes' = Sum(hdr, held \ {b}) /\ HeldBytes = Sum(hdr, held)
    BY DEF HeldBytes
  <1>5. HeldBytes' = HeldBytes + (-hdr[b])
    BY <1>1, <1>2, <1>3, <1>4
  <1>6. /\ LiveBytes' = LiveBytes + 0 /\ Cardinality(live)' = Cardinality(live) + 0
        /\ IsFiniteSet(live')
    BY <1>1 DEF LiveBytes
  <1>7. QED
    BY <1>5, <1>6 DEF Heap

LEMMA ReallocHeap ==
    ASSUME TypeOK, Ownership, IsFiniteSet(live), NEW b \in held,
           NEW nb \in {b} \cup (Blocks \ live), NEW sz \in Nat, held' = held \ {b},
           live' = (live \ {b}) \cup {nb}, hdr' = [hdr EXCEPT ![nb] = sz]
    PROVE  Heap(-hdr[b], sz - hdr[b], 0)
  <1> DEFINE h == hdr[b]
             L == live \ {b}
             H == held \ {b}
             g == hdr'
  <1>1. /\ h \in Int /\ b \in live /\ b \in held /\ nb \in Blocks
        /\ \A x \in live : hdr[x] \in Int
        /\ \A x \in held : hdr[x] \in Int
        /\ HeldBytes \in Int /\ LiveBytes \in Int /\ Cardinality(live) \in Nat
        /\ IsFiniteSet(held)
    BY HeapTypes DEF TypeOK, Ownership, HeapTyped
  <1>2. nb \notin L /\ g[nb] = sz /\ \A x \in L : g[x] = hdr[x] /\ g[x] \in Int
    BY <1>1 DEF TypeOK
  <1>3. \A x \in H : g[x] = hdr[x]
    BY <1>2 DEF Ownership
  <1>4. IsFiniteSet(L) /\ IsFiniteSet(H) /\ Cardinality(L) = Cardinality(live) - 1
    BY <1>1, FS_Subset, FS_RemoveElement
  <1>5. IsFiniteSet(L \cup {nb}) /\ Cardinality(L \cup {nb}) = Cardinality(L) + 1
    BY <1>2, <1>4, FS_AddElement
  <1>6. Sum(hdr, live) = h + Sum(hdr, L)
    BY <1>1, SumRemove
  <1>7. Sum(hdr, held) = h + Sum(hdr, H)
    BY <1>1, SumRemove
  <1>8. Sum(hdr, L) \in Int /\ Sum(hdr, H) \in Int
    BY <1>1, <1>4, SumType
  <1>9. /\ LiveBytes = Sum(hdr, live) /\ HeldBytes = Sum(hdr, held)
        /\ LiveBytes' = Sum(g, L \cup {nb}) /\ HeldBytes' = Sum(g, H)
        /\ live' = L \cup {nb}
    BY DEF LiveBytes, HeldBytes, Sum
  <1> HIDE DEF h, L, H, g
  <1>10. Sum(g, L) = Sum(hdr, L)
    BY <1>2, <1>4, SumSame
  <1>11. Sum(g, H) = Sum(hdr, H)
    BY <1>3, <1>4, SumSame
  <1>12. Sum(g, L \cup {nb}) = Sum(g, L) + sz
    <2>1. /\ nb \notin L /\ g[nb] \in Int /\ IsFiniteSet(L)
          /\ \A x \in L : g[x] \in Int
      BY <1>2, <1>4
    <2>2. Sum(g, L \cup {nb}) = Sum(g, L) + g[nb]
      BY ONLY <2>1, SumAdd
    <2>3. QED
      BY <1>2, <2>2
  <1>13. HeldBytes' = HeldBytes + (-h)
    BY <1>1, <1>7, <1>8, <1>9, <1>11
  <1>14. LiveBytes' = LiveBytes + (sz - h)
    BY <1>1, <1>6, <1>8, <1>9, <1>10, <1>12
  <1>15. Cardinality(live)' = Cardinality(live) + 0 /\ IsFiniteSet(live')
    <2>1. Cardinality(live') = Cardinality(L \cup {nb}) /\ IsFiniteSet(live')
      BY <1>5, <1>9, Zenon
    <2>2. QED
      BY <1>1, <1>4, <1>5, <2>1
  <1>16. QED
    BY <1>13, <1>14, <1>15 DEF Heap, h

LEMMA EnterFacts ==
    ASSUME TypeOK, NEW t \in Threads, NEW op, NEW b, NEW d, NEW l, Enter(t, op, b, d, l)
    PROVE  /\ pc'[t] = l /\ req'[t].op = op /\ req'[t].blk = b /\ req'[t].delta = d
           /\ ms' = ms
           /\ \A u \in Threads : u # t => pc'[u] = pc[u] /\ req'[u] = req[u]
  BY DEF TypeOK, Enter, NoReq

\* The account of a thread that makes a call, before it does.
LEMMA CallerAccount ==
    ASSUME TypeOK, Ownership, NEW t \in Threads, Fitting(t), CanCall(t)
    PROVE  Account(t, 0, 0, 0, 0, 0, 0, 0) /\ pc[t] = "idle"
  BY AccountTable DEF Accounts, CanCall

LEMMA NothingPosted == ASSUME TypeOK, ms' = ms PROVE Posts(0, 0, 0, 0, 0)
  BY CounterValues DEF Posts, Counters

LEMMA MallocEntry ==
    ASSUME NEW m \in Nat, Fits(m), TypeOK, Ownership, TypeOK', Ownership', CounterInv(m),
           NEW t \in Threads, NEW sz \in Sizes, MallocStats(t, sz)
    PROVE  CounterInv(m)'
  <1>1. PICK b \in Blocks \ live :
          /\ live' = live \cup {b} /\ hdr' = [hdr EXCEPT ![b] = sz]
          /\ Enter(t, "malloc", b, sz, "allocs")
    BY DEF MallocStats
  <1>2. /\ CanCall(t) /\ calls' = calls + 1 /\ held' = held /\ sz \in Nat /\ sz <= m
    BY SizesAssumption DEF MallocStats, Fits
  <1>3. /\ pc'[t] = "allocs" /\ req'[t].op = "malloc" /\ req'[t].blk = b
        /\ req'[t].delta = sz /\ ms' = ms
        /\ \A u \in Threads : u # t => pc'[u] = pc[u] /\ req'[u] = req[u]
    BY <1>1, EnterFacts
  <1>4. hdr'[b] = sz
    BY <1>1 DEF TypeOK
  <1>5. \A u \in Threads : u # t => SameDebts(u)
    BY <1>1, <1>3 DEF SameDebts, TypeOK, Ownership
  <1>6. Fitting(t)'
    BY <1>3, <1>4 DEF Fitting, InCall
  <1>7. Heap(0, sz, 1)
    BY <1>1, <1>2, MallocHeap DEF CounterInv
  <1>8. Moves(t, sz, 0, 0, sz, sz, -1, 1)
    <2>1. Account(t, 0, 0, 0, 0, 0, 0, 0)
      BY <1>2, CallerAccount DEF CounterInv
    <2>2. /\ Inside(t)' = sz /\ Counted(t)' = 0 /\ Totalled(t)' = 0
          /\ ToAllocate(t)' = sz /\ ToClaim(t)' = sz
          /\ OwedOps(t)' = -1 /\ PendingOps(t)' = 1
      BY <1>3, <1>4, <1>6, NextAccountTable DEF Accounts, Account
    <2>3. QED
      BY <1>2, <2>1, <2>2 DEF Moves, Account
  <1>9. Posts(0, 0, 0, 0, 0)
    BY <1>3, NothingPosted
  <1>10. Agree(m, 0, sz, 1, 0, 0, 0, 0, 0, sz, 0, 0, sz, sz, -1, 1)
    BY <1>2 DEF Agree, Extra, TypeOK
  <1>11. QED
    BY <1>5, <1>6, <1>7, <1>8, <1>9, <1>10, DoubleEntry

LEMMA FreeEntry ==
    ASSUME NEW m \in Nat, Fits(m), TypeOK, Ownership, TypeOK', Ownership', CounterInv(m),
           NEW t \in Threads, NEW b \in held, FreeStats(t, b)
    PROVE  CounterInv(m)'
  <1> DEFINE h == hdr[b]
  <1>1. /\ CanCall(t) /\ calls' = calls + 1 /\ held' = held \ {b}
        /\ UNCHANGED <<live, hdr>> /\ Enter(t, "free", b, h, "frees") /\ h \in Nat
    BY DEF FreeStats, heapVars, TypeOK
  <1>2. /\ pc'[t] = "frees" /\ req'[t].op = "free" /\ req'[t].blk = b
        /\ req'[t].delta = h /\ ms' = ms
        /\ \A u \in Threads : u # t => pc'[u] = pc[u] /\ req'[u] = req[u]
    BY <1>1, EnterFacts
  <1>3. \A u \in Threads : u # t => SameDebts(u)
    BY <1>1, <1>2 DEF SameDebts
  <1>4. Fitting(t)'
    BY <1>1, <1>2 DEF Fitting, InCall
  <1>5. Heap(-h, 0, 0)
    BY <1>1, FreeHeap DEF CounterInv
  <1>6. hdr'[req'[t].blk] = h
    BY <1>1, <1>2
  <1> HIDE DEF h
  <1>7. Moves(t, h, h, h, 0, 0, 0, 1)
    <2>1. Account(t, 0, 0, 0, 0, 0, 0, 0)
      BY <1>1, CallerAccount DEF CounterInv
    <2>2. /\ Inside(t)' = h /\ Counted(t)' = h /\ Totalled(t)' = h
          /\ ToAllocate(t)' = 0 /\ ToClaim(t)' = 0
          /\ OwedOps(t)' = 0 /\ PendingOps(t)' = 1
      BY <1>2, <1>4, <1>6, NextAccountTable DEF Accounts, Account
    <2>3. QED
      BY <1>1, <2>1, <2>2 DEF Moves, Account
  <1>8. Posts(0, 0, 0, 0, 0)
    BY <1>2, NothingPosted
  <1>9. Agree(m, -h, 0, 0, 0, 0, 0, 0, 0, h, h, h, 0, 0, 0, 1)
    BY <1>1 DEF Agree, Extra, TypeOK
  <1>10. QED
    BY <1>3, <1>4, <1>5, <1>7, <1>8, <1>9, DoubleEntry

LEMMA ReallocEntry ==
    ASSUME NEW m \in Nat, Fits(m), TypeOK, Ownership, TypeOK', Ownership', CounterInv(m),
           NEW t \in Threads, NEW b \in held, NEW sz \in Sizes, ReallocStats(t, b, sz)
    PROVE  CounterInv(m)'
  <1> DEFINE h == hdr[b]
  <1>1. PICK nb \in {b} \cup (Blocks \ live) :
          /\ live' = (live \ {b}) \cup {nb} /\ hdr' = [hdr EXCEPT ![nb] = sz]
          /\ IF h > sz THEN Enter(t, "shrink", nb, h - sz, "reallocs")
                       ELSE Enter(t, "grow", nb, sz - h, "reallocs")
    BY DEF ReallocStats
  <1>2. /\ CanCall(t) /\ calls' = calls + 1 /\ held' = held \ {b}
        /\ sz \in Nat /\ sz <= m /\ h \in Nat
    BY SizesAssumption DEF ReallocStats, Fits, TypeOK
  <1>3. Heap(-h, sz - h, 0)
    BY <1>1, <1>2, ReallocHeap DEF CounterInv
  <1>4. hdr'[nb] = sz
    BY <1>1 DEF TypeOK, Ownership
  <1>5. \A u \in Threads : u # t /\ InCall(u) => hdr'[req[u].blk] = hdr[req[u].blk]
    BY <1>1 DEF TypeOK, Ownership
  <1>6. Account(t, 0, 0, 0, 0, 0, 0, 0)
    BY <1>2, CallerAccount DEF CounterInv
  <1> HIDE DEF h
  <1>7. CASE h > sz
    <2> DEFINE d == h - sz
    <2>1. /\ pc'[t] = "reallocs" /\ req'[t].op = "shrink" /\ req'[t].blk = nb
          /\ req'[t].delta = d /\ ms' = ms
          /\ \A u \in Threads : u # t => pc'[u] = pc[u] /\ req'[u] = req[u]
      BY <1>1, <1>7, EnterFacts
    <2>2. d \in Nat /\ d + sz = h
      BY <1>2, <1>7
    <2> HIDE DEF d
    <2>3. \A u \in Threads : u # t => SameDebts(u)
      BY <1>5, <2>1 DEF SameDebts
    <2>4. Fitting(t)'
      BY <2>1 DEF Fitting, InCall
    <2>5. Moves(t, sz, h, h, 0, 0, 0, 0)
      <3>1. /\ Inside(t)' = sz /\ Counted(t)' = sz + d /\ Totalled(t)' = sz + d
            /\ ToAllocate(t)' = 0 /\ ToClaim(t)' = 0
            /\ OwedOps(t)' = 0 /\ PendingOps(t)' = 0
        BY <1>4, <2>1, <2>4, NextAccountTable DEF Accounts, Account
      <3>2. QED
        BY <1>2, <1>6, <2>2, <3>1 DEF Moves, Account
    <2>6. Posts(0, 0, 0, 0, 0)
      BY <2>1, NothingPosted
    <2>7. Agree(m, -h, sz - h, 0, 0, 0, 0, 0, 0, sz, h, h, 0, 0, 0, 0)
      BY <1>2 DEF Agree, Extra, TypeOK
    <2>8. QED
      BY <1>3, <2>3, <2>4, <2>5, <2>6, <2>7, DoubleEntry
  <1>8. CASE ~(h > sz)
    <2> DEFINE d == sz - h
    <2>1. /\ pc'[t] = "reallocs" /\ req'[t].op = "grow" /\ req'[t].blk = nb
          /\ req'[t].delta = d /\ ms' = ms
          /\ \A u \in Threads : u # t => pc'[u] = pc[u] /\ req'[u] = req[u]
      BY <1>1, <1>8, EnterFacts
    <2>2. d \in Nat /\ sz - d = h /\ d <= sz /\ d <= m
      BY <1>2, <1>8
    <2> HIDE DEF d
    <2>3. \A u \in Threads : u # t => SameDebts(u)
      BY <1>5, <2>1 DEF SameDebts
    <2>4. Fitting(t)'
      BY <1>4, <2>1, <2>2 DEF Fitting, InCall
    <2>5. Moves(t, sz, h, h, d, d, 0, 0)
      <3>1. /\ Inside(t)' = sz /\ Counted(t)' = sz - d /\ Totalled(t)' = sz - d
            /\ ToAllocate(t)' = d /\ ToClaim(t)' = d
            /\ OwedOps(t)' = 0 /\ PendingOps(t)' = 0
        BY <1>4, <2>1, <2>4, NextAccountTable DEF Accounts, Account
      <3>2. QED
        BY <1>2, <1>6, <2>2, <3>1 DEF Moves, Account
    <2>6. Posts(0, 0, 0, 0, 0)
      BY <2>1, NothingPosted
    <2>7. Agree(m, -h, sz - h, 0, 0, 0, 0, 0, 0, sz, h, h, d, d, 0, 0)
      BY <1>2, <2>2 DEF Agree, Extra, TypeOK
    <2>8. QED
      BY <1>3, <2>3, <2>4, <2>5, <2>6, <2>7, DoubleEntry
  <1>9. QED
    BY <1>7, <1>8

\* A step of thread t that leaves heap, counters and account alone: a call
\* libc refuses, and the call of exit().
LEMMA IdleEntry ==
    ASSUME NEW m \in Nat, Fits(m), TypeOK, Ownership, TypeOK', Ownership', CounterInv(m),
           NEW t \in Threads, UNCHANGED <<live, hdr, held, ms, req>>,
           \A u \in Threads : u # t => pc'[u] = pc[u],
           pc[t] \in {"idle", "save_stats"}, pc'[t] \in {"idle", "save_stats"},
           calls' \in {calls, calls + 1}
    PROVE  CounterInv(m)'
  <1>1. \A u \in Threads : u # t => SameDebts(u)
    BY DEF SameDebts
  <1>2. Fitting(t)'
    BY DEF Fitting, InCall
  <1>3. Moves(t, 0, 0, 0, 0, 0, 0, 0)
    <2>1. Account(t, 0, 0, 0, 0, 0, 0, 0)
      BY AccountTable DEF Accounts, CounterInv
    <2>2. /\ Inside(t)' = 0 /\ Counted(t)' = 0 /\ Totalled(t)' = 0
          /\ ToAllocate(t)' = 0 /\ ToClaim(t)' = 0
          /\ OwedOps(t)' = 0 /\ PendingOps(t)' = 0
      BY <1>2, NextAccountTable DEF Accounts, Account
    <2>3. QED
      BY <2>1, <2>2 DEF Moves, Account
  <1>4. Posts(0, 0, 0, 0, 0) /\ Heap(0, 0, 0)
    BY NothingPosted, NoHeap DEF CounterInv
  <1>5. Agree(m, 0, 0, 0, 0, 0, 0, 0, 0, 0, 0, 0, 0, 0, 0, 0)
    <2>1. calls \in Nat
      BY DEF TypeOK
    <2>2. Extra(m) = 0 \/ Extra(m) = m
      BY DEF Extra
    <2>3. 0 + 0 <= Extra(m)
      BY <2>2
    <2>4. 0 + 0 + 0 <= calls' - calls
      <3>1. CASE calls' = calls
        BY <2>1, <3>1
      <3>2. CASE calls' = calls + 1
        BY <2>1, <3>2
      <3>3. QED
        BY <3>1, <3>2
    <2>5. QED
      BY <2>3, <2>4 DEF Agree
  <1>6. QED
    BY <1>1, <1>2, <1>3, <1>4, <1>5, DoubleEntry

LEMMA CountersFrame ==
    ASSUME NEW m, CounterInv(m), UNCHANGED <<live, hdr, held, ms, pc, req, calls>>
    PROVE  CounterInv(m)'
  <1>1. \A u : SameDebts(u)
    BY DEF SameDebts
  <1>2. \A u : /\ Inside(u)' = Inside(u) /\ Counted(u)' = Counted(u)
               /\ Totalled(u)' = Totalled(u) /\ ToAllocate(u)' = ToAllocate(u)
               /\ ToClaim(u)' = ToClaim(u) /\ OwedOps(u)' = OwedOps(u)
               /\ PendingOps(u)' = PendingOps(u) /\ (Fitting(u)' <=> Fitting(u))
    BY <1>1, DebtsFrame
  <1>3. /\ InsideBytes' = InsideBytes /\ CountedBytes' = CountedBytes
        /\ TotalledBytes' = TotalledBytes /\ ToAllocateBytes' = ToAllocateBytes
        /\ ToClaimBytes' = ToClaimBytes /\ OwedCalls' = OwedCalls
        /\ PendingCalls' = PendingCalls
    BY <1>2 DEF InsideBytes, CountedBytes, TotalledBytes, ToAllocateBytes, ToClaimBytes,
                OwedCalls, PendingCalls
  <1>4. /\ HeldBytes' = HeldBytes /\ LiveBytes' = LiveBytes
        /\ Cardinality(live)' = Cardinality(live)
    BY DEF HeldBytes, LiveBytes
  <1>5. IsFiniteSet(live')
    BY DEF CounterInv
  <1>6. Ledger(m)'
    BY <1>3, <1>4 DEF CounterInv, Ledger
  <1>7. QED
    BY <1>2, <1>5, <1>6 DEF CounterInv

LEMMA CallCounters ==
    ASSUME NEW m \in Nat, Fits(m), TypeOK, Ownership, TypeOK', Ownership', CounterInv(m),
           NEW t \in Threads, Call(t), ~ZeroRealloc
    PROVE  CounterInv(m)'
  <1>1. ASSUME NEW sz \in Sizes, MallocStats(t, sz) PROVE CounterInv(m)'
    BY <1>1, MallocEntry
  <1>2. ASSUME LibcRefuses(t) PROVE CounterInv(m)'
    <2>1. /\ UNCHANGED <<live, hdr, held, ms, req, pc>> /\ pc[t] = "idle"
          /\ calls' = calls + 1
      BY <1>2 DEF LibcRefuses, CanCall, heapVars
    <2>2. QED
      BY <2>1, IdleEntry
  <1>3. ASSUME NEW b \in held, FreeStats(t, b) PROVE CounterInv(m)'
    BY <1>3, FreeEntry
  <1>4. ASSUME NEW b \in held, NEW sz \in Sizes, ReallocStats(t, b, sz)
        PROVE  CounterInv(m)'
    BY <1>4, ReallocEntry
  <1>5. ASSUME NEW b \in held, AbortOnHeader(t, b) PROVE CounterInv(m)'
    BY <1>5, CountersFrame DEF AbortOnHeader, heapVars
  <1>6. QED
    BY <1>1, <1>2, <1>3, <1>4, <1>5 DEF Call, ReallocNullZero

LEMMA NextCounters ==
    ASSUME NEW m \in Nat, Fits(m), ~ZeroRealloc, IInv, IInv', CounterInv(m), [Next]_vars
    PROVE  CounterInv(m)'
  <1> USE DEF IInv
  <1>1. ASSUME NEW t \in Threads, Call(t) PROVE CounterInv(m)'
    BY <1>1, CallCounters
  <1>2. ASSUME NEW t \in Threads, Access(t) PROVE CounterInv(m)'
    BY <1>2, AccessCounters
  <1>3. ASSUME Exit PROVE CounterInv(m)'
    <2>1. /\ UNCHANGED <<live, hdr, held, ms, req, calls>>
          /\ pc[Main] = "idle" /\ pc'[Main] = "save_stats"
          /\ \A u \in Threads : u # Main => pc'[u] = pc[u]
      BY <1>3, ThreadsAssumption DEF Exit, Goto, heapVars, TypeOK
    <2>2. QED
      BY <2>1, ThreadsAssumption, IdleEntry
  <1>4. ASSUME SaveStats \/ UNCHANGED vars PROVE CounterInv(m)'
    BY <1>4, CountersFrame DEF SaveStats, vars, heapVars
  <1>5. QED
    BY <1>1, <1>2, <1>3, <1>4 DEF Next, Terminated

\* With every thread outside the wrappers there is nothing left to count.
LEMMA NothingOwed ==
    ASSUME TypeOK, Ownership, \A t \in Threads : Fitting(t),
           \A t \in Threads : pc[t] \in {"idle", "save_stats"}
    PROVE  /\ InsideBytes = 0 /\ CountedBytes = 0 /\ TotalledBytes = 0
           /\ ToAllocateBytes = 0 /\ ToClaimBytes = 0 /\ OwedCalls = 0 /\ PendingCalls = 0
  <1>1. \A t \in Threads : Account(t, 0, 0, 0, 0, 0, 0, 0)
    BY AccountTable DEF Accounts
  <1>2. ASSUME NEW f, \A t \in Threads : f[t] = 0 PROVE Sum(f, Threads) = 0
    BY <1>2, FiniteAssumption, SumZero
  <1>3. InsideBytes = 0 /\ CountedBytes = 0 /\ TotalledBytes = 0
    BY <1>1, <1>2 DEF Account, InsideBytes, CountedBytes, TotalledBytes
  <1>4. ToAllocateBytes = 0 /\ ToClaimBytes = 0 /\ OwedCalls = 0 /\ PendingCalls = 0
    BY <1>1, <1>2 DEF Account, ToAllocateBytes, ToClaimBytes, OwedCalls, PendingCalls
  <1>5. QED
    BY <1>3, <1>4

LEMMA InitCounters == ASSUME NEW m \in Nat, Init PROVE CounterInv(m)
  <1>1. TypeOK /\ Ownership
    BY InitIInv DEF IInv
  <1>2. /\ live = {} /\ held = {} /\ calls = 0
        /\ \A t \in Threads : pc[t] = "idle"
        /\ ms.current = 0 /\ ms.total_allocated = 0 /\ ms.total_released = 0
        /\ ms.allocs = 0 /\ ms.free = 0
    BY DEF Init, Counters
  <1>3. \A t \in Threads : Fitting(t)
    BY <1>2 DEF Fitting, InCall
  <1>4. /\ InsideBytes = 0 /\ CountedBytes = 0 /\ TotalledBytes = 0
        /\ ToAllocateBytes = 0 /\ ToClaimBytes = 0 /\ OwedCalls = 0 /\ PendingCalls = 0
    BY <1>1, <1>2, <1>3, NothingOwed
  <1>5. /\ IsFiniteSet(live) /\ Cardinality(live) = 0
    BY <1>2, FS_EmptySet
  <1>6. Sum(hdr, {}) = 0
    BY SumEmpty
  <1>7. HeldBytes = 0 /\ LiveBytes = 0
    BY <1>2, <1>6, Zenon DEF HeldBytes, LiveBytes, Sum
  <1>8. 0 * m = 0
    OBVIOUS
  <1>9. QED
    BY <1>2, <1>3, <1>4, <1>5, <1>7, <1>8 DEF CounterInv, Ledger

LEMMA LedgerIsExact ==
    ASSUME NEW m \in Nat, TypeOK, Ownership, CounterInv(m)
    PROVE  CountersExact
  <1> DEFINE I == [t \in Threads |-> Inside(t)]
             C == [t \in Threads |-> Counted(t)]
             T == [t \in Threads |-> Totalled(t)]
             OC == [t \in Threads |-> OwedCurrent(t)]
             OT == [t \in Threads |-> OwedTotals(t)]
  <1>1. \A t \in Threads : /\ I[t] \in Int /\ OC[t] \in Int /\ OT[t] \in Int
                           /\ C[t] = I[t] + OC[t] /\ T[t] = I[t] + OT[t]
                           /\ C[t] \in Int /\ T[t] \in Int
    BY CounterTypes DEF CountersTyped, CounterInv, Counted, Totalled
  <1>2. /\ InsideBytes = Sum(I, Threads) /\ CountedBytes = Sum(C, Threads)
        /\ TotalledBytes = Sum(T, Threads)
    BY DEF InsideBytes, CountedBytes, TotalledBytes
  <1>3. /\ SumFunction(OC) = Sum(OC, Threads) /\ SumFunction(OT) = Sum(OT, Threads)
    BY DEF SumFunction, Sum
  <1>4. CountersExact <=> /\ ms.current = LiveBytes + SumFunction(OC)
                          /\ ms.total_allocated - ms.total_released
                               = LiveBytes + SumFunction(OT)
    BY DEF CountersExact
  <1> HIDE DEF I, C, T, OC, OT
  <1>5. Sum(C, Threads) = Sum(I, Threads) + Sum(OC, Threads)
    BY <1>1, FiniteAssumption, SumPlus
  <1>6. Sum(T, Threads) = Sum(I, Threads) + Sum(OT, Threads)
    BY <1>1, FiniteAssumption, SumPlus
  <1>7. /\ Sum(I, Threads) \in Int /\ Sum(OC, Threads) \in Int /\ Sum(OT, Threads) \in Int
    BY <1>1, FiniteAssumption, SumType
  <1>8. /\ LiveBytes = HeldBytes + InsideBytes
        /\ ms.current = HeldBytes + CountedBytes
        /\ ms.total_allocated - ms.total_released = HeldBytes + TotalledBytes
        /\ HeldBytes \in Int
    BY HeapTypes DEF CounterInv, Ledger, HeapTyped
  <1>9. QED
    BY <1>2, <1>3, <1>4, <1>5, <1>6, <1>7, <1>8

(* ms_current, and the difference of the totals, are exact at every step,  *)
(* give or take what the threads inside a wrapper have yet to count, as    *)
(* long as no run can wrap a counter and the application does not call     *)
(* realloc(NULL, 0).                                                       *)
THEOREM CountersAreExact ==
    ASSUME NEW m \in Nat, Fits(m), ~ZeroRealloc
    PROVE  Spec => []CountersExact
  <1> DEFINE Exact == IInv /\ CounterInv(m)
  <1>1. Init => Exact
    BY InitIInv, InitCounters
  <1>2. Exact /\ [Next]_vars => Exact'
    <2>1. SUFFICES ASSUME IInv, CounterInv(m), [Next]_vars PROVE IInv' /\ CounterInv(m)'
      OBVIOUS
    <2>2. IInv'
      BY <2>1, NextIInv
    <2>3. QED
      BY <2>1, <2>2, NextCounters
  <1>3. Exact => CountersExact
    BY LedgerIsExact DEF IInv
  <1>4. QED
    BY <1>1, <1>2, <1>3, PTL DEF Spec

-----------------------------------------------------------------------------
(***************************************************************************)
(* The report.  Only main() runs save_stats(), and with the workers joined *)
(* nothing moves any more, so what is printed stays what the counters say. *)
(***************************************************************************)
ReportInv ==
    /\ printed > 0 => pc[Main] = "save_stats"
    /\ \A t \in Threads : t # Main => pc[t] # "save_stats"
    /\ JoinWorkers /\ pc[Main] = "save_stats" =>
         /\ \A t \in Threads : t # Main => pc[t] = "idle"
         /\ \A k \in 1..printed : report[Fields[k]] = ms[Fields[k]]

LEMMA ReportCall ==
    ASSUME TypeOK, ReportInv, NEW t \in Threads, Call(t)
    PROVE  ReportInv'
  <1>1. CanCall(t)
    BY DEF Call, MallocStats, LibcRefuses, FreeStats, ReallocStats, ReallocNullZero,
           AbortOnHeader
  <1>2. /\ printed' = printed /\ pc'[t] # "save_stats"
        /\ \A u \in Threads : u # t => pc'[u] = pc[u]
    BY <1>1 DEF TypeOK, CanCall, Call, MallocStats, LibcRefuses, FreeStats, ReallocStats,
           ReallocNullZero, AbortOnHeader, Enter, exitVars
  <1>3. printed > 0 => t # Main
    BY <1>1 DEF CanCall, ReportInv
  <1>4. JoinWorkers => pc[Main] # "save_stats"
    BY <1>1, ThreadsAssumption DEF CanCall
  <1>5. JoinWorkers => pc'[Main] # "save_stats"
    BY <1>2, <1>4, ThreadsAssumption
  <1>6. QED
    BY <1>2, <1>3, <1>5, ThreadsAssumption DEF ReportInv

LEMMA ReportAccess ==
    ASSUME TypeOK, ReportInv, NEW t \in Threads, Access(t)
    PROVE  ReportInv'
  <1>1. /\ pc[t] \notin {"idle", "save_stats"} /\ pc'[t] # "save_stats"
        /\ printed' = printed
        /\ \A u \in Threads : u # t => pc'[u] = pc[u]
    BY DEF TypeOK, Access, CountAlloc, CountRealloc, CountFree, AddAllocated, AddReleased,
           UpdateRelease, UpdateAllocAdd, UpdateAllocLoad, UpdateAllocCas, LibcFree,
           At, Goto, Return, exitVars
  <1>2. JoinWorkers => pc'[Main] # "save_stats"
    BY <1>1, ThreadsAssumption DEF ReportInv
  <1>3. QED
    BY <1>1, <1>2, ThreadsAssumption DEF ReportInv

LEMMA NextReport ==
    ASSUME TypeOK, ReportInv, [Next]_vars
    PROVE  ReportInv'
  <1>1. ASSUME NEW t \in Threads, Call(t) PROVE ReportInv'
    BY <1>1, ReportCall
  <1>2. ASSUME NEW t \in Threads, Access(t) PROVE ReportInv'
    BY <1>2, ReportAccess
  <1>3. ASSUME Exit PROVE ReportInv'
    <2>1. /\ pc[Main] = "idle" /\ printed' = printed
          /\ \A u \in Threads : u # Main => pc'[u] = pc[u]
          /\ pc'[Main] = "save_stats"
          /\ JoinWorkers => \A u \in Threads : pc[u] = "idle"
      BY <1>3, ThreadsAssumption DEF Exit, Goto, exitVars, TypeOK, AllIdle
    <2>2. printed = 0
      BY <2>1 DEF ReportInv, TypeOK
    <2>3. QED
      BY <2>1, <2>2 DEF ReportInv
  <1>4. ASSUME SaveStats PROVE ReportInv'
    <2>1. /\ pc[Main] = "save_stats" /\ UNCHANGED <<ms, pc>> /\ printed' = printed + 1
          /\ report' = [report EXCEPT ![Fields[printed + 1]] = ms[Fields[printed + 1]]]
          /\ printed + 1 \in 1..6
      BY <1>4 DEF SaveStats, At, Exited, TypeOK
    <2>2. ASSUME JoinWorkers, NEW k \in 1..printed'
          PROVE  report'[Fields[k]] = ms[Fields[k]]
      <3>1. k \in 1..6 /\ Fields[k] \in Counters /\ Fields[printed + 1] \in Counters
        <4>1. \A j \in 1..6 : Fields[j] \in Counters
          BY DEF Fields, Counters
        <4>2. k \in 1..6
          BY <2>1
        <4>3. QED
          BY <2>1, <4>1, <4>2
      <3>2. CASE k = printed + 1
        BY <2>1, <3>1, <3>2 DEF TypeOK
      <3>3. CASE k # printed + 1
        <4>1. k \in 1..printed
          BY <2>1, <3>3 DEF TypeOK
        <4>2. report[Fields[k]] = ms[Fields[k]]
          BY <2>1, <2>2, <4>1 DEF ReportInv
        <4>3. report'[Fields[k]] \in {report[Fields[k]], ms[Fields[k]]}
          BY <2>1, <3>1 DEF TypeOK
        <4>4. QED
          BY <4>2, <4>3
      <3>4. QED
        BY <3>2, <3>3
    <2>3. QED
      BY <2>1, <2>2 DEF ReportInv
  <1>5. ASSUME UNCHANGED vars PROVE ReportInv'
    BY <1>5 DEF vars, ReportInv
  <1>6. QED
    BY <1>1, <1>2, <1>3, <1>4, <1>5 DEF Next, Terminated

LEMMA ReportIsComplete ==
    ASSUME NEW m \in Nat, TypeOK, Ownership, MaxIsPeak, CounterInv(m), ReportInv
    PROVE  ReportTrue
  <1> SUFFICES ASSUME JoinWorkers, Exited
               PROVE  /\ report.total_allocated - report.total_released = LiveBytes
                      /\ report.allocs - report.free = Cardinality(live)
                      /\ report.max = peak
    BY DEF ReportTrue
  <1>1. /\ pc[Main] = "save_stats"
        /\ \A k \in 1..6 : report[Fields[k]] = ms[Fields[k]]
    BY DEF Exited, ReportInv
  <1>2. /\ report.total_allocated = ms.total_allocated
        /\ report.total_released = ms.total_released
        /\ report.allocs = ms.allocs /\ report.free = ms.free /\ report.max = ms.max
    <2>1. /\ Fields[1] = "total_allocated" /\ Fields[2] = "total_released"
          /\ Fields[3] = "allocs" /\ Fields[4] = "free" /\ Fields[6] = "max"
      BY DEF Fields
    <2>2. 1 \in 1..6 /\ 2 \in 1..6 /\ 3 \in 1..6 /\ 4 \in 1..6 /\ 6 \in 1..6
      OBVIOUS
    <2>3. QED
      BY <1>1, <2>1, <2>2
  <1>3. \A t \in Threads : pc[t] \in {"idle", "save_stats"}
    BY <1>1 DEF ReportInv
  <1>4. InsideBytes = 0 /\ TotalledBytes = 0 /\ OwedCalls = 0
    BY <1>3, NothingOwed DEF CounterInv
  <1>5. /\ LiveBytes = HeldBytes + InsideBytes
        /\ ms.total_allocated - ms.total_released = HeldBytes + TotalledBytes
        /\ ms.allocs - ms.free = Cardinality(live) + OwedCalls
        /\ HeldBytes \in Int /\ Cardinality(live) \in Int
    BY HeapTypes DEF CounterInv, Ledger, HeapTyped
  <1>6. ms.max = peak
    BY <1>3 DEF MaxIsPeak, Raising
  <1>7. QED
    BY <1>2, <1>4, <1>5, <1>6

(* With the workers joined the report of save_stats() is the truth about   *)
(* the run: what was allocated and not released, and the peak.             *)
THEOREM ReportIsTrue ==
    ASSUME NEW m \in Nat, Fits(m), ~ZeroRealloc
    PROVE  Spec => []ReportTrue
  <1> DEFINE Exact == IInv /\ CounterInv(m) /\ ReportInv
  <1>1. Init => Exact
    <2>1. Init => ReportInv
      BY ThreadsAssumption DEF Init, ReportInv
    <2>2. QED
      BY <2>1, InitIInv, InitCounters
  <1>2. Exact /\ [Next]_vars => Exact'
    <2>1. SUFFICES ASSUME IInv, CounterInv(m), ReportInv, [Next]_vars
                   PROVE  IInv' /\ CounterInv(m)' /\ ReportInv'
      OBVIOUS
    <2>2. IInv'
      BY <2>1, NextIInv
    <2>3. ReportInv'
      BY <2>1, NextReport DEF IInv
    <2>4. QED
      BY <2>1, <2>2, <2>3, NextCounters
  <1>3. Exact => ReportTrue
    <2>1. IInv => MaxIsPeak
      BY DEF IInv, MaxInv, MaxIsPeak, PeakPending
    <2>2. QED
      BY <2>1, ReportIsComplete DEF IInv
  <1>4. QED
    BY <1>1, <1>2, <1>3, PTL DEF Spec

=============================================================================
