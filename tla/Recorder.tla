------------------------------ MODULE Recorder ------------------------------
(***************************************************************************)
(* Modes 2 to 5 of libmprofile.so: the wrappers of mprofile/init.c that    *)
(* log every call (mp_CRYPTO_*_trace and mp_CRYPTO_*_trace_with_stack) and *)
(* the recording side of mprofile/record.c.                                *)
(*                                                                         *)
(* A thread appends its records to a profile of its own without a lock;    *)
(* what orders the records of different threads is mpr_id, an atomic       *)
(* counter.  The wrappers take an id before free() but after malloc() and  *)
(* realloc(), so the order of the ids need not be the order in which libc  *)
(* changed the heap.  The grain is one visible effect per step: the libc   *)
(* call, taking the id, linking the record into the list.                  *)
(*                                                                         *)
(* The call stacks that modes 3 and 5 add are in ProfileMerge; saving the  *)
(* log at exit is in TraceSave.                                            *)
(***************************************************************************)
EXTENDS Integers, Sequences, FiniteSetsExt

CONSTANTS
    Threads,       \* threads of the profiled application
    Addrs,         \* addresses libc malloc() can hand out
    NULL,          \* the null pointer
    Sizes,         \* request sizes, 0 included where a model wants it
    MaxCalls,      \* bound on wrapper calls in one behaviour
    MaxProfiles,   \* threads exit only while there are fewer profiles than this
    ReallocMoves,  \* may realloc() move a block to another address?
    MovesOverlap,  \* may the call of another thread overlap one that does?
    MallocFails,   \* may libc refuse an application's request?
    RecordFails    \* may the allocation of a record or a profile fail?

ASSUME NullAssumption  == NULL \notin Addrs
ASSUME SizesAssumption == Sizes \subseteq Nat
ASSUME BoundAssumption == MaxCalls \in Nat /\ MaxProfiles \in Nat
ASSUME FlagsAssumption ==
    {ReallocMoves, MovesOverlap, MallocFails, RecordFails} \subseteq BOOLEAN

VARIABLES
    heap,      \* addresses libc considers allocated
    size,      \* mh_size of the block at each address
    held,      \* blocks the application owns and may pass to a wrapper
    keyValid,  \* the pthread key of the thread-specific profiles exists
    tls,       \* each thread's profile, 0 before its first call
    profiles,  \* the global list of profiles that mprofile_save() will drain
    list,      \* the records of each profile
    mprId,     \* mpr_id, the last record id taken
    pc,        \* next step of each thread
    req,       \* locals of the wrapper each thread is in
    calls,     \* calls made so far, bounded by MaxCalls
    crashed,   \* the process died inside the library
    hist,      \* history: the records in the order of their ids
    open,      \* history: id of the last record of the block at an address
    bytes      \* history: the size of that block according to the records

libc == <<heap, size>>
profileVars == <<keyValid, tls, profiles, list>>
ghosts == <<hist, open, bytes>>
vars == <<heap, size, held, keyValid, tls, profiles, list, mprId, pc, req, calls,
          crashed, hist, open, bytes>>

States == {"ALLOC", "FREE", "REALLOC"}

Record(state, mem, old, delta) ==
    [id |-> 0, state |-> state, mem |-> mem, realloc |-> old, delta |-> delta]

NoReq == [mp |-> 0, rec |-> Record("FREE", NULL, NULL, 0), zero |-> FALSE]

Init ==
    /\ heap = {}
    /\ size = [a \in Addrs |-> 0]
    /\ held = {}
    /\ keyValid = TRUE
    /\ tls = [t \in Threads |-> 0]
    /\ profiles = <<>>
    /\ list = <<>>
    /\ mprId = 0
    /\ pc = [t \in Threads |-> "idle"]
    /\ req = [t \in Threads |-> NoReq]
    /\ calls = 0
    /\ crashed = FALSE
    /\ hist = <<>>
    /\ open = [a \in Addrs |-> 0]
    /\ bytes = [a \in Addrs |-> 0]

-----------------------------------------------------------------------------
(* get_mprofile(): the first call of a thread creates its profile and puts *)
(* it on the global list.  Once the key is deleted nothing is found in the *)
(* thread-specific storage, and every call creates a profile.              *)

NeedsProfile(t) == tls[t] = 0 \/ ~keyValid

CreateProfile(t) ==
    /\ pc[t] = "idle" /\ NeedsProfile(t)
    /\ calls < MaxCalls
    /\ calls' = calls + 1
    /\ list' = Append(list, <<>>)
    /\ profiles' = Append(profiles, Len(list) + 1)
    /\ tls' = IF keyValid THEN [tls EXCEPT ![t] = Len(list) + 1] ELSE tls
    /\ pc' = [pc EXCEPT ![t] = "call"]
    /\ req' = [req EXCEPT ![t].mp = Len(list) + 1]
    /\ UNCHANGED <<libc, held, keyValid, mprId, crashed, ghosts>>

\* mprofile_create() returned NULL and mprofile_add() uses it all the same.
CreateProfileFails(t) ==
    /\ pc[t] = "idle" /\ NeedsProfile(t)
    /\ RecordFails
    /\ calls < MaxCalls
    /\ crashed' = TRUE
    /\ UNCHANGED <<libc, held, profileVars, mprId, pc, req, calls, ghosts>>

\* merge_profile(), the destructor of the key, when a thread exits: the profile
\* stays on the global list, only the thread-specific storage is cleared.  From
\* here on t stands for another thread.
MergeProfile(t) ==
    /\ pc[t] = "idle"
    /\ keyValid /\ tls[t] # 0
    /\ Len(list) < MaxProfiles
    /\ tls' = [tls EXCEPT ![t] = 0]
    /\ UNCHANGED <<libc, held, keyValid, profiles, list, mprId, pc, req, calls,
                   crashed, ghosts>>

\* A block was moved by realloc() in thread t, and this is not recorded yet.
Moved(t) ==
    /\ pc[t] = "record" /\ req[t].rec.state = "REALLOC"
    /\ req[t].rec.mem # req[t].rec.realloc

\* The thread is outside of the wrappers, or not past get_mprofile().
Outside(t) == pc[t] \in {"idle", "call"}

\* The wrapper has its profile: a call counted when the profile was created,
\* or one that found the profile in the thread-specific storage.
Enter(t) ==
    /\ MovesOverlap \/ \A u \in Threads : ~Moved(u)
    /\ \/ pc[t] = "call" /\ UNCHANGED calls
       \/ pc[t] = "idle" /\ ~NeedsProfile(t) /\ calls < MaxCalls /\ calls' = calls + 1

\* The addresses libc may choose for a block that grows or shrinks.
Destinations(t, b) ==
    IF ReallocMoves /\ (MovesOverlap \/ \A u \in Threads \ {t} : Outside(u))
    THEN {b} \cup (Addrs \ heap)
    ELSE {b}

Mp(t) == IF pc[t] = "call" THEN req[t].mp ELSE tls[t]

ToRecord(t, rec, zero) ==
    /\ pc' = [pc EXCEPT ![t] = "record"]
    /\ req' = [req EXCEPT ![t] = [mp |-> Mp(t), rec |-> rec, zero |-> zero]]

-----------------------------------------------------------------------------
(* The wrappers up to the mprofile_record_*() call.                        *)

\* malloc(sz), and realloc(NULL, sz) with sz # 0, which is recorded as ALLOC.
MallocTrace(t, sz) ==
    /\ Enter(t)
    /\ \E a \in Addrs \ heap :
         /\ heap' = heap \cup {a}
         /\ size' = [size EXCEPT ![a] = sz]
         /\ ToRecord(t, Record("ALLOC", a, NULL, sz), FALSE)
    /\ UNCHANGED <<held, profileVars, mprId, crashed, ghosts>>

\* A malloc() that libc refused is recorded like any other, without a block.
MallocTraceFails(t, sz) ==
    /\ MallocFails
    /\ Enter(t)
    /\ ToRecord(t, Record("ALLOC", NULL, NULL, sz), FALSE)
    /\ UNCHANGED <<libc, held, profileVars, mprId, crashed, ghosts>>

\* Variant: the block goes back to libc before it is recorded.
FreeTraceFreesFirst(t, b) ==
    /\ Enter(t)
    /\ heap' = heap \ {b}
    /\ held' = held \ {b}
    /\ ToRecord(t, Record("FREE", b, NULL, -size[b]), FALSE)
    /\ UNCHANGED <<size, profileVars, mprId, crashed, ghosts>>

\* free(b), and realloc(b, 0), which is recorded as FREE.
FreeTrace(t, b) ==
    /\ Enter(t)
    /\ held' = held \ {b}
    /\ ToRecord(t, Record("FREE", b, NULL, -size[b]), FALSE)
    /\ UNCHANGED <<libc, profileVars, mprId, crashed, ghosts>>

\* free(NULL) and realloc(NULL, 0) are recorded as FREE, too; the second one
\* still has a realloc() to make.
FreeNullTrace(t, zero) ==
    /\ Enter(t)
    /\ ToRecord(t, Record("FREE", NULL, NULL, 0), zero)
    /\ UNCHANGED <<libc, held, profileVars, mprId, crashed, ghosts>>

\* Variant: the new size is recorded for the difference.
ReallocTraceSize(t, b, sz) ==
    /\ sz > 0
    /\ Enter(t)
    /\ held' = held \ {b}
    /\ \E nb \in Destinations(t, b) :
         /\ heap' = (heap \ {b}) \cup {nb}
         /\ size' = [size EXCEPT ![nb] = sz]
         /\ ToRecord(t, Record("REALLOC", nb, b, sz), FALSE)
    /\ UNCHANGED <<profileVars, mprId, crashed, ghosts>>

\* Variant: the two addresses are swapped in the record.
ReallocTraceSwapped(t, b, sz) ==
    /\ sz > 0
    /\ Enter(t)
    /\ held' = held \ {b}
    /\ \E nb \in Destinations(t, b) :
         /\ heap' = (heap \ {b}) \cup {nb}
         /\ size' = [size EXCEPT ![nb] = sz]
         /\ ToRecord(t, Record("REALLOC", b, nb, sz - size[b]), FALSE)
    /\ UNCHANGED <<profileVars, mprId, crashed, ghosts>>

\* realloc(b, sz), sz # 0: libc resizes the block or moves it, and frees the old
\* address, before the record is made.
ReallocTrace(t, b, sz) ==
    /\ sz > 0
    /\ Enter(t)
    /\ held' = held \ {b}
    /\ \E nb \in Destinations(t, b) :
         /\ heap' = (heap \ {b}) \cup {nb}
         /\ size' = [size EXCEPT ![nb] = sz]
         /\ ToRecord(t, Record("REALLOC", nb, b, sz - size[b]), FALSE)
    /\ UNCHANGED <<profileVars, mprId, crashed, ghosts>>

\* A realloc() that libc refused returns before the recording.
ReallocTraceFails(t) ==
    /\ MallocFails
    /\ Enter(t)
    /\ pc' = [pc EXCEPT ![t] = "idle"]
    /\ req' = [req EXCEPT ![t] = NoReq]
    /\ UNCHANGED <<libc, held, profileVars, mprId, crashed, ghosts>>

-----------------------------------------------------------------------------
(* mprofile_record_alloc(), mprofile_record_free(), mprofile_record_realloc*)

\* The block whose chain a record continues, NULL if it starts one.
Released(rec) ==
    CASE rec.state = "ALLOC"   -> NULL
      [] rec.state = "FREE"    -> rec.mem
      [] rec.state = "REALLOC" -> rec.realloc

\* The block a record leaves at the end of a chain, NULL if it ends one.
Acquired(rec) == IF rec.state = "FREE" THEN NULL ELSE rec.mem

\* How the history and the two functions that follow from it go on.
Remember(rec) ==
    LET old == Released(rec)
        new == Acquired(rec)
        before(f) == IF old = NULL THEN 0 ELSE f[old]
    IN  /\ hist' = Append(hist, [state |-> rec.state, mem |-> rec.mem,
                                 realloc |-> rec.realloc, delta |-> rec.delta,
                                 prev |-> before(open)])
        /\ open' = [a \in Addrs |-> IF a = new THEN Len(hist) + 1
                                    ELSE IF a = old THEN 0 ELSE open[a]]
        /\ bytes' = [a \in Addrs |-> IF a = new THEN before(bytes) + rec.delta
                                     ELSE IF a = old THEN 0 ELSE bytes[a]]

\* The record exists and takes the next id.
TakeId(t) ==
    /\ pc[t] = "record"
    /\ mprId' = mprId + 1
    /\ req' = [req EXCEPT ![t].rec.id = mprId + 1]
    /\ pc' = [pc EXCEPT ![t] = "insert"]
    /\ Remember(req[t].rec)
    /\ UNCHANGED <<libc, held, profileVars, calls, crashed>>

\* Variant: a refused malloc() gives the application a block, too.
FinishUnchecked(t) ==
    IF req[t].rec.state = "FREE"
    THEN /\ pc' = [pc EXCEPT ![t] = "libc"]
         /\ UNCHANGED <<held, req>>
    ELSE /\ pc' = [pc EXCEPT ![t] = "idle"]
         /\ req' = [req EXCEPT ![t] = NoReq]
         /\ held' = held \cup {req[t].rec.mem}

\* What is left of a wrapper once the recording is over.
Finish(t) ==
    IF req[t].rec.state = "FREE"
    THEN /\ pc' = [pc EXCEPT ![t] = "libc"]
         /\ UNCHANGED <<held, req>>
    ELSE /\ pc' = [pc EXCEPT ![t] = "idle"]
         /\ req' = [req EXCEPT ![t] = NoReq]
         /\ held' = held \cup ({req[t].rec.mem} \ {NULL})

\* create_mprofile_record() failed: the call goes unrecorded.
RecordLost(t) ==
    /\ pc[t] = "record"
    /\ RecordFails
    /\ Finish(t)
    /\ UNCHANGED <<libc, profileVars, mprId, calls, crashed, ghosts>>

\* TAILQ_INSERT_TAIL() into the thread's own list.
InsertTail(t) ==
    /\ pc[t] = "insert"
    /\ list' = [list EXCEPT ![req[t].mp] = Append(@, req[t].rec)]
    /\ Finish(t)
    /\ UNCHANGED <<libc, keyValid, tls, profiles, mprId, calls, crashed, ghosts>>

\* The free(), or the realloc(mh, 0), at the end of the wrapper.  With glibc
\* realloc(NULL, 0) allocates a block; the wrapper returns NULL and drops it.
LibcRelease(t) ==
    /\ pc[t] = "libc"
    /\ \/ /\ req[t].zero
          /\ heap' = heap \/ \E a \in Addrs \ heap : heap' = heap \cup {a}
       \/ /\ ~req[t].zero
          /\ heap' = heap \ {req[t].rec.mem}
    /\ pc' = [pc EXCEPT ![t] = "idle"]
    /\ req' = [req EXCEPT ![t] = NoReq]
    /\ UNCHANGED <<size, held, profileVars, mprId, calls, crashed, ghosts>>

-----------------------------------------------------------------------------
Call(t) ==
    \/ CreateProfile(t) \/ CreateProfileFails(t) \/ MergeProfile(t)
    \/ \E sz \in Sizes : MallocTrace(t, sz) \/ MallocTraceFails(t, sz)
    \/ \E b \in held : FreeTrace(t, b)
    \/ \E zero \in BOOLEAN : FreeNullTrace(t, zero)
    \/ \E b \in held, sz \in Sizes : ReallocTrace(t, b, sz)
    \/ ReallocTraceFails(t)

Step(t) == TakeId(t) \/ RecordLost(t) \/ InsertTail(t) \/ LibcRelease(t)

\* The bound on calls is reached, or the process is gone.
Done ==
    /\ crashed \/ (calls = MaxCalls /\ \A t \in Threads : pc[t] = "idle")
    /\ UNCHANGED vars

Next == (~crashed /\ \E t \in Threads : Call(t) \/ Step(t)) \/ Done

Spec == Init /\ [][Next]_vars
-----------------------------------------------------------------------------
(* Properties.                                                             *)

Records == [id : Nat, state : States, mem : Addrs \cup {NULL},
            realloc : Addrs \cup {NULL}, delta : Int]

Requests == [mp : Nat, rec : Records, zero : BOOLEAN]

Entries == [state : States, mem : Addrs \cup {NULL}, realloc : Addrs \cup {NULL},
            delta : Int, prev : Nat]

PCs == {"idle", "call", "record", "insert", "libc"}

(* Types of the variables.                                                 *)
TypeOK ==
    /\ heap \subseteq Addrs
    /\ size \in [Addrs -> Nat]
    /\ held \subseteq Addrs
    /\ keyValid \in BOOLEAN
    /\ tls \in [Threads -> Nat]
    /\ profiles \in Seq(Nat)
    /\ list \in Seq(Seq(Records))
    /\ mprId \in Nat
    /\ pc \in [Threads -> PCs]
    /\ req \in [Threads -> Requests]
    /\ calls \in 0..MaxCalls
    /\ crashed \in BOOLEAN
    /\ hist \in Seq(Entries)
    /\ open \in [Addrs -> Nat]
    /\ bytes \in [Addrs -> Int]

\* The block a thread is working on.
Working(t) == IF pc[t] \in {"record", "insert", "libc"} THEN {req[t].rec.mem} \ {NULL} ELSE {}

(* An address is with the application, inside one call, or with libc. The  *)
(* wrappers record a free before they release the block, so an address     *)
(* cannot be handed out while its FREE is on its way into the log.         *)
Ownership ==
    /\ held \subseteq heap
    /\ \A t \in Threads : Working(t) \subseteq heap \ held
    /\ \A t, u \in Threads : t # u => Working(t) \cap Working(u) = {}

\* The conditions under which the order of the ids is a history of the heap:
\* every call succeeds, and while realloc() moves a block no other thread is in
\* a call, as it could be given the old address.  A single thread satisfies it,
\* and so do threads with a lock around their calls.
ChainSafe ==
    /\ ~MallocFails /\ ~RecordFails
    /\ ReallocMoves => ~MovesOverlap

\* The log has a chain for the block at address a.
Logged(a) ==
    \/ a \in held
    \/ \E t \in Threads : \/ pc[t] = "record" /\ a = Released(req[t].rec)
                          \/ pc[t] = "insert" /\ a = Acquired(req[t].rec)

\* A record that is due will bring the size in the log in line with mh_size.
DeltaDue(rec) ==
    CASE rec.state = "ALLOC"   -> size[rec.mem] = rec.delta
      [] rec.state = "FREE"    -> rec.mem # NULL => bytes[rec.mem] = -rec.delta
      [] rec.state = "REALLOC" -> size[rec.mem] = bytes[rec.realloc] + rec.delta

(* The log agrees with the heap: an address has an open chain exactly when *)
(* its block is with the application or in a call whose record is due or   *)
(* done, and the deltas along that chain add up to the size in the header. *)
(* This is what makes an open chain at exit a leak of that many bytes.     *)
LogMatchesHeap == ChainSafe =>
    /\ \A a \in Addrs : open[a] # 0 <=> Logged(a)
    /\ \A a \in held : bytes[a] = size[a]
    /\ \A t \in Threads :
          LET rec == req[t].rec
          IN  /\ pc[t] = "record" => DeltaDue(rec)
              /\ pc[t] = "insert" /\ rec.state # "FREE" => bytes[rec.mem] = size[rec.mem]

History == INSTANCE AllocHistory WITH log <- hist

(* In the order of their ids the records are a history of the heap: no     *)
(* ALLOC of an open address, no FREE or REALLOC of one that is not open.   *)
(* These are the three cases in which build_chains() gives up and aborts.  *)
LogIsHistory == History!HistSpec
=============================================================================
