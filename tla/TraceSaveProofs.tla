-------------------------- MODULE TraceSaveProofs --------------------------
(***************************************************************************)
(* Theorems about Recorder and TraceSave, in three parts:                  *)
(*   1. the wrappers, for any number of threads, calls and profiles, and   *)
(*      when nothing fails the refinement of AllocHistory;                 *)
(*   2. the exit handler beside the threads of the application, with       *)
(*      failing allocations and with threads that go on;                   *)
(*   3. the chains it links when nothing fails.                            *)
(***************************************************************************)
EXTENDS TraceSave, FiniteSetTheorems, FunctionTheorems, TLAPS

-----------------------------------------------------------------------------
(* Part 1: the wrappers.                                                   *)

InCall(t) == pc[t] \in {"record", "insert", "libc"}

(***************************************************************************)
(* The shape of the record a thread is making, and the profile it is for.  *)
(***************************************************************************)
Shape ==
    \A t \in Threads :
        LET rec == req[t].rec
        IN  /\ InCall(t) =>
                  /\ rec.state # "REALLOC" => rec.realloc = NULL
                  /\ rec.state = "REALLOC" => rec.mem \in Addrs /\ rec.realloc \in Addrs
                  /\ rec.state = "FREE" /\ rec.mem = NULL => rec.delta = 0
            /\ pc[t] = "libc" => rec.state = "FREE"

ProfileExists ==
    \A t \in Threads : /\ tls[t] \in 0..Len(list)
                       /\ pc[t] # "idle" => req[t].mp \in 1..Len(list)

IInv == TypeOK /\ Shape /\ ProfileExists /\ Ownership

LEMMA NoReqType == NoReq \in Requests
  BY DEF NoReq, Requests, Record, Records, States

LEMMA RecordType ==
    ASSUME NEW state \in States, NEW mem \in Addrs \cup {NULL},
           NEW old \in Addrs \cup {NULL}, NEW delta \in Int
    PROVE  /\ Record(state, mem, old, delta) \in Records
           /\ Record(state, mem, old, delta).state = state
           /\ Record(state, mem, old, delta).mem = mem
           /\ Record(state, mem, old, delta).realloc = old
           /\ Record(state, mem, old, delta).delta = delta
  BY DEF Record, Records

LEMMA InitIInv == Init => IInv
  <1> SUFFICES ASSUME Init PROVE IInv
    OBVIOUS
  <1>1. /\ heap \subseteq Addrs /\ held \subseteq Addrs
        /\ size \in [Addrs -> Nat] /\ tls \in [Threads -> Nat]
        /\ pc \in [Threads -> PCs]
        /\ open \in [Addrs -> Nat] /\ bytes \in [Addrs -> Int]
    BY DEF Init, PCs
  <1>2. profiles \in Seq(Nat) /\ list \in Seq(Seq(Records)) /\ hist \in Seq(Entries)
    BY DEF Init
  <1>3. mprId \in Nat /\ calls \in 0..MaxCalls
    BY BoundAssumption DEF Init
  <1>4. keyValid \in BOOLEAN /\ crashed \in BOOLEAN
    BY DEF Init
  <1>5. req \in [Threads -> Requests]
    BY NoReqType DEF Init
  <1>6. TypeOK
    BY <1>1, <1>2, <1>3, <1>4, <1>5 DEF TypeOK
  <1>7. Shape /\ ProfileExists /\ Ownership
    BY DEF Init, Shape, ProfileExists, Ownership, InCall, Working
  <1>8. QED
    BY <1>6, <1>7 DEF IInv

(***************************************************************************)
(* Entering a wrapper.                                                     *)
(***************************************************************************)
LEMMA EnterFacts ==
    ASSUME IInv, NEW t \in Threads, Enter(t)
    PROVE  /\ calls' \in 0..MaxCalls
           /\ Mp(t) \in 1..Len(list) /\ Mp(t) \in Nat
           /\ ~InCall(t) /\ Working(t) = {}
  <1>1. calls' \in 0..MaxCalls
    BY BoundAssumption DEF IInv, TypeOK, Enter
  <1>2. Mp(t) \in 1..Len(list)
    BY DEF IInv, TypeOK, ProfileExists, Enter, Mp, NeedsProfile
  <1>3. QED
    BY <1>1, <1>2 DEF Enter, InCall, Working

\* A wrapper that gets as far as making a record.
LEMMA ToRecordStep ==
    ASSUME IInv, NEW t \in Threads, Enter(t), NEW rec \in Records, NEW zero \in BOOLEAN,
           ToRecord(t, rec, zero),
           heap' \subseteq Addrs, size' \in [Addrs -> Nat],
           held' \subseteq held, held' \subseteq heap',
           UNCHANGED <<keyValid, tls, profiles, list, mprId, crashed, hist, open, bytes>>,
           rec.state # "REALLOC" => rec.realloc = NULL,
           rec.state = "REALLOC" => rec.mem \in Addrs /\ rec.realloc \in Addrs,
           rec.state = "FREE" /\ rec.mem = NULL => rec.delta = 0,
           {rec.mem} \ {NULL} \subseteq heap' \ held',
           \A u \in Threads \ {t} :
               Working(u) \subseteq heap' /\ rec.mem \notin Working(u)
    PROVE  IInv'
  <1>1. /\ req'[t] = [mp |-> Mp(t), rec |-> rec, zero |-> zero]
        /\ pc'[t] = "record"
        /\ \A u \in Threads : u # t => req'[u] = req[u] /\ pc'[u] = pc[u]
    BY DEF IInv, TypeOK, ToRecord
  <1>2. req' \in [Threads -> Requests] /\ pc' \in [Threads -> PCs]
    BY EnterFacts DEF IInv, TypeOK, ToRecord, Requests, PCs
  <1>3. TypeOK'
    BY <1>2, EnterFacts DEF IInv, TypeOK
  <1>4. Shape'
    BY <1>1 DEF IInv, Shape, InCall
  <1>5. ProfileExists'
    BY <1>1, EnterFacts DEF IInv, ProfileExists
  <1>6. Ownership'
    <2>1. Working(t)' = {rec.mem} \ {NULL}
      BY <1>1 DEF Working
    <2>2. \A u \in Threads : u # t => Working(u)' = Working(u)
      BY <1>1 DEF Working
    <2>3. QED
      BY <2>1, <2>2 DEF IInv, Ownership
  <1>7. QED
    BY <1>3, <1>4, <1>5, <1>6 DEF IInv

LEMMA CallIInv ==
    ASSUME IInv, NEW t \in Threads, Call(t)
    PROVE  IInv'
  <1> USE DEF libc, profileVars, ghosts
  <1>0. /\ heap \subseteq Addrs /\ held \subseteq heap
        /\ size \in [Addrs -> Nat]
        /\ \A u \in Threads : Working(u) \subseteq heap \ held
        /\ FALSE \in BOOLEAN
    BY DEF IInv, TypeOK, Ownership
  <1>1. ASSUME CreateProfile(t) PROVE IInv'
    <2>1. /\ list' = Append(list, <<>>) /\ list' \in Seq(Seq(Records))
          /\ Len(list') = Len(list) + 1 /\ Len(list) \in Nat
          /\ profiles' \in Seq(Nat)
      BY <1>1 DEF CreateProfile, IInv, TypeOK
    <2>2. [req[t] EXCEPT !.mp = Len(list) + 1] \in Requests
      <3>1. req[t] \in Requests /\ Len(list) + 1 \in Nat
        BY <2>1 DEF IInv, TypeOK
      <3> HIDE DEF IInv
      <3>2. QED
        BY <3>1 DEF Requests
    <2>3. /\ req' \in [Threads -> Requests] /\ pc' \in [Threads -> PCs]
          /\ tls' \in [Threads -> Nat]
          /\ pc[t] = "idle" /\ pc'[t] = "call" /\ req'[t].mp = Len(list) + 1
          /\ \A u \in Threads : u # t => req'[u] = req[u] /\ pc'[u] = pc[u]
          /\ \A u \in Threads : tls'[u] = tls[u] \/ tls'[u] = Len(list) + 1
      BY <1>1, <2>1, <2>2 DEF CreateProfile, IInv, TypeOK, PCs, Requests
    <2>4. TypeOK'
      BY <1>1, <2>1, <2>3, BoundAssumption DEF CreateProfile, IInv, TypeOK
    <2>5. Shape'
      BY <2>3 DEF IInv, Shape, InCall
    <2>6. ProfileExists'
      <3>0. Len(list) \in Nat /\ Len(list') = Len(list) + 1
        BY <2>1
      <3>1. \A u \in Threads : tls'[u] \in 0..Len(list')
        BY <3>0, <2>3 DEF IInv, ProfileExists
      <3>2. \A u \in Threads : pc'[u] # "idle" => req'[u].mp \in 1..Len(list')
        BY <3>0, <2>3 DEF IInv, ProfileExists
      <3>3. QED
        BY <3>1, <3>2 DEF ProfileExists
    <2>7. Ownership'
      <3>1. \A u \in Threads : Working(u)' = Working(u)
        BY <2>3 DEF Working
      <3>2. QED
        BY <1>1, <3>1 DEF CreateProfile, IInv, Ownership
    <2>8. QED
      BY <2>4, <2>5, <2>6, <2>7 DEF IInv
  <1>2. ASSUME CreateProfileFails(t) PROVE IInv'
    BY <1>2 DEF CreateProfileFails, IInv, TypeOK, Shape, InCall, ProfileExists, Ownership,
                Working
  <1>3. ASSUME NEW sz \in Sizes, MallocTrace(t, sz) PROVE IInv'
    <2>1. PICK a \in Addrs \ heap :
             /\ heap' = heap \cup {a}
             /\ size' = [size EXCEPT ![a] = sz]
             /\ ToRecord(t, Record("ALLOC", a, NULL, sz), FALSE)
      BY <1>3 DEF MallocTrace
    <2> DEFINE rec == Record("ALLOC", a, NULL, sz)
    <2>2. /\ rec \in Records /\ rec.state = "ALLOC" /\ rec.mem = a /\ rec.realloc = NULL
          /\ sz \in Nat
      BY SizesAssumption, RecordType DEF States
    <2> HIDE DEF rec
    <2>3. \A u \in Threads \ {t} : Working(u) \subseteq heap' /\ rec.mem \notin Working(u)
      BY <1>0, <2>1, <2>2
    <2>4. {rec.mem} \ {NULL} \subseteq heap' \ held'
      BY <1>0, <1>3, <2>1, <2>2 DEF MallocTrace
    <2>5. size' \in [Addrs -> Nat]
      BY <1>0, <2>1, <2>2
    <2>6. ToRecord(t, rec, FALSE)
      BY <2>1 DEF rec
    <2>7. heap' \subseteq Addrs /\ held' \subseteq held /\ held' \subseteq heap'
      BY <1>0, <1>3, <2>1 DEF MallocTrace
    <2>8. QED
      BY <1>0, <1>3, <2>2, <2>3, <2>4, <2>5, <2>6, <2>7, ToRecordStep DEF MallocTrace
  <1>4. ASSUME NEW sz \in Sizes, MallocTraceFails(t, sz) PROVE IInv'
    <2> DEFINE rec == Record("ALLOC", NULL, NULL, sz)
    <2>2. rec \in Records /\ rec.state = "ALLOC" /\ rec.mem = NULL /\ rec.realloc = NULL
      BY SizesAssumption, RecordType DEF States
    <2>3. ToRecord(t, rec, FALSE)
      BY <1>4 DEF MallocTraceFails
    <2> HIDE DEF rec
    <2>4. \A u \in Threads \ {t} : Working(u) \subseteq heap /\ rec.mem \notin Working(u)
      BY <1>0, <2>2 DEF Working
    <2>5. QED
      BY <1>0, <1>4, <2>2, <2>3, <2>4, ToRecordStep DEF MallocTraceFails
  <1>5. ASSUME NEW b \in held, FreeTrace(t, b) PROVE IInv'
    <2> DEFINE rec == Record("FREE", b, NULL, -size[b])
    <2>1. b \in Addrs /\ -size[b] \in Int /\ b # NULL
      BY <1>0, NullAssumption
    <2>2. rec \in Records /\ rec.state = "FREE" /\ rec.mem = b /\ rec.realloc = NULL
      BY <2>1, RecordType DEF States
    <2>3. ToRecord(t, rec, FALSE)
      BY <1>5 DEF FreeTrace
    <2> HIDE DEF rec
    <2>4. \A u \in Threads \ {t} : Working(u) \subseteq heap /\ rec.mem \notin Working(u)
      BY <1>0, <2>2
    <2>5. QED
      BY <1>0, <1>5, <2>1, <2>2, <2>3, <2>4, ToRecordStep DEF FreeTrace
  <1>6. ASSUME NEW zero \in BOOLEAN, FreeNullTrace(t, zero) PROVE IInv'
    <2> DEFINE rec == Record("FREE", NULL, NULL, 0)
    <2>2. /\ rec \in Records /\ rec.state = "FREE" /\ rec.mem = NULL
          /\ rec.realloc = NULL /\ rec.delta = 0
      BY RecordType DEF States
    <2>3. ToRecord(t, rec, zero)
      BY <1>6 DEF FreeNullTrace
    <2> HIDE DEF rec
    <2>4. \A u \in Threads \ {t} : Working(u) \subseteq heap /\ rec.mem \notin Working(u)
      BY <1>0, <2>2 DEF Working
    <2>5. QED
      BY <1>0, <1>6, <2>2, <2>3, <2>4, ToRecordStep DEF FreeNullTrace
  <1>7. ASSUME NEW b \in held, NEW sz \in Sizes, ReallocTrace(t, b, sz) PROVE IInv'
    <2>1. PICK nb \in {b} \cup (Addrs \ heap) :
             /\ heap' = (heap \ {b}) \cup {nb}
             /\ size' = [size EXCEPT ![nb] = sz]
             /\ ToRecord(t, Record("REALLOC", nb, b, sz - size[b]), FALSE)
      BY <1>7 DEF ReallocTrace, Destinations
    <2> DEFINE rec == Record("REALLOC", nb, b, sz - size[b])
    <2>2. /\ rec \in Records /\ rec.state = "REALLOC" /\ rec.mem = nb /\ rec.realloc = b
          /\ sz \in Nat /\ b \in Addrs /\ nb \in Addrs
      <3>1. b \in Addrs /\ nb \in Addrs /\ sz \in Nat /\ sz - size[b] \in Int
        BY <1>0, SizesAssumption
      <3>2. QED
        BY <3>1, RecordType DEF States
    <2> HIDE DEF rec
    <2>3. \A u \in Threads \ {t} : Working(u) \subseteq heap' /\ rec.mem \notin Working(u)
      BY <1>0, <2>1, <2>2
    <2>4. {rec.mem} \ {NULL} \subseteq heap' \ held'
      BY <1>0, <1>7, <2>1, <2>2 DEF ReallocTrace
    <2>5. size' \in [Addrs -> Nat]
      BY <1>0, <2>1, <2>2
    <2>6. ToRecord(t, rec, FALSE)
      BY <2>1 DEF rec
    <2>7. heap' \subseteq Addrs /\ held' \subseteq held /\ held' \subseteq heap'
      BY <1>0, <1>7, <2>1, <2>2 DEF ReallocTrace
    <2>8. QED
      BY <1>7, <2>2, <2>3, <2>4, <2>5, <2>6, <2>7, ToRecordStep DEF ReallocTrace
  <1>8. ASSUME ReallocTraceFails(t) PROVE IInv'
    <2>1. /\ req'[t] = NoReq /\ pc'[t] = "idle" /\ ~InCall(t)
          /\ \A u \in Threads : u # t => req'[u] = req[u] /\ pc'[u] = pc[u]
          /\ req' \in [Threads -> Requests] /\ pc' \in [Threads -> PCs]
      BY <1>8, EnterFacts, NoReqType DEF ReallocTraceFails, IInv, TypeOK, PCs
    <2>2. TypeOK'
      BY <1>8, <2>1, EnterFacts DEF ReallocTraceFails, IInv, TypeOK
    <2>3. Shape' /\ ProfileExists'
      BY <1>8, <2>1 DEF ReallocTraceFails, IInv, Shape, InCall, ProfileExists
    <2>4. Ownership'
      <3>1. /\ Working(t)' = {}
            /\ \A u \in Threads : u # t => Working(u)' = Working(u)
        BY <2>1 DEF Working
      <3>2. QED
        BY <1>8, <3>1 DEF ReallocTraceFails, IInv, Ownership
    <2>5. QED
      BY <2>2, <2>3, <2>4 DEF IInv
  <1>9. ASSUME MergeProfile(t) PROVE IInv'
    <2>1. /\ tls' \in [Threads -> Nat]
          /\ \A u \in Threads : tls'[u] = tls[u] \/ tls'[u] = 0
      BY <1>9 DEF MergeProfile, IInv, TypeOK
    <2>2. TypeOK' /\ Shape'
      BY <1>9, <2>1 DEF MergeProfile, IInv, TypeOK, Shape, InCall
    <2>3. ProfileExists'
      BY <1>9, <2>1 DEF MergeProfile, IInv, TypeOK, ProfileExists
    <2>4. Ownership'
      BY <1>9 DEF MergeProfile, IInv, Ownership, Working
    <2>5. QED
      BY <2>2, <2>3, <2>4 DEF IInv
  <1>10. QED
    BY <1>1, <1>2, <1>3, <1>4, <1>5, <1>6, <1>7, <1>8, <1>9 DEF Call

(***************************************************************************)
(* Recording, and the end of a wrapper.                                    *)
(***************************************************************************)
LEMMA FinishStep ==
    ASSUME IInv, NEW t \in Threads, pc[t] \in {"record", "insert"}, Finish(t),
           list' \in Seq(Seq(Records)), Len(list') = Len(list),
           UNCHANGED <<heap, size, keyValid, tls, profiles, mprId, calls, crashed,
                       hist, open, bytes>>
    PROVE  IInv'
  <1>0. req[t] \in Requests /\ req[t].rec.mem \in Addrs \cup {NULL}
    BY DEF IInv, TypeOK, Requests, Records
  <1>1. CASE req[t].rec.state = "FREE"
    <2>1. /\ pc' \in [Threads -> PCs] /\ UNCHANGED <<held, req>>
          /\ pc'[t] = "libc" /\ \A u \in Threads : u # t => pc'[u] = pc[u]
      BY <1>1 DEF Finish, IInv, TypeOK, PCs
    <2>2. TypeOK'
      BY <2>1 DEF IInv, TypeOK
    <2>3. Shape' /\ ProfileExists'
      BY <1>1, <2>1 DEF IInv, Shape, InCall, ProfileExists
    <2>4. Ownership'
      <3>1. \A u \in Threads : Working(u)' = Working(u)
        BY <2>1 DEF Working
      <3>2. QED
        BY <2>1, <3>1 DEF IInv, Ownership
    <2>5. QED
      BY <2>2, <2>3, <2>4 DEF IInv
  <1>2. CASE req[t].rec.state # "FREE"
    <2>1. /\ pc' \in [Threads -> PCs] /\ req' \in [Threads -> Requests]
          /\ held' = held \cup Working(t)
          /\ pc'[t] = "idle"
          /\ \A u \in Threads : u # t => req'[u] = req[u] /\ pc'[u] = pc[u]
      BY <1>2, NoReqType DEF Finish, IInv, TypeOK, PCs, Working
    <2>2. TypeOK'
      BY <1>0, <2>1 DEF IInv, TypeOK, Ownership
    <2>3. Shape' /\ ProfileExists'
      BY <2>1 DEF IInv, Shape, InCall, ProfileExists
    <2>4. Ownership'
      <3>1. /\ Working(t)' = {}
            /\ \A u \in Threads : u # t => Working(u)' = Working(u)
        BY <2>1 DEF Working
      <3>2. QED
        BY <2>1, <3>1 DEF IInv, Ownership
    <2>5. QED
      BY <2>2, <2>3, <2>4 DEF IInv
  <1>3. QED
    BY <1>1, <1>2

\* The history variables keep their types.
LEMMA RememberType ==
    ASSUME TypeOK, NEW rec \in Records, Remember(rec)
    PROVE  /\ hist' \in Seq(Entries)
           /\ open' \in [Addrs -> Nat] /\ bytes' \in [Addrs -> Int]
  <1>1. /\ rec.state \in States /\ rec.mem \in Addrs \cup {NULL}
        /\ rec.realloc \in Addrs \cup {NULL} /\ rec.delta \in Int
    BY DEF Records
  <1>2. Released(rec) # NULL => Released(rec) \in Addrs
    BY <1>1 DEF Released, States
  <1> DEFINE prev == IF Released(rec) = NULL THEN 0 ELSE open[Released(rec)]
             before == IF Released(rec) = NULL THEN 0 ELSE bytes[Released(rec)]
             e == [state |-> rec.state, mem |-> rec.mem, realloc |-> rec.realloc,
                   delta |-> rec.delta, prev |-> prev]
  <1>3. prev \in Nat /\ before \in Int /\ before + rec.delta \in Int
    BY <1>1, <1>2 DEF TypeOK
  <1>4. e \in Entries
    BY <1>1, <1>3 DEF Entries
  <1>5. hist' = Append(hist, e) /\ hist \in Seq(Entries) /\ Len(hist) \in Nat
    BY DEF Remember, TypeOK
  <1>6. hist' \in Seq(Entries)
    <2> HIDE DEF e
    <2>1. QED
      BY <1>4, <1>5
  <1>7. open' \in [Addrs -> Nat]
    BY <1>5 DEF Remember, TypeOK
  <1>8. bytes' \in [Addrs -> Int]
    BY <1>3 DEF Remember, TypeOK
  <1>9. QED
    BY <1>6, <1>7, <1>8

LEMMA StepIInv ==
    ASSUME IInv, NEW t \in Threads, Step(t)
    PROVE  IInv'
  <1> USE DEF libc, profileVars, ghosts
  <1>0. /\ req[t] \in Requests /\ req[t].rec \in Records
        /\ req[t].rec.mem \in Addrs \cup {NULL} /\ mprId + 1 \in Nat
    BY DEF IInv, TypeOK, Requests, Records
  <1>1. ASSUME TakeId(t) PROVE IInv'
    <2>1. [req[t].rec EXCEPT !.id = mprId + 1] \in Records
      BY <1>0 DEF Records
    <2>2. [req[t] EXCEPT !.rec.id = mprId + 1] \in Requests
      BY <1>0, <2>1 DEF Requests
    <2>3. /\ req'[t] = [req[t] EXCEPT !.rec.id = mprId + 1]
          /\ req' \in [Threads -> Requests] /\ pc' \in [Threads -> PCs]
          /\ pc[t] = "record" /\ pc'[t] = "insert"
          /\ \A u \in Threads : u # t => req'[u] = req[u] /\ pc'[u] = pc[u]
      BY <1>1, <2>2 DEF TakeId, IInv, TypeOK, PCs
    <2>4. /\ req'[t].mp = req[t].mp
          /\ req'[t].rec.state = req[t].rec.state /\ req'[t].rec.mem = req[t].rec.mem
          /\ req'[t].rec.realloc = req[t].rec.realloc
          /\ req'[t].rec.delta = req[t].rec.delta
      BY <1>0, <2>3 DEF Requests, Records
    <2>5. TypeOK'
      <3>1. /\ hist' \in Seq(Entries)
            /\ open' \in [Addrs -> Nat] /\ bytes' \in [Addrs -> Int]
        BY <1>0, <1>1, RememberType DEF TakeId, IInv
      <3>2. QED
        BY <1>0, <1>1, <2>3, <3>1 DEF TakeId, IInv, TypeOK
    <2>6. Shape' /\ ProfileExists'
      BY <1>1, <2>3, <2>4 DEF TakeId, IInv, Shape, InCall, ProfileExists
    <2>7. Ownership'
      <3>1. \A u \in Threads : Working(u)' = Working(u)
        BY <2>3, <2>4 DEF Working
      <3>2. QED
        BY <1>1, <3>1 DEF TakeId, IInv, Ownership
    <2>8. QED
      BY <2>5, <2>6, <2>7 DEF IInv
  <1>2. ASSUME RecordLost(t) PROVE IInv'
    BY <1>2, FinishStep DEF RecordLost, IInv, TypeOK
  <1>3. ASSUME InsertTail(t) PROVE IInv'
    <2>1. req[t].mp \in 1..Len(list) /\ list \in Seq(Seq(Records))
      BY <1>3 DEF InsertTail, IInv, TypeOK, ProfileExists
    <2>2. Append(list[req[t].mp], req[t].rec) \in Seq(Records)
      BY <1>0, <2>1
    <2>3. list' \in Seq(Seq(Records)) /\ Len(list') = Len(list)
      BY <1>3, <2>1, <2>2 DEF InsertTail
    <2>4. QED
      BY <1>3, <2>3, FinishStep DEF InsertTail
  <1>4. ASSUME LibcRelease(t) PROVE IInv'
    <2>1. /\ req'[t] = NoReq /\ pc'[t] = "idle" /\ pc[t] = "libc"
          /\ \A u \in Threads : u # t => req'[u] = req[u] /\ pc'[u] = pc[u]
          /\ req' \in [Threads -> Requests] /\ pc' \in [Threads -> PCs]
      BY <1>4, NoReqType DEF LibcRelease, IInv, TypeOK, PCs
    <2>2. /\ heap' \subseteq Addrs
          /\ \A a \in heap : a \in heap' \/ a \in Working(t)
      BY <1>4, NullAssumption DEF LibcRelease, IInv, TypeOK, Ownership, Working
    <2>3. TypeOK'
      BY <1>4, <2>1, <2>2 DEF LibcRelease, IInv, TypeOK
    <2>4. Shape' /\ ProfileExists'
      BY <1>4, <2>1 DEF LibcRelease, IInv, Shape, InCall, ProfileExists
    <2>5. Ownership'
      <3>1. /\ Working(t)' = {}
            /\ \A u \in Threads : u # t => Working(u)' = Working(u)
        BY <2>1 DEF Working
      <3>2. QED
        BY <1>4, <2>2, <3>1 DEF LibcRelease, IInv, Ownership
    <2>6. QED
      BY <2>3, <2>4, <2>5 DEF IInv
  <1>5. QED
    BY <1>1, <1>2, <1>3, <1>4 DEF Step

LEMMA NextIInv == IInv /\ [Next]_vars => IInv'
  <1>1. ASSUME IInv, UNCHANGED vars PROVE IInv'
    BY <1>1 DEF vars, IInv, TypeOK, Shape, InCall, ProfileExists, Ownership, Working
  <1>2. QED
    BY <1>1, CallIInv, StepIInv DEF Next, Done

(* The variables of the recorder keep their types.                         *)
THEOREM TypeCorrect == Spec => []TypeOK
  <1>1. IInv => TypeOK
    BY DEF IInv
  <1>2. QED
    BY <1>1, InitIInv, NextIInv, PTL DEF Spec

(* In every configuration - failing allocations, moving reallocs, any      *)
(* number of threads - no address is in two places at once.                *)
THEOREM AddressesAreExclusive == Spec => []Ownership
  <1>1. IInv => Ownership
    BY DEF IInv
  <1>2. QED
    BY <1>1, InitIInv, NextIInv, PTL DEF Spec

(***************************************************************************)
(* The log and the heap, under ChainSafe.  Marked(t) is the address whose  *)
(* chain thread t keeps open (or will close); SafeInv adds to              *)
(* LogMatchesHeap that the address a moving realloc() has left is not      *)
(* handed out before its record is made, as no other thread is in a call   *)
(* until then - the only reason a second thread breaks the log.            *)
(***************************************************************************)
Marked(t) ==
    CASE pc[t] = "record" -> {Released(req[t].rec)} \ {NULL}
      [] pc[t] = "insert" -> {Acquired(req[t].rec)} \ {NULL}
      [] OTHER -> {}

SafeInv ==
    /\ LogMatchesHeap
    /\ \A t \in Threads : pc[t] \in {"record", "insert"} =>
          LET rec == req[t].rec
          IN  /\ rec.state # "FREE" => rec.mem \in Addrs /\ size[rec.mem] \in Sizes
              /\ Moved(t) => /\ ReallocMoves /\ rec.realloc \notin heap
                             /\ \A u \in Threads \ {t} : Outside(u)

LEMMA RecFacts ==
    ASSUME IInv, NEW t \in Threads
    PROVE  /\ req[t].rec.state \in States
           /\ req[t].rec.mem \in Addrs \cup {NULL}
           /\ req[t].rec.realloc \in Addrs \cup {NULL}
           /\ req[t].rec.delta \in Int
           /\ req[t].rec.state = "ALLOC" => Released(req[t].rec) = NULL
           /\ req[t].rec.state = "FREE" => Released(req[t].rec) = req[t].rec.mem
           /\ req[t].rec.state = "REALLOC" => Released(req[t].rec) = req[t].rec.realloc
           /\ req[t].rec.state = "FREE" => Acquired(req[t].rec) = NULL
           /\ req[t].rec.state # "FREE" => Acquired(req[t].rec) = req[t].rec.mem
  <1>1. /\ req[t].rec.state \in States
        /\ req[t].rec.mem \in Addrs \cup {NULL}
        /\ req[t].rec.realloc \in Addrs \cup {NULL}
        /\ req[t].rec.delta \in Int
    BY DEF IInv, TypeOK, Requests, Records
  <1>2. QED
    BY <1>1 DEF Released, Acquired

LEMMA MarkedFacts ==
    ASSUME IInv, SafeInv, ChainSafe
    PROVE  /\ \A a \in Addrs : Logged(a) <=> a \in held \/ \E t \in Threads : a \in Marked(t)
           /\ \A t \in Threads : Marked(t) \cap held = {}
           /\ \A t, u \in Threads : t # u => /\ Marked(t) \cap Marked(u) = {}
                                             /\ Marked(t) \cap Working(u) = {}
  <1>1. \A a \in Addrs : Logged(a) <=> a \in held \/ \E t \in Threads : a \in Marked(t)
    BY NullAssumption DEF Logged, Marked
  <1>2. ASSUME NEW t \in Threads
        PROVE  \/ Marked(t) \subseteq Working(t)
               \/ /\ Marked(t) \cap heap = {}
                  /\ \A u \in Threads \ {t} : Outside(u)
    <2>1. CASE pc[t] = "record"
      BY <2>1, RecFacts DEF Marked, Working, SafeInv, States, Moved
    <2>2. CASE pc[t] = "insert"
      BY <2>2, RecFacts DEF Marked, Working, States
    <2>3. CASE pc[t] \notin {"record", "insert"}
      BY <2>3 DEF Marked
    <2>4. QED
      BY <2>1, <2>2, <2>3
  <1>3. \A t \in Threads : Marked(t) \cap held = {}
    BY <1>2 DEF IInv, Ownership
  <1>4. \A t, u \in Threads : t # u => /\ Marked(t) \cap Marked(u) = {}
                                       /\ Marked(t) \cap Working(u) = {}
    <2>1. \A u \in Threads : Outside(u) => Marked(u) = {} /\ Working(u) = {}
      BY DEF Outside, Marked, Working
    <2>2. QED
      BY <1>2, <2>1 DEF IInv, Ownership
  <1>5. QED
    BY <1>1, <1>3, <1>4

LEMMA InitSafe == Init => SafeInv
  BY DEF Init, SafeInv, LogMatchesHeap, Logged

\* Entering a wrapper: the blocks the record will release are unmarked as
\* held and marked by the thread, so the log goes on agreeing with the heap.
LEMMA SafeToRecord ==
    ASSUME IInv, SafeInv, ChainSafe, NEW t \in Threads, Enter(t),
           NEW rec \in Records, NEW zero \in BOOLEAN, ToRecord(t, rec, zero),
           UNCHANGED <<open, bytes>>,
           held' = held \ {Released(rec)},
           Released(rec) \in held \/ Released(rec) = NULL,
           rec.mem \notin held', size' \in [Addrs -> Nat],
           \A u \in Threads \ {t} : rec.mem \notin Working(u),
           \A a \in Addrs : a # rec.mem => size'[a] = size[a],
           rec.state = "ALLOC" => size'[rec.mem] = rec.delta,
           rec.state = "FREE" /\ rec.mem # NULL =>
               rec.mem \in held /\ size[rec.mem] = -rec.delta,
           rec.state = "REALLOC" => /\ rec.realloc \in held
                                    /\ size'[rec.mem] = size[rec.realloc] + rec.delta,
           rec.state # "FREE" => rec.mem \in Addrs /\ size'[rec.mem] \in Sizes,
           rec.state = "REALLOC" /\ rec.mem # rec.realloc
               => /\ ReallocMoves /\ rec.realloc \notin heap'
                  /\ \A u \in Threads \ {t} : Outside(u)
    PROVE  SafeInv'
  <1>1. /\ req'[t] = [mp |-> Mp(t), rec |-> rec, zero |-> zero]
        /\ req'[t].rec = rec /\ pc'[t] = "record" /\ pc[t] \notin {"record", "insert"}
        /\ \A u \in Threads : u # t => req'[u] = req[u] /\ pc'[u] = pc[u]
    BY DEF IInv, TypeOK, ToRecord, Enter
  <1>2. /\ Marked(t) = {} /\ Marked(t)' = {Released(rec)} \ {NULL}
        /\ \A u \in Threads : u # t => Marked(u)' = Marked(u)
    BY <1>1 DEF Marked, Released, Acquired
  <1>3. ASSUME NEW a \in Addrs PROVE open'[a] # 0 <=> Logged(a)'
    <2>1. open[a] # 0 <=> a \in held \/ \E u \in Threads : a \in Marked(u)
      BY MarkedFacts DEF SafeInv, LogMatchesHeap
    <2>2. Logged(a)' <=> a \in held' \/ \E u \in Threads : a \in Marked(u)'
      BY NullAssumption DEF Logged, Marked
    <2>3. (a \in held' \/ \E u \in Threads : a \in Marked(u)')
             <=> (a \in held \/ \E u \in Threads : a \in Marked(u))
      BY <1>2, NullAssumption
    <2>4. QED
      BY <2>1, <2>2, <2>3
  <1>4. \A a \in held' : bytes'[a] = size'[a]
    BY DEF SafeInv, LogMatchesHeap, IInv, TypeOK
  <1>5. DeltaDue(req[t].rec)'
    <2>1. rec.state \in States
      BY DEF Records
    <2>2. \A a \in held : bytes[a] = size[a]
      BY DEF SafeInv, LogMatchesHeap
    <2>3. QED
      BY <1>1, <2>1, <2>2 DEF DeltaDue, States
  <1>6. ASSUME NEW u \in Threads, u # t
        PROVE  /\ pc'[u] = "record" => DeltaDue(req[u].rec)'
               /\ pc'[u] = "insert" /\ req'[u].rec.state # "FREE"
                     => bytes'[req'[u].rec.mem] = size'[req'[u].rec.mem]
               /\ pc'[u] \in {"record", "insert"} /\ req'[u].rec.state # "FREE"
                     => req'[u].rec.mem \in Addrs /\ size'[req'[u].rec.mem] \in Sizes
    <2>1. pc[u] \in {"record", "insert"} /\ req[u].rec.state # "FREE" =>
             /\ req[u].rec.mem \in Addrs /\ req[u].rec.mem # rec.mem
             /\ size'[req[u].rec.mem] = size[req[u].rec.mem]
      BY <1>6, NullAssumption DEF SafeInv, Working
    <2>2. pc[u] = "record" => DeltaDue(req[u].rec)
      BY <1>6 DEF SafeInv, LogMatchesHeap
    <2>3. pc'[u] = "record" => DeltaDue(req[u].rec)'
      BY <1>1, <1>6, <2>1, <2>2, RecFacts DEF DeltaDue, States
    <2>4. QED
      BY <1>1, <1>6, <2>1, <2>3 DEF SafeInv, LogMatchesHeap
  <1>7. LogMatchesHeap'
    BY <1>1, <1>3, <1>4, <1>5, <1>6 DEF LogMatchesHeap
  <1>8. ASSUME NEW u \in Threads, Moved(u)'
        PROVE  /\ ReallocMoves /\ req'[u].rec.realloc \notin heap'
               /\ \A v \in Threads \ {u} : Outside(v)'
    <2>1. CASE u = t
      BY <1>1, <1>8, <2>1 DEF Moved, Outside
    <2>2. CASE u # t
      <3>1. Moved(u)
        BY <1>1, <1>8, <2>2 DEF Moved
      <3>2. ReallocMoves
        BY <3>1 DEF SafeInv, Moved
      <3>3. QED
        BY <3>1, <3>2 DEF ChainSafe, Enter
    <2>3. QED
      BY <2>1, <2>2
  <1>9. QED
    BY <1>1, <1>6, <1>7, <1>8 DEF SafeInv

\* Steps that move no block into or out of the log.
LEMMA SafeFrame ==
    ASSUME IInv, SafeInv, ChainSafe, UNCHANGED <<size, held, open, bytes>>,
           \A u \in Threads :
               \/ pc'[u] = pc[u] /\ req'[u] = req[u]
               \/ /\ pc[u] \notin {"record", "insert"} \/ Acquired(req[u].rec) = NULL
                  /\ pc[u] # "record" /\ pc'[u] \notin {"record", "insert"}
                  /\ Outside(u) => Outside(u)',
           heap' \subseteq heap \/ \E u \in Threads : ~Outside(u) /\ pc[u] # "record"
    PROVE  SafeInv'
  <1>1. \A u \in Threads : pc'[u] \in {"record", "insert"} => pc'[u] = pc[u] /\ req'[u] = req[u]
    OBVIOUS
  <1>2. \A u \in Threads : Marked(u)' = Marked(u)
    BY DEF Marked
  <1>3. ASSUME NEW a \in Addrs PROVE open'[a] # 0 <=> Logged(a)'
    <2>1. open[a] # 0 <=> a \in held \/ \E u \in Threads : a \in Marked(u)
      BY MarkedFacts DEF SafeInv, LogMatchesHeap
    <2>2. Logged(a)' <=> a \in held' \/ \E u \in Threads : a \in Marked(u)'
      BY NullAssumption DEF Logged, Marked
    <2>3. QED
      BY <1>2, <2>1, <2>2
  <1>4. \A u \in Threads : pc'[u] = "record" => DeltaDue(req[u].rec)'
    BY <1>1 DEF DeltaDue, SafeInv, LogMatchesHeap
  <1>5. LogMatchesHeap'
    BY <1>1, <1>3, <1>4 DEF SafeInv, LogMatchesHeap
  <1>6. ASSUME NEW u \in Threads, Moved(u)'
        PROVE  /\ ReallocMoves /\ req'[u].rec.realloc \notin heap'
               /\ \A v \in Threads \ {u} : Outside(v)'
    <2>1. Moved(u) /\ req'[u] = req[u] /\ pc[u] = "record"
      BY <1>1, <1>6 DEF Moved
    <2>2. /\ ReallocMoves /\ req[u].rec.realloc \notin heap
          /\ \A v \in Threads \ {u} : Outside(v)
      BY <2>1 DEF SafeInv
    <2>3. \A v \in Threads \ {u} : Outside(v)'
      BY <2>2 DEF Outside
    <2>4. QED
      BY <2>1, <2>2, <2>3
  <1>7. QED
    BY <1>1, <1>5, <1>6 DEF SafeInv

\* Steps that leave all of it alone.
LEMMA SafeUnchanged ==
    ASSUME SafeInv, UNCHANGED <<heap, size, held, pc, req, open, bytes>>
    PROVE  SafeInv'
  <1>1. LogMatchesHeap'
    BY DEF SafeInv, LogMatchesHeap, Logged, DeltaDue
  <1>2. \A t \in Threads : (Moved(t)' <=> Moved(t)) /\ (Outside(t)' <=> Outside(t))
    BY DEF Moved, Outside
  <1>3. QED
    BY <1>1, <1>2 DEF SafeInv

LEMMA CallSafe ==
    ASSUME IInv, SafeInv, ChainSafe, NEW t \in Threads, Call(t)
    PROVE  SafeInv'
  <1> USE DEF libc, profileVars, ghosts
  <1>0. /\ heap \subseteq Addrs /\ held \subseteq heap /\ size \in [Addrs -> Nat]
        /\ \A u \in Threads : Working(u) \subseteq heap \ held
        /\ FALSE \in BOOLEAN
    BY DEF IInv, TypeOK, Ownership
  <1>1. ASSUME CreateProfile(t) PROVE SafeInv'
    <2>1. \A u \in Threads : \/ pc'[u] = pc[u] /\ req'[u] = req[u]
                             \/ pc[u] = "idle" /\ pc'[u] = "call"
      BY <1>1 DEF CreateProfile, IInv, TypeOK
    <2>2. QED
      BY <1>1, <2>1, SafeFrame DEF CreateProfile, Outside
  <1>2. ASSUME NEW sz \in Sizes, MallocTrace(t, sz) PROVE SafeInv'
    <2>1. PICK a \in Addrs \ heap :
             /\ heap' = heap \cup {a}
             /\ size' = [size EXCEPT ![a] = sz]
             /\ ToRecord(t, Record("ALLOC", a, NULL, sz), FALSE)
      BY <1>2 DEF MallocTrace
    <2> DEFINE rec == Record("ALLOC", a, NULL, sz)
    <2>2. /\ rec \in Records /\ rec.state = "ALLOC" /\ rec.mem = a
          /\ rec.delta = sz /\ Released(rec) = NULL /\ sz \in Nat
      BY SizesAssumption, RecordType DEF States, Released
    <2>3. ToRecord(t, rec, FALSE)
      BY <2>1 DEF rec
    <2> HIDE DEF rec
    <2>4. /\ size' \in [Addrs -> Nat] /\ size'[a] = sz
          /\ \A x \in Addrs : x # a => size'[x] = size[x]
      BY <1>0, <2>1, <2>2
    <2>5. /\ \A u \in Threads \ {t} : rec.mem \notin Working(u)
          /\ held' = held \ {Released(rec)} /\ rec.mem \notin held'
      BY <1>0, <1>2, <2>1, <2>2, NullAssumption DEF MallocTrace
    <2>6. QED
      BY <1>0, <1>2, <2>1, <2>2, <2>3, <2>4, <2>5, SafeToRecord DEF MallocTrace
  <1>3. ASSUME NEW b \in held, FreeTrace(t, b) PROVE SafeInv'
    <2> DEFINE rec == Record("FREE", b, NULL, -size[b])
    <2>1. b \in Addrs /\ -size[b] \in Int /\ b # NULL /\ size[b] = -(-size[b])
      BY <1>0, NullAssumption
    <2>2. /\ rec \in Records /\ rec.state = "FREE" /\ rec.mem = b
          /\ rec.delta = -size[b] /\ Released(rec) = b
      BY <2>1, RecordType DEF States, Released
    <2>3. ToRecord(t, rec, FALSE)
      BY <1>3 DEF FreeTrace
    <2> HIDE DEF rec
    <2>4. \A u \in Threads \ {t} : rec.mem \notin Working(u)
      BY <1>0, <2>2
    <2>5. QED
      BY <1>0, <1>3, <2>1, <2>2, <2>3, <2>4, SafeToRecord DEF FreeTrace
  <1>4. ASSUME NEW zero \in BOOLEAN, FreeNullTrace(t, zero) PROVE SafeInv'
    <2> DEFINE rec == Record("FREE", NULL, NULL, 0)
    <2>1. /\ rec \in Records /\ rec.state = "FREE" /\ rec.mem = NULL
          /\ Released(rec) = NULL
      BY RecordType DEF States, Released
    <2>2. ToRecord(t, rec, zero)
      BY <1>4 DEF FreeNullTrace
    <2> HIDE DEF rec
    <2>3. /\ \A u \in Threads \ {t} : rec.mem \notin Working(u)
          /\ NULL \notin held
      BY <1>0, <2>1, NullAssumption
    <2>4. QED
      BY <1>0, <1>4, <2>1, <2>2, <2>3, SafeToRecord DEF FreeNullTrace
  <1>5. ASSUME NEW b \in held, NEW sz \in Sizes, ReallocTrace(t, b, sz) PROVE SafeInv'
    <2>1. PICK nb \in Destinations(t, b) :
             /\ heap' = (heap \ {b}) \cup {nb}
             /\ size' = [size EXCEPT ![nb] = sz]
             /\ ToRecord(t, Record("REALLOC", nb, b, sz - size[b]), FALSE)
      BY <1>5 DEF ReallocTrace
    <2> DEFINE rec == Record("REALLOC", nb, b, sz - size[b])
    <2>2. /\ b \in Addrs /\ nb \in Addrs /\ sz \in Nat /\ size[b] \in Nat
          /\ nb = b \/ /\ nb \notin heap /\ ReallocMoves
                       /\ \A u \in Threads \ {t} : Outside(u)
      BY <1>0, <2>1, SizesAssumption DEF Destinations, ChainSafe
    <2>3. /\ rec \in Records /\ rec.state = "REALLOC" /\ rec.mem = nb /\ rec.realloc = b
          /\ rec.delta = sz - size[b] /\ Released(rec) = b
      <3>1. sz - size[b] \in Int
        BY <2>2
      <3>2. QED
        BY <2>2, <3>1, RecordType DEF States, Released
    <2>4. ToRecord(t, rec, FALSE)
      BY <2>1 DEF rec
    <2> HIDE DEF rec
    <2>5. /\ size' \in [Addrs -> Nat] /\ size'[nb] = sz /\ sz = size[b] + (sz - size[b])
          /\ \A x \in Addrs : x # nb => size'[x] = size[x]
      BY <1>0, <2>1, <2>2
    <2>6. \A u \in Threads \ {t} : rec.mem \notin Working(u)
      BY <1>0, <2>2, <2>3
    <2>7. held' = held \ {Released(rec)} /\ rec.mem \notin held'
      BY <1>0, <1>5, <2>2, <2>3 DEF ReallocTrace
    <2>8. rec.mem # rec.realloc => /\ ReallocMoves /\ rec.realloc \notin heap'
                                   /\ \A u \in Threads \ {t} : Outside(u)
      BY <2>1, <2>2, <2>3
    <2>9. QED
      BY <1>5, <2>2, <2>3, <2>4, <2>5, <2>6, <2>7, <2>8, SafeToRecord DEF ReallocTrace
  <1>6. ASSUME MergeProfile(t) PROVE SafeInv'
    BY <1>6, SafeUnchanged DEF MergeProfile
  <1>7. QED
    BY <1>1, <1>2, <1>3, <1>4, <1>5, <1>6
    DEF Call, ChainSafe, CreateProfileFails, MallocTraceFails, ReallocTraceFails

(***************************************************************************)
(* Taking an id is the step that changes the history.                      *)
(***************************************************************************)
LEMMA TakeIdSafe ==
    ASSUME IInv, SafeInv, ChainSafe, NEW t \in Threads, TakeId(t)
    PROVE  SafeInv'
  <1> DEFINE rec == req[t].rec
             old == Released(rec)
             new == Acquired(rec)
  <1>1. /\ pc[t] = "record" /\ pc'[t] = "insert"
        /\ \A u \in Threads : u # t => req'[u] = req[u] /\ pc'[u] = pc[u]
        /\ UNCHANGED <<heap, size, held>>
    BY DEF TakeId, IInv, TypeOK, libc
  <1>2. /\ req'[t].rec.state = rec.state /\ req'[t].rec.mem = rec.mem
        /\ req'[t].rec.realloc = rec.realloc /\ Acquired(req[t].rec)' = new
    <2>1. req[t] \in Requests /\ req'[t] = [req[t] EXCEPT !.rec.id = mprId + 1]
      BY DEF TakeId, IInv, TypeOK
    <2>2. /\ req'[t].rec.state = rec.state /\ req'[t].rec.mem = rec.mem
          /\ req'[t].rec.realloc = rec.realloc
      BY <2>1 DEF Requests, Records
    <2>3. QED
      BY <2>2 DEF Acquired
  <1>3. /\ Marked(t) = {old} \ {NULL} /\ Marked(t)' = {new} \ {NULL}
        /\ \A u \in Threads : u # t => Marked(u)' = Marked(u)
    BY <1>1, <1>2 DEF Marked, Released, Acquired
  <1>4. /\ old # NULL => old \in Addrs
        /\ new # NULL => new \in Addrs /\ new \in Working(t) /\ new = rec.mem
        /\ rec.state # "FREE" => new = rec.mem /\ new # NULL
        /\ rec.state = "FREE" => new = NULL
    BY <1>1, RecFacts, NullAssumption DEF SafeInv, Working, States
  <1>5. /\ \A a \in Addrs : open'[a] = IF a = new THEN Len(hist) + 1
                                       ELSE IF a = old THEN 0 ELSE open[a]
        /\ \A a \in Addrs : bytes'[a] = IF a = new
                                        THEN (IF old = NULL THEN 0 ELSE bytes[old]) + rec.delta
                                        ELSE IF a = old THEN 0 ELSE bytes[a]
    BY DEF TakeId, Remember
  <1>6. Len(hist) + 1 # 0
    <2>1. Len(hist) \in Nat
      BY DEF IInv, TypeOK
    <2>2. QED
      BY <2>1
  <1>7. \A u \in Threads : u # t => /\ new \notin Marked(u) \/ new = NULL
                                    /\ new \notin Working(u) \/ new = NULL
                                    /\ old \notin Marked(u) \/ old = NULL
                                    /\ old \notin Working(u) \/ old = NULL
    BY <1>3, <1>4, MarkedFacts DEF IInv, Ownership
  <1>8. /\ new \notin held \/ new = NULL
        /\ old \notin held \/ old = NULL
        /\ NULL \notin held
    BY <1>3, <1>4, MarkedFacts, NullAssumption DEF IInv, Ownership, TypeOK
  <1>9. ASSUME NEW a \in Addrs PROVE open'[a] # 0 <=> Logged(a)'
    <2>0. a # NULL
      BY NullAssumption
    <2>1. open[a] # 0 <=> a \in held \/ \E u \in Threads : a \in Marked(u)
      BY MarkedFacts DEF SafeInv, LogMatchesHeap
    <2>2. Logged(a)' <=> a \in held' \/ \E u \in Threads : a \in Marked(u)'
      BY NullAssumption DEF Logged, Marked
    <2>3. CASE a = new
      BY <1>3, <1>5, <1>6, <2>0, <2>2, <2>3
    <2>4. CASE a = old /\ a # new
      <3>1. open'[a] = 0
        BY <1>5, <2>4
      <3>2. a \notin held' /\ \A u \in Threads : a \notin Marked(u)'
        BY <1>1, <1>3, <1>7, <1>8, <2>0, <2>4
      <3>3. QED
        BY <2>2, <3>1, <3>2
    <2>5. CASE a # old /\ a # new
      <3>1. open'[a] = open[a]
        BY <1>5, <2>5
      <3>2. \A u \in Threads : a \in Marked(u)' <=> a \in Marked(u)
        BY <1>3, <2>5
      <3>3. QED
        BY <1>1, <2>1, <2>2, <3>1, <3>2
    <2>6. QED
      BY <2>3, <2>4, <2>5
  <1>10. \A a \in held' : bytes'[a] = size'[a]
    <2> SUFFICES ASSUME NEW a \in held PROVE bytes'[a] = size'[a]
      BY <1>1
    <2>1. a \in Addrs /\ a # new /\ a # old
      BY <1>8 DEF IInv, TypeOK
    <2>2. bytes[a] = size[a]
      BY DEF SafeInv, LogMatchesHeap
    <2>3. QED
      BY <1>1, <1>5, <2>1, <2>2
  <1>11. rec.state # "FREE" => bytes'[rec.mem] = size'[rec.mem]
    <2> SUFFICES ASSUME rec.state # "FREE" PROVE bytes'[rec.mem] = size'[rec.mem]
      OBVIOUS
    <2>1. DeltaDue(rec)
      BY <1>1 DEF SafeInv, LogMatchesHeap
    <2>2. bytes'[rec.mem] = (IF old = NULL THEN 0 ELSE bytes[old]) + rec.delta
      BY <1>4, <1>5
    <2>3. CASE rec.state = "ALLOC"
      <3>1. old = NULL /\ size[rec.mem] = rec.delta /\ rec.delta \in Int
        BY <2>1, <2>3, RecFacts DEF DeltaDue
      <3>2. QED
        BY <1>1, <2>2, <3>1
    <2>4. CASE rec.state = "REALLOC"
      <3>1. size[rec.mem] = bytes[rec.realloc] + rec.delta
        BY <2>1, <2>4 DEF DeltaDue
      <3>2. old = rec.realloc /\ old # NULL
        BY <1>1, <2>4, RecFacts, NullAssumption DEF IInv, Shape, InCall
      <3>3. QED
        BY <1>1, <2>2, <3>1, <3>2
    <2>5. QED
      BY <2>3, <2>4, RecFacts DEF States
  <1>12. ASSUME NEW u \in Threads, u # t
         PROVE  /\ pc'[u] = "record" => DeltaDue(req[u].rec)'
                /\ pc'[u] = "insert" /\ req'[u].rec.state # "FREE"
                      => bytes'[req'[u].rec.mem] = size'[req'[u].rec.mem]
    <2>1. ASSUME NEW a \in Addrs, a \in Marked(u) \/ a \in Working(u)
          PROVE  bytes'[a] = bytes[a]
      BY <1>5, <1>7, <1>12, <2>1, NullAssumption
    <2>2. CASE pc[u] = "record"
      <3>1. DeltaDue(req[u].rec)
        BY <2>2 DEF SafeInv, LogMatchesHeap
      <3>2. req[u].rec.state = "FREE" /\ req[u].rec.mem # NULL =>
               req[u].rec.mem \in Addrs /\ req[u].rec.mem \in Working(u)
        BY <2>2, RecFacts DEF Working
      <3>3. req[u].rec.state = "REALLOC" =>
               req[u].rec.realloc \in Addrs /\ req[u].rec.realloc \in Marked(u)
        BY <2>2, RecFacts, NullAssumption DEF Marked, IInv, Shape, InCall
      <3>4. QED
        BY <1>1, <1>12, <2>1, <2>2, <3>1, <3>2, <3>3, RecFacts DEF DeltaDue, States
    <2>3. CASE pc[u] = "insert"
      <3>1. req[u].rec.state # "FREE" =>
               req[u].rec.mem \in Addrs /\ req[u].rec.mem \in Working(u)
        BY <2>3, NullAssumption DEF SafeInv, Working
      <3>2. QED
        BY <1>1, <1>12, <2>1, <2>3, <3>1 DEF SafeInv, LogMatchesHeap
    <2>4. QED
      BY <1>1, <1>12, <2>2, <2>3
  <1>13. LogMatchesHeap'
    BY <1>1, <1>2, <1>9, <1>10, <1>11, <1>12 DEF LogMatchesHeap
  <1>14. \A u \in Threads : ~Moved(u)'
    BY <1>1 DEF SafeInv, Moved, Outside
  <1>15. QED
    BY <1>1, <1>2, <1>13, <1>14 DEF SafeInv

\* Wherever the record goes when it leaves the thread.
LEMMA FinishSafe ==
    ASSUME IInv, SafeInv, ChainSafe, NEW t \in Threads, pc[t] = "insert", Finish(t),
           UNCHANGED <<heap, size, open, bytes>>
    PROVE  SafeInv'
  <1>1. CASE req[t].rec.state = "FREE"
    <2>1. \A u \in Threads :
             \/ pc'[u] = pc[u] /\ req'[u] = req[u]
             \/ Acquired(req[u].rec) = NULL /\ pc[u] = "insert" /\ pc'[u] = "libc"
      BY <1>1, RecFacts DEF Finish, IInv, TypeOK
    <2>2. UNCHANGED <<heap, size, held, open, bytes>>
      BY <1>1 DEF Finish
    <2>3. QED
      BY <2>1, <2>2, SafeFrame DEF Outside
  <1>2. CASE req[t].rec.state # "FREE"
    <2> DEFINE a == req[t].rec.mem
    <2>1. a \in Addrs /\ a # NULL /\ bytes[a] = size[a] /\ Acquired(req[t].rec) = a
      BY <1>2, RecFacts, NullAssumption DEF SafeInv, LogMatchesHeap
    <2>2. /\ pc[t] = "insert" /\ pc'[t] = "idle" /\ held' = held \cup {a}
          /\ \A u \in Threads : u # t => req'[u] = req[u] /\ pc'[u] = pc[u]
          /\ UNCHANGED <<heap, size, open, bytes>>
      BY <1>2, <2>1 DEF Finish, IInv, TypeOK
    <2>3. /\ Marked(t) = {a} /\ Marked(t)' = {}
          /\ \A u \in Threads : u # t => Marked(u)' = Marked(u)
      BY <2>1, <2>2 DEF Marked
    <2>4. ASSUME NEW x \in Addrs PROVE open'[x] # 0 <=> Logged(x)'
      <3>1. open[x] # 0 <=> x \in held \/ \E u \in Threads : x \in Marked(u)
        BY MarkedFacts DEF SafeInv, LogMatchesHeap
      <3>2. Logged(x)' <=> x \in held' \/ \E u \in Threads : x \in Marked(u)'
        BY NullAssumption DEF Logged, Marked
      <3>3. (x \in held' \/ \E u \in Threads : x \in Marked(u)')
               <=> (x \in held \/ \E u \in Threads : x \in Marked(u))
        BY <2>2, <2>3
      <3>4. QED
        BY <2>2, <3>1, <3>2, <3>3
    <2>5. \A x \in held' : bytes'[x] = size'[x]
      BY <2>1, <2>2 DEF SafeInv, LogMatchesHeap
    <2>6. \A u \in Threads : pc'[u] = "record" => DeltaDue(req[u].rec)'
      BY <2>2 DEF DeltaDue, SafeInv, LogMatchesHeap
    <2>7. LogMatchesHeap'
      BY <2>2, <2>4, <2>5, <2>6 DEF SafeInv, LogMatchesHeap
    <2>8. \A u \in Threads : ~Moved(u)'
      BY <2>2 DEF SafeInv, Moved, Outside
    <2>9. QED
      BY <2>2, <2>7, <2>8 DEF SafeInv
  <1>3. QED
    BY <1>1, <1>2

LEMMA InsertSafe ==
    ASSUME IInv, SafeInv, ChainSafe, NEW t \in Threads, InsertTail(t)
    PROVE  SafeInv'
  BY FinishSafe DEF InsertTail, libc, ghosts

LEMMA ReleaseSafe ==
    ASSUME IInv, SafeInv, ChainSafe, NEW t \in Threads, LibcRelease(t)
    PROVE  SafeInv'
  <1> USE DEF ghosts
  <1>1. \A u \in Threads : \/ pc'[u] = pc[u] /\ req'[u] = req[u]
                           \/ pc[u] = "libc" /\ pc'[u] = "idle"
    BY DEF LibcRelease, IInv, TypeOK
  <1>2. ~Outside(t) /\ pc[t] # "record"
    BY DEF LibcRelease, Outside
  <1>3. QED
    BY <1>1, <1>2, SafeFrame DEF LibcRelease, Outside

LEMMA NextSafe == ChainSafe /\ IInv /\ SafeInv /\ [Next]_vars => SafeInv'
  <1>1. ASSUME SafeInv, UNCHANGED vars PROVE SafeInv'
    BY <1>1, SafeUnchanged DEF vars
  <1>2. ASSUME ChainSafe, IInv, SafeInv, NEW t \in Threads, Step(t) PROVE SafeInv'
    <2>1. ~RecordLost(t)
      BY <1>2 DEF ChainSafe, RecordLost
    <2>2. QED
      BY <1>2, <2>1, TakeIdSafe, InsertSafe, ReleaseSafe DEF Step
  <1>3. QED
    BY <1>1, <1>2, CallSafe DEF Next, Done

(***************************************************************************)
(* Every step is a step of AllocHistory, or leaves the history alone.      *)
(***************************************************************************)
LEMMA HistoryStep ==
    ASSUME IInv, SafeInv, ChainSafe, NEW t \in Threads, TakeId(t)
    PROVE  History!HistNext
  <1> DEFINE rec == req[t].rec
  <1>1. /\ pc[t] = "record" /\ Remember(rec)
        /\ Len(hist) \in Nat /\ DeltaDue(rec)
    BY DEF TakeId, IInv, TypeOK, SafeInv, LogMatchesHeap
  <1>2. \A a \in Addrs : open[a] # 0 <=> a \in held \/ \E u \in Threads : a \in Marked(u)
    BY MarkedFacts DEF SafeInv, LogMatchesHeap
  <1>3. /\ open \in [Addrs -> Nat] /\ bytes \in [Addrs -> Int]
        /\ rec.delta \in Int
    BY RecFacts DEF IInv, TypeOK
  <1>4. CASE rec.state = "ALLOC"
    <2>1. /\ rec.mem \in Addrs /\ rec.mem # NULL /\ rec.realloc = NULL
          /\ Released(rec) = NULL /\ Acquired(rec) = rec.mem
          /\ rec.delta \in Sizes
      BY <1>1, <1>4, RecFacts, NullAssumption DEF SafeInv, IInv, Shape, InCall, DeltaDue
    <2>2. open[rec.mem] = 0
      <3>1. Marked(t) = {} /\ rec.mem \in Working(t)
        BY <1>1, <2>1 DEF Marked, Working
      <3>2. rec.mem \notin held /\ \A u \in Threads : rec.mem \notin Marked(u)
        BY <3>1, MarkedFacts DEF IInv, Ownership
      <3>3. QED
        BY <1>2, <1>3, <2>1, <3>2
    <2>3. hist' = Append(hist, History!Entry("ALLOC", rec.mem, NULL, rec.delta, 0))
      BY <1>1, <1>4, <2>1 DEF Remember, History!Entry
    <2>4. open' = [open EXCEPT ![rec.mem] = History!Id]
      BY <1>1, <1>3, <2>1, NullAssumption DEF Remember, History!Id
    <2>5. bytes' = [bytes EXCEPT ![rec.mem] = rec.delta]
      <3>1. bytes' = [a \in Addrs |-> IF a = rec.mem THEN 0 + rec.delta
                                      ELSE IF a = NULL THEN 0 ELSE bytes[a]]
        BY <1>1, <2>1 DEF Remember
      <3>2. 0 + rec.delta = rec.delta
        BY <1>3
      <3>3. QED
        BY <3>1, <3>2, <1>3, NullAssumption
    <2>6. History!LogAlloc(rec.mem, rec.delta)
      BY <2>2, <2>3, <2>4, <2>5 DEF History!LogAlloc
    <2>7. QED
      BY <2>1, <2>6 DEF History!HistNext
  <1>5. CASE rec.state = "FREE" /\ rec.mem # NULL
    <2>1. /\ rec.mem \in Addrs /\ rec.realloc = NULL
          /\ Released(rec) = rec.mem /\ Acquired(rec) = NULL
          /\ rec.delta = -bytes[rec.mem]
      BY <1>1, <1>3, <1>5, RecFacts DEF IInv, Shape, InCall, DeltaDue
    <2>2. open[rec.mem] # 0
      BY <1>1, <1>2, <1>5, <2>1 DEF Marked
    <2>3. hist' = Append(hist, History!Entry("FREE", rec.mem, NULL, -bytes[rec.mem],
                                             open[rec.mem]))
      BY <1>1, <1>5, <2>1 DEF Remember, History!Entry
    <2>4. /\ open' = [open EXCEPT ![rec.mem] = 0]
          /\ bytes' = [bytes EXCEPT ![rec.mem] = 0]
      BY <1>1, <1>3, <2>1, NullAssumption DEF Remember
    <2>5. History!LogFree(rec.mem)
      BY <2>2, <2>3, <2>4 DEF History!LogFree
    <2>6. QED
      BY <2>1, <2>5 DEF History!HistNext
  <1>6. CASE rec.state = "FREE" /\ rec.mem = NULL
    <2>1. /\ rec.realloc = NULL /\ rec.delta = 0
          /\ Released(rec) = NULL /\ Acquired(rec) = NULL
      BY <1>1, <1>6, RecFacts DEF IInv, Shape, InCall
    <2>2. hist' = Append(hist, History!Entry("FREE", NULL, NULL, 0, 0))
      BY <1>1, <1>6, <2>1 DEF Remember, History!Entry
    <2>3. UNCHANGED <<open, bytes>>
      BY <1>1, <1>3, <2>1, NullAssumption DEF Remember
    <2>4. QED
      BY <2>2, <2>3 DEF History!HistNext, History!LogFreeNull
  <1>7. CASE rec.state = "REALLOC"
    <2> DEFINE old == rec.realloc
               new == rec.mem
    <2>1. /\ new \in Addrs /\ old \in Addrs /\ old # NULL /\ new # NULL
          /\ Released(rec) = old /\ Acquired(rec) = new
          /\ size[new] \in Sizes /\ size[new] = bytes[old] + rec.delta
      BY <1>1, <1>7, RecFacts, NullAssumption DEF SafeInv, IInv, Shape, InCall, DeltaDue
    <2>2. bytes[old] \in Int /\ size[new] \in Int /\ rec.delta = size[new] - bytes[old]
      BY <1>3, <2>1, SizesAssumption
    <2>3. Marked(t) = {old} /\ new \in Working(t)
      BY <1>1, <2>1 DEF Marked, Working
    <2>4. open[old] # 0
      BY <1>2, <2>1, <2>3
    <2>5. new # old => open[new] = 0
      <3>1. new \notin held /\ \A u \in Threads : u # t => new \notin Marked(u)
        BY <2>3, MarkedFacts DEF IInv, Ownership
      <3>2. QED
        BY <1>2, <1>3, <2>1, <2>3, <3>1
    <2>6. hist' = Append(hist, History!Entry("REALLOC", new, old, size[new] - bytes[old],
                                             open[old]))
      BY <1>1, <1>7, <2>1, <2>2 DEF Remember, History!Entry
    <2>7. /\ open' = [[open EXCEPT ![old] = 0] EXCEPT ![new] = History!Id]
          /\ bytes' = [[bytes EXCEPT ![old] = 0] EXCEPT ![new] = size[new]]
      BY <1>1, <1>3, <2>1, <2>2 DEF Remember, History!Id
    <2>8. History!LogRealloc(old, new, size[new])
      BY <2>4, <2>5, <2>6, <2>7 DEF History!LogRealloc
    <2>9. QED
      BY <2>1, <2>8 DEF History!HistNext
  <1>8. QED
    BY <1>4, <1>5, <1>6, <1>7, RecFacts DEF States

(* The log agrees with the heap, block by block and byte by byte.          *)
THEOREM LogIsFaithful == ChainSafe => (Spec => []LogMatchesHeap)
  <1> SUFFICES ASSUME ChainSafe PROVE Spec => []LogMatchesHeap
    OBVIOUS
  <1>1. SafeInv => LogMatchesHeap
    BY DEF SafeInv
  <1>2. IInv /\ SafeInv /\ [Next]_vars => (IInv /\ SafeInv)'
    BY NextIInv, NextSafe
  <1>3. QED
    BY <1>1, <1>2, InitIInv, InitSafe, PTL DEF Spec

(* Recorder implements AllocHistory: build_chains(), replaying the records *)
(* in the order of their ids, never meets an ALLOC of an open address or   *)
(* a FREE or REALLOC of an unknown one.                                    *)
THEOREM RecorderImplementsHistory == ChainSafe => (Spec => LogIsHistory)
  <1> SUFFICES ASSUME ChainSafe PROVE Spec => LogIsHistory
    OBVIOUS
  <1>1. Init => History!HistInit
    BY DEF Init, History!HistInit
  <1>2. IInv /\ SafeInv /\ [Next]_vars => [History!HistNext]_(History!histVars)
    <2> SUFFICES ASSUME IInv, SafeInv, [Next]_vars
                 PROVE  History!HistNext \/ UNCHANGED <<hist, open, bytes>>
      BY DEF History!histVars
    <2>1. ASSUME NEW t \in Threads, Call(t) PROVE UNCHANGED <<hist, open, bytes>>
      BY <2>1 DEF Call, CreateProfile, CreateProfileFails, MallocTrace, MallocTraceFails,
                  FreeTrace, FreeNullTrace, ReallocTrace, ReallocTraceFails, MergeProfile,
                  ghosts
    <2>2. ASSUME NEW t \in Threads, Step(t), ~TakeId(t)
          PROVE  UNCHANGED <<hist, open, bytes>>
      BY <2>2 DEF Step, RecordLost, InsertTail, LibcRelease, ghosts
    <2>3. ASSUME UNCHANGED vars PROVE UNCHANGED <<hist, open, bytes>>
      BY <2>3 DEF vars
    <2>4. QED
      BY <2>1, <2>2, <2>3, HistoryStep DEF Next, Done
  <1>3. IInv /\ SafeInv /\ [Next]_vars => (IInv /\ SafeInv)'
    BY NextIInv, NextSafe
  <1>4. QED
    BY <1>1, <1>2, <1>3, InitIInv, InitSafe, PTL DEF Spec, LogIsHistory, History!HistSpec

-----------------------------------------------------------------------------
(***************************************************************************)
(* Part 2: the exit handler beside the threads of the application.         *)
(***************************************************************************)

Profiles == DOMAIN list
Inserting(t) == pc[t] = "insert"

\* What the handler works on exists.
HandlerOK ==
    /\ save \in Stages /\ joined \in BOOLEAN /\ aborted \in BOOLEAN
    /\ {walk, cur, master} \subseteq 0..Len(list)
    /\ destroyed \subseteq Profiles
    /\ linked \in Nat
    /\ \A i \in DOMAIN profiles : profiles[i] \in Profiles
    /\ save = "run" => joined /\ destroyed = {} /\ sorter = {} /\ walk = 0
    /\ walk # 0 => profiles # <<>> /\ walk = profiles[1]
    /\ save = "records" => cur # 0 /\ master # 0
    /\ save \in {"sort", "chains", "print"} /\ ~crashed => master # 0
    /\ joined /\ save # "run" => \A t \in Threads : pc[t] = "idle"

\* The ids in use were taken from mpr_id.
IdsOK ==
    /\ \A p \in Profiles : \A i \in DOMAIN list[p] : list[p][i].id \in 1..mprId
    /\ \A t \in Threads : Inserting(t) => req[t].rec.id \in 1..mprId
    /\ sorter \subseteq Records /\ \A r \in sorter : r.id \in 1..mprId
    /\ memtree \subseteq Records /\ \A r \in memtree : r.id \in 1..mprId
    /\ nextId \in [Ids -> 0..mprId] /\ prevId \in [Ids -> 0..mprId]
    /\ output \in Seq(1..mprId)

\* No two records have the same id, wherever they are.
Unique ==
    /\ \A p, q \in Profiles : \A i \in DOMAIN list[p], j \in DOMAIN list[q] :
          list[p][i].id = list[q][j].id => p = q /\ i = j
    /\ \A r, s \in sorter : r.id = s.id => r = s
    /\ \A t, u \in Threads :
          Inserting(t) /\ Inserting(u) /\ req[t].rec.id = req[u].rec.id => t = u
    /\ \A p \in Profiles : \A i \in DOMAIN list[p] :
          /\ \A r \in sorter : list[p][i].id # r.id
          /\ \A t \in Threads : Inserting(t) => list[p][i].id # req[t].rec.id
    /\ \A r \in sorter, t \in Threads : Inserting(t) => r.id # req[t].rec.id

Somewhere(id) ==
    \/ \E p \in Profiles : \E i \in DOMAIN list[p] : list[p][i].id = id
    \/ \E r \in sorter : r.id = id
    \/ \E t \in Threads : Inserting(t) /\ req[t].rec.id = id

\* No record is lost, unless a profile was freed that a thread still uses.
Kept == joined \/ destroyed = {} => \A id \in 1..mprId : Somewhere(id)

SInv == IInv /\ HandlerOK /\ IdsOK /\ Unique /\ Kept

LEMMA InitSInv == SaveInit => SInv
  <1> SUFFICES ASSUME SaveInit PROVE SInv
    OBVIOUS
  <1>0. Init
    BY DEF SaveInit
  <1>1. list = <<>> /\ profiles = <<>> /\ mprId = 0 /\ sorter = {} /\ memtree = {}
    BY <1>0 DEF Init, SaveInit
  <1>2. HandlerOK
    <2>1. Len(list) = 0 /\ DOMAIN list = {} /\ DOMAIN profiles = {}
      BY <1>1
    <2>2. {walk, cur, master} \subseteq 0..Len(list) /\ walk = 0
      BY <2>1 DEF SaveInit
    <2>3. \A i \in DOMAIN profiles : profiles[i] \in Profiles
      BY <2>1
    <2>4. /\ save = "run" /\ joined = TRUE /\ aborted = FALSE
          /\ destroyed = {} /\ sorter = {} /\ linked \in Nat
      BY DEF SaveInit
    <2>5. save \in Stages
      BY <2>4 DEF Stages
    <2>6. QED
      BY <2>2, <2>3, <2>4, <2>5 DEF HandlerOK
  <1>3. IdsOK
    <2>1. \A t \in Threads : ~Inserting(t)
      BY <1>0 DEF Init, Inserting
    <2>2. QED
      BY <1>1, <2>1 DEF SaveInit, IdsOK, Profiles
  <1>4. Unique /\ Kept
    BY <1>0, <1>1 DEF Init, Unique, Kept, Inserting, Profiles
  <1>5. QED
    BY <1>0, InitIInv, <1>2, <1>3, <1>4 DEF SInv

(***************************************************************************)
(* The threads.                                                            *)
(***************************************************************************)

\* Up to the id: no record is on its way that was not before.
LEMMA CallFrame ==
    ASSUME IInv, NEW t \in Threads, Call(t)
    PROVE  /\ \/ UNCHANGED <<list, profiles>>
              \/ /\ list' = Append(list, <<>>)
                 /\ profiles' = Append(profiles, Len(list) + 1)
           /\ pc[t] \in {"idle", "call"} /\ pc'[t] # "insert"
           /\ \A u \in Threads : u # t => pc'[u] = pc[u] /\ req'[u] = req[u]
           /\ UNCHANGED <<mprId, hist>>
  <1> USE DEF IInv, TypeOK, libc, profileVars, ghosts
  <1>1. ASSUME CreateProfile(t) \/ CreateProfileFails(t) \/ MergeProfile(t)
        PROVE  /\ \/ UNCHANGED <<list, profiles>>
                  \/ /\ list' = Append(list, <<>>)
                     /\ profiles' = Append(profiles, Len(list) + 1)
               /\ pc[t] \in {"idle", "call"} /\ pc'[t] # "insert"
               /\ \A u \in Threads : u # t => pc'[u] = pc[u] /\ req'[u] = req[u]
               /\ UNCHANGED <<mprId, hist>>
    BY <1>1 DEF CreateProfile, CreateProfileFails, MergeProfile
  <1>2. ASSUME NEW rec, NEW zero, Enter(t), ToRecord(t, rec, zero)
        PROVE  /\ pc[t] \in {"idle", "call"} /\ pc'[t] # "insert"
               /\ \A u \in Threads : u # t => pc'[u] = pc[u] /\ req'[u] = req[u]
    BY <1>2 DEF Enter, ToRecord
  <1>3. ASSUME ReallocTraceFails(t)
        PROVE  /\ UNCHANGED <<list, profiles, mprId, hist>>
               /\ pc[t] \in {"idle", "call"} /\ pc'[t] # "insert"
               /\ \A u \in Threads : u # t => pc'[u] = pc[u] /\ req'[u] = req[u]
    BY <1>3 DEF ReallocTraceFails, Enter
  <1>4. ASSUME \/ \E sz \in Sizes : MallocTrace(t, sz) \/ MallocTraceFails(t, sz)
               \/ \E b \in held : FreeTrace(t, b)
               \/ \E zero \in BOOLEAN : FreeNullTrace(t, zero)
               \/ \E b \in held, sz \in Sizes : ReallocTrace(t, b, sz)
        PROVE  /\ UNCHANGED <<list, profiles, mprId, hist>>
               /\ \E rec, zero : Enter(t) /\ ToRecord(t, rec, zero)
    BY <1>4 DEF MallocTrace, MallocTraceFails, FreeTrace, FreeNullTrace, ReallocTrace
  <1>5. QED
    BY <1>1, <1>2, <1>3, <1>4 DEF Call

\* A profile may be added, and t moves on without a record that has an id.
LEMMA FrameSInv ==
    ASSUME SInv, IInv', NEW t \in Threads, UNCHANGED saveVars,
           \/ UNCHANGED <<list, profiles>>
           \/ list' = Append(list, <<>>) /\ profiles' = Append(profiles, Len(list) + 1),
           ~Inserting(t), pc'[t] # "insert",
           \A u \in Threads : u # t => pc'[u] = pc[u] /\ req'[u] = req[u],
           mprId' = mprId, crashed => crashed', joined => save = "run"
    PROVE  SInv'
  <1> USE DEF saveVars, merge, chains
  <1>0. list \in Seq(Seq(Records)) /\ profiles \in Seq(Nat) /\ <<>> \in Seq(Records)
    BY DEF SInv, IInv, TypeOK
  <1>1. /\ Len(list) \in Nat /\ Len(list) <= Len(list') /\ Len(list') \in Nat
        /\ Profiles = 1..Len(list) /\ Profiles' = 1..Len(list')
        /\ \A p \in Profiles : p \in Profiles' /\ list'[p] = list[p]
        /\ \A p \in Profiles' : p \in Profiles \/ list'[p] = <<>>
    <2>1. CASE UNCHANGED <<list, profiles>>
      BY <1>0, <2>1 DEF Profiles
    <2>2. CASE list' = Append(list, <<>>)
      BY <1>0, <2>2 DEF Profiles
    <2>3. QED
      BY <2>1, <2>2
  <1>2. \A u \in Threads : Inserting(u)' = Inserting(u) /\ (Inserting(u) => req'[u] = req[u])
    BY DEF Inserting
  <1>3. HandlerOK'
    <2>0. /\ HandlerOK /\ UNCHANGED <<save, joined, walk, cur, master, destroyed, sorter,
                                       linked, aborted>>
          /\ Len(profiles) \in Nat
      BY <1>0 DEF SInv
    <2>1. \A i \in DOMAIN profiles' : profiles'[i] \in Profiles'
      <3>1. CASE UNCHANGED <<list, profiles>>
        BY <2>0, <3>1 DEF HandlerOK, Profiles
      <3>2. CASE list' = Append(list, <<>>) /\ profiles' = Append(profiles, Len(list) + 1)
        <4>1. \A i \in DOMAIN profiles' :
                 \/ i \in DOMAIN profiles /\ profiles'[i] = profiles[i]
                 \/ profiles'[i] = Len(list) + 1
          BY <1>0, <3>2
        <4>2. Len(list) + 1 \in Profiles'
          BY <1>0, <1>1, <3>2
        <4>3. QED
          BY <1>1, <2>0, <4>1, <4>2 DEF HandlerOK
      <3>3. QED
        BY <3>1, <3>2
    <2>2. walk' # 0 => profiles' # <<>> /\ walk' = profiles'[1]
      <3>1. profiles # <<>> => profiles' # <<>> /\ profiles'[1] = profiles[1]
        <4>1. CASE UNCHANGED <<list, profiles>>
          BY <4>1
        <4>2. CASE profiles' = Append(profiles, Len(list) + 1)
          BY <1>0, <4>2
        <4>3. QED
          BY <4>1, <4>2
      <3>2. QED
        BY <2>0, <3>1 DEF HandlerOK
    <2>3. {walk', cur', master'} \subseteq 0..Len(list') /\ destroyed' \subseteq Profiles'
      BY <1>1, <2>0 DEF HandlerOK
    <2>4. joined' /\ save' # "run" => \A u \in Threads : pc'[u] = "idle"
      BY <2>0
    <2>5. QED
      BY <2>0, <2>1, <2>2, <2>3, <2>4 DEF HandlerOK
  <1>4. IdsOK'
    BY <1>1, <1>2 DEF SInv, IdsOK
  <1>5. Unique'
    BY <1>1, <1>2 DEF SInv, Unique
  <1>6. Kept'
    BY <1>1, <1>2 DEF SInv, Kept, Somewhere
  <1>7. QED
    BY <1>3, <1>4, <1>5, <1>6 DEF SInv

\* One list of records gets a record at its end, or loses its first one.
LEMMA AppendAt ==
    ASSUME NEW l \in Seq(Seq(Records)), NEW p \in DOMAIN l, NEW rec \in Records, NEW l2,
           l2 = [l EXCEPT ![p] = Append(@, rec)]
    PROVE  /\ l2 \in Seq(Seq(Records)) /\ Len(l2) = Len(l) /\ DOMAIN l2 = DOMAIN l
           /\ \A q \in DOMAIN l : q # p => l2[q] = l[q]
           /\ \A i \in DOMAIN l[p] : i \in DOMAIN l2[p] /\ l2[p][i] = l[p][i]
           /\ \A i \in DOMAIN l2[p] : i \in DOMAIN l[p] \/ i = Len(l[p]) + 1
           /\ Len(l[p]) + 1 \in DOMAIN l2[p] /\ l2[p][Len(l[p]) + 1] = rec
           /\ Len(l[p]) + 1 \notin DOMAIN l[p]
           /\ DOMAIN l[p] = 1..Len(l[p]) /\ Len(l[p]) \in Nat /\ Len(l2[p]) = Len(l[p]) + 1
  <1>1. l[p] \in Seq(Records) /\ l2[p] = Append(l[p], rec)
    OBVIOUS
  <1>2. /\ \A i \in DOMAIN l[p] : i \in DOMAIN l2[p] /\ l2[p][i] = l[p][i]
        /\ \A i \in DOMAIN l2[p] : i \in DOMAIN l[p] \/ i = Len(l[p]) + 1
        /\ Len(l[p]) + 1 \in DOMAIN l2[p] /\ l2[p][Len(l[p]) + 1] = rec
        /\ Len(l[p]) + 1 \notin DOMAIN l[p]
        /\ DOMAIN l[p] = 1..Len(l[p]) /\ Len(l[p]) \in Nat /\ Len(l2[p]) = Len(l[p]) + 1
    BY <1>1
  <1>3. l2 \in Seq(Seq(Records)) /\ Len(l2) = Len(l) /\ DOMAIN l2 = DOMAIN l
    BY <1>1
  <1>4. QED
    BY <1>2, <1>3

LEMMA TailAt ==
    ASSUME NEW l \in Seq(Seq(Records)), NEW p \in DOMAIN l, l[p] # <<>>, NEW l2,
           l2 = [l EXCEPT ![p] = Tail(@)]
    PROVE  /\ l2 \in Seq(Seq(Records)) /\ Len(l2) = Len(l) /\ DOMAIN l2 = DOMAIN l
           /\ \A q \in DOMAIN l : q # p => l2[q] = l[q]
           /\ 1 \in DOMAIN l[p] /\ Head(l[p]) = l[p][1] /\ l[p][1] \in Records
           /\ \A i \in DOMAIN l2[p] : /\ i + 1 \in DOMAIN l[p] /\ i + 1 # 1 /\ i \in Nat
                                      /\ l2[p][i] = l[p][i + 1]
           /\ \A i \in DOMAIN l[p] : i = 1 \/ (i - 1 \in DOMAIN l2[p] /\ l2[p][i - 1] = l[p][i])
  <1>1. l[p] \in Seq(Records) /\ l2[p] = Tail(l[p])
    OBVIOUS
  <1>2. /\ 1 \in DOMAIN l[p] /\ Head(l[p]) = l[p][1] /\ l[p][1] \in Records
        /\ \A i \in DOMAIN l2[p] : /\ i + 1 \in DOMAIN l[p] /\ i + 1 # 1 /\ i \in Nat
                                   /\ l2[p][i] = l[p][i + 1]
        /\ \A i \in DOMAIN l[p] : i = 1 \/ (i - 1 \in DOMAIN l2[p] /\ l2[p][i - 1] = l[p][i])
    <2> DEFINE r == l[p]
    <2>1. /\ Len(r) \in Nat /\ Len(r) # 0 /\ DOMAIN r = 1..Len(r) /\ Head(r) = r[1]
          /\ r[1] \in Records
      BY <1>1
    <2>2. /\ DOMAIN l2[p] = 1..(Len(r) - 1)
          /\ \A i \in 1..(Len(r) - 1) : l2[p][i] = r[i + 1]
      BY <1>1, <2>1
    <2> HIDE DEF r
    <2>3. /\ \A i \in DOMAIN l2[p] : i \in Nat /\ i + 1 \in DOMAIN r /\ i + 1 # 1
          /\ \A i \in DOMAIN r : i = 1 \/ (i - 1 \in DOMAIN l2[p] /\ l2[p][i - 1] = r[i])
      BY <2>1, <2>2
    <2>4. QED
      BY <2>1, <2>2, <2>3 DEF r
  <1>3. l2 \in Seq(Seq(Records)) /\ Len(l2) = Len(l) /\ DOMAIN l2 = DOMAIN l
    BY <1>1
  <1>4. QED
    BY <1>1, <1>2, <1>3

LEMMA SeqWiden ==
    ASSUME NEW S, NEW T, S \subseteq T, NEW s \in Seq(S)
    PROVE  s \in Seq(T)
  OBVIOUS

LEMMA TakeIdSInv ==
    ASSUME SInv, NEW t \in Threads, TakeId(t), UNCHANGED saveVars, joined => save = "run"
    PROVE  SInv'
  <1> USE DEF saveVars, merge, chains
  <1>1. /\ req[t] \in Requests /\ req[t].rec \in Records /\ mprId \in Nat
        /\ req \in [Threads -> Requests] /\ pc \in [Threads -> PCs]
    BY DEF SInv, IInv, TypeOK, Requests
  <1>2. /\ mprId' = mprId + 1 /\ mprId + 1 \in 1..mprId' /\ mprId + 1 \notin 1..mprId
        /\ \A id \in 1..mprId' : id \in 1..mprId \/ id = mprId + 1
        /\ \A id \in 1..mprId : id \in 1..mprId'
        /\ \A id \in 0..mprId : id \in 0..mprId'
    BY <1>1 DEF TakeId
  <1>3. /\ UNCHANGED <<list, profiles, crashed>>
        /\ pc[t] = "record" /\ pc'[t] = "insert" /\ req'[t].rec.id = mprId + 1
        /\ \A u \in Threads : u # t => pc'[u] = pc[u] /\ req'[u] = req[u]
    BY <1>1 DEF TakeId, profileVars, Requests, Records
  <1>4. /\ ~Inserting(t) /\ Inserting(t)'
        /\ \A u \in Threads : u # t => Inserting(u)' = Inserting(u)
        /\ \A u \in Threads : Inserting(u)' => u = t \/ (req'[u] = req[u] /\ Inserting(u))
    BY <1>3 DEF Inserting
  <1>5. IInv'
    BY StepIInv DEF SInv, Step
  <1>6. HandlerOK'
    BY <1>3 DEF SInv, HandlerOK, Profiles
  <1>7. IdsOK'
    <2>1. /\ \A p \in Profiles' : \A i \in DOMAIN list'[p] : list'[p][i].id \in 1..mprId'
          /\ \A u \in Threads : Inserting(u)' => req'[u].rec.id \in 1..mprId'
          /\ \A r \in sorter' : r.id \in 1..mprId'
          /\ \A r \in memtree' : r.id \in 1..mprId'
      BY <1>2, <1>3, <1>4 DEF SInv, IdsOK, Profiles
    <2>2. nextId' \in [Ids -> 0..mprId'] /\ prevId' \in [Ids -> 0..mprId']
      BY <1>2 DEF SInv, IdsOK
    <2>3. output' \in Seq(1..mprId')
      <3>1. output \in Seq(1..mprId) /\ 1..mprId \subseteq 1..mprId'
        BY <1>2 DEF SInv, IdsOK
      <3>2. QED
        BY <3>1, SeqWiden
    <2>4. QED
      BY <2>1, <2>2, <2>3 DEF SInv, IdsOK
  <1>8. Unique'
    <2>1. \A u \in Threads : Inserting(u)' =>
             \/ u = t /\ req'[u].rec.id = mprId + 1
             \/ u # t /\ Inserting(u) /\ req'[u] = req[u] /\ req'[u].rec.id # mprId + 1
      BY <1>2, <1>3, <1>4 DEF SInv, IdsOK
    <2>2. /\ \A p \in Profiles : \A i \in DOMAIN list[p] : list[p][i].id # mprId + 1
          /\ \A r \in sorter : r.id # mprId + 1
      BY <1>2 DEF SInv, IdsOK
    <2>3. /\ \A u, v \in Threads :
                Inserting(u)' /\ Inserting(v)' /\ req'[u].rec.id = req'[v].rec.id => u = v
          /\ \A p \in Profiles : \A i \in DOMAIN list[p] : \A u \in Threads :
                Inserting(u)' => list[p][i].id # req'[u].rec.id
          /\ \A r \in sorter, u \in Threads : Inserting(u)' => r.id # req'[u].rec.id
      BY <2>1, <2>2 DEF SInv, Unique
    <2>4. QED
      BY <1>3, <2>3 DEF SInv, Unique, Profiles
  <1>9. Kept'
    <2> SUFFICES ASSUME joined \/ destroyed = {}, NEW id \in 1..mprId' PROVE Somewhere(id)'
      BY DEF Kept
    <2>1. CASE id = mprId + 1
      BY <1>3, <1>4, <2>1 DEF Somewhere
    <2>2. CASE id \in 1..mprId
      <3>1. Somewhere(id)
        BY <2>2 DEF SInv, Kept
      <3>2. QED
        BY <1>3, <1>4, <3>1 DEF Somewhere, Profiles
    <2>3. QED
      BY <1>2, <2>1, <2>2
  <1>10. QED
    BY <1>5, <1>6, <1>7, <1>8, <1>9 DEF SInv

\* What every way to leave the recording does to the threads.
LEMMA FinishThreads ==
    ASSUME IInv, NEW t \in Threads, Finish(t)
    PROVE  /\ ~Inserting(t)'
           /\ \A u \in Threads : u # t => pc'[u] = pc[u] /\ req'[u] = req[u]
  BY DEF Finish, Inserting, IInv, TypeOK

LEMMA InsertSInv ==
    ASSUME SInv, NEW t \in Threads, InsertTail(t), UNCHANGED saveVars, joined => save = "run"
    PROVE  SInv'
  <1> USE DEF saveVars, merge, chains
  <1> DEFINE mp == req[t].mp
             rec == req[t].rec
             last == Len(list[mp]) + 1
  <1>1. /\ list \in Seq(Seq(Records)) /\ mp \in Profiles /\ rec \in Records
        /\ list' = [list EXCEPT ![mp] = Append(@, rec)] /\ Inserting(t)
    <2>1. pc[t] = "insert" /\ req[t] \in Requests /\ list \in Seq(Seq(Records))
      BY DEF SInv, IInv, TypeOK, InsertTail
    <2>2. req[t].mp \in Profiles
      BY <2>1 DEF SInv, IInv, ProfileExists, Profiles
    <2>3. QED
      BY <2>1, <2>2 DEF Requests, InsertTail, Inserting
  <1>2. /\ UNCHANGED <<mprId, profiles, crashed, sorter, memtree, destroyed>>
        /\ ~Inserting(t)'
        /\ \A u \in Threads : u # t => /\ pc'[u] = pc[u] /\ req'[u] = req[u]
                                       /\ Inserting(u)' = Inserting(u)
    BY FinishThreads DEF SInv, InsertTail, Inserting, ghosts
  <1> HIDE DEF mp, rec
  <1>3. /\ list' \in Seq(Seq(Records)) /\ Len(list') = Len(list) /\ Profiles' = Profiles
        /\ \A q \in Profiles : q # mp => list'[q] = list[q]
        /\ \A i \in DOMAIN list[mp] : i \in DOMAIN list'[mp] /\ list'[mp][i] = list[mp][i]
        /\ \A i \in DOMAIN list'[mp] : i \in DOMAIN list[mp] \/ i = last
        /\ last \in DOMAIN list'[mp] /\ list'[mp][last] = rec /\ last \notin DOMAIN list[mp]
    BY <1>1, AppendAt DEF Profiles
  <1> HIDE DEF last
  <1>4. IInv'
    BY StepIInv DEF SInv, Step
  <1>5. HandlerOK'
    BY <1>2, <1>3 DEF SInv, HandlerOK
  <1>6. IdsOK'
    <2>1. rec.id \in 1..mprId
      BY <1>1 DEF SInv, IdsOK, rec
    <2>2. \A p \in Profiles' : \A i \in DOMAIN list'[p] : list'[p][i].id \in 1..mprId
      BY <1>3, <2>1 DEF SInv, IdsOK
    <2>3. QED
      BY <1>2, <2>2 DEF SInv, IdsOK
  <1>7. Unique'
    <2>1. \A p \in Profiles' : \A i \in DOMAIN list'[p] :
             \/ i \in DOMAIN list[p] /\ list'[p][i] = list[p][i]
             \/ p = mp /\ i = last /\ list'[p][i] = rec
      BY <1>1, <1>3
    <2>2. \A p \in Profiles : \A i \in DOMAIN list[p] : list[p][i].id # rec.id
      BY <1>1 DEF SInv, Unique, rec
    <2>3. /\ \A r \in sorter : r.id # rec.id
          /\ \A u \in Threads : u # t /\ Inserting(u) => req[u].rec.id # rec.id
      BY <1>1 DEF SInv, Unique, rec
    <2>4. \A p, q \in Profiles' : \A i \in DOMAIN list'[p], j \in DOMAIN list'[q] :
             list'[p][i].id = list'[q][j].id => p = q /\ i = j
      <3> SUFFICES ASSUME NEW p \in Profiles, NEW q \in Profiles,
                          NEW i \in DOMAIN list'[p], NEW j \in DOMAIN list'[q],
                          list'[p][i].id = list'[q][j].id
                   PROVE  p = q /\ i = j
        BY <1>3
      <3>1. CASE i \in DOMAIN list[p] /\ list'[p][i] = list[p][i]
        <4>1. list'[q][j] # rec
          BY <2>2, <3>1
        <4>2. j \in DOMAIN list[q] /\ list'[q][j] = list[q][j]
          BY <1>3, <2>1, <4>1
        <4>3. QED
          BY <3>1, <4>2 DEF SInv, Unique
      <3>2. CASE p = mp /\ i = last /\ list'[p][i] = rec
        <4>1. ~(j \in DOMAIN list[q] /\ list'[q][j] = list[q][j])
          BY <2>2, <3>2
        <4>2. QED
          BY <1>3, <2>1, <3>2, <4>1
      <3>3. QED
        BY <1>3, <2>1, <3>1, <3>2
    <2>5. /\ \A p \in Profiles' : \A i \in DOMAIN list'[p] :
                /\ \A r \in sorter : list'[p][i].id # r.id
                /\ \A u \in Threads : Inserting(u)' => list'[p][i].id # req'[u].rec.id
      <3> SUFFICES ASSUME NEW p \in Profiles, NEW i \in DOMAIN list'[p]
                   PROVE  /\ \A r \in sorter : list'[p][i].id # r.id
                          /\ \A u \in Threads : Inserting(u)' => list'[p][i].id # req'[u].rec.id
        BY <1>3
      <3>1. CASE i \in DOMAIN list[p] /\ list'[p][i] = list[p][i]
        BY <1>2, <3>1 DEF SInv, Unique
      <3>2. CASE list'[p][i] = rec
        BY <1>2, <2>3, <3>2
      <3>3. QED
        BY <1>3, <2>1, <3>1, <3>2
    <2>6. QED
      BY <1>2, <2>4, <2>5 DEF SInv, Unique
  <1>8. Kept'
    <2> SUFFICES ASSUME NEW id, Somewhere(id) PROVE Somewhere(id)'
      BY <1>2 DEF SInv, Kept
    <2>1. CASE \E p \in Profiles : \E i \in DOMAIN list[p] : list[p][i].id = id
      BY <1>3, <2>1 DEF Somewhere
    <2>2. CASE \E r \in sorter : r.id = id
      BY <1>2, <2>2 DEF Somewhere
    <2>3. CASE \E u \in Threads : Inserting(u) /\ req[u].rec.id = id
      <3>1. PICK u \in Threads : Inserting(u) /\ req[u].rec.id = id
        BY <2>3
      <3>2. CASE u = t
        BY <1>1, <1>3, <3>1, <3>2 DEF Somewhere, rec
      <3>3. CASE u # t
        BY <1>2, <3>1, <3>3 DEF Somewhere
      <3>4. QED
        BY <3>2, <3>3
    <2>4. QED
      BY <2>1, <2>2, <2>3 DEF Somewhere
  <1>9. QED
    BY <1>4, <1>5, <1>6, <1>7, <1>8 DEF SInv

\* The record does not get into a list, and the threads no longer matter.
LEMMA UseAfterFreeSInv ==
    ASSUME SInv, NEW t \in Threads, UseAfterFree(t), UNCHANGED saveVars, joined => save = "run"
    PROVE  SInv'
  <1> USE DEF saveVars, merge, chains, libc, profileVars, ghosts
  <1>1. ~joined /\ destroyed # {}
    BY DEF UseAfterFree, SInv, HandlerOK
  <1>2. IInv'
    <2>1. CASE UNCHANGED <<pc, req, held>> /\ crashed' = TRUE
      BY <2>1 DEF UseAfterFree, SInv, IInv, TypeOK, Shape, InCall, ProfileExists, Ownership,
                  Working
    <2>2. CASE Finish(t) /\ UNCHANGED crashed
      BY <2>2, FinishStep DEF UseAfterFree, SInv, IInv, TypeOK
    <2>3. QED
      BY <2>1, <2>2 DEF UseAfterFree
  <1>3. /\ UNCHANGED <<list, profiles, mprId>> /\ (crashed => crashed')
        /\ \A u \in Threads : Inserting(u)' => Inserting(u) /\ req'[u] = req[u]
    <2>1. CASE UNCHANGED <<pc, req, held>> /\ crashed' = TRUE
      BY <2>1 DEF UseAfterFree, Inserting
    <2>2. CASE Finish(t) /\ UNCHANGED crashed
      BY <2>2, FinishThreads DEF UseAfterFree, Inserting, SInv
    <2>3. QED
      BY <2>1, <2>2 DEF UseAfterFree
  <1>4. HandlerOK'
    BY <1>1, <1>3 DEF SInv, HandlerOK, Profiles
  <1>5. IdsOK'
    BY <1>3 DEF SInv, IdsOK, Profiles
  <1>6. Unique'
    BY <1>3 DEF SInv, Unique, Profiles
  <1>7. Kept'
    BY <1>1 DEF Kept
  <1>8. QED
    BY <1>2, <1>4, <1>5, <1>6, <1>7 DEF SInv

LEMMA WorkSInv ==
    ASSUME SInv, NEW t \in Threads, Work(t)
    PROVE  SInv'
  <1>1. UNCHANGED saveVars /\ (joined => save = "run") /\ IInv
    BY DEF Work, SInv
  <1>2. CASE Call(t)
    <2>1. ~Inserting(t) /\ pc'[t] # "insert"
      BY <1>1, <1>2, CallFrame DEF Inserting
    <2>2. /\ \/ UNCHANGED <<list, profiles>>
             \/ list' = Append(list, <<>>) /\ profiles' = Append(profiles, Len(list) + 1)
          /\ \A u \in Threads : u # t => pc'[u] = pc[u] /\ req'[u] = req[u]
          /\ mprId' = mprId
      BY <1>1, <1>2, CallFrame
    <2>3. ~crashed
      BY DEF Work, Running
    <2>4. IInv'
      BY <1>1, <1>2, CallIInv
    <2>5. QED
      BY <1>1, <2>1, <2>2, <2>3, <2>4, FrameSInv
  <1>3. CASE TakeId(t)
    BY <1>1, <1>3, TakeIdSInv
  <1>4. CASE RecordLost(t) \/ LibcRelease(t)
    <2>1. /\ ~Inserting(t) /\ pc'[t] # "insert"
          /\ \A u \in Threads : u # t => pc'[u] = pc[u] /\ req'[u] = req[u]
          /\ UNCHANGED <<list, profiles, mprId, crashed>>
      <3>1. CASE RecordLost(t)
        BY <1>1, <3>1, FinishThreads DEF RecordLost, Inserting, profileVars
      <3>2. CASE LibcRelease(t)
        BY <1>1, <3>2 DEF LibcRelease, Inserting, profileVars, IInv, TypeOK
      <3>3. QED
        BY <1>4, <3>1, <3>2
    <2>2. IInv'
      BY <1>1, <1>4, StepIInv DEF Step
    <2>3. QED
      BY <1>1, <2>1, <2>2, FrameSInv
  <1>5. CASE InsertTail(t)
    BY <1>1, <1>5, InsertSInv
  <1>6. CASE UseAfterFree(t)
    BY <1>1, <1>6, UseAfterFreeSInv
  <1>7. QED
    BY <1>2, <1>3, <1>4, <1>5, <1>6 DEF Work

(***************************************************************************)
(* The exit handler.                                                       *)
(***************************************************************************)

\* The handler leaves the threads and the heap alone; in the lists only the
\* records may change.
LEMMA HandlerIInv ==
    ASSUME IInv, list' \in Seq(Seq(Records)), Len(list') = Len(list),
           profiles' \in Seq(Nat), keyValid' \in BOOLEAN, crashed' \in BOOLEAN,
           UNCHANGED <<libc, held, tls, mprId, pc, req, calls, ghosts>>
    PROVE  IInv'
  BY DEF IInv, TypeOK, Shape, InCall, ProfileExists, Ownership, Working, libc, ghosts

\* Nothing moves that has an id.
LEMMA StillSInv ==
    ASSUME SInv, HandlerOK', UNCHANGED <<libc, held, tls, list, mprId, pc, req, calls, ghosts>>,
           profiles' \in Seq(Nat), keyValid' \in BOOLEAN, crashed' \in BOOLEAN,
           UNCHANGED <<sorter, chains, output>>,
           joined' \/ destroyed' = {} => joined \/ destroyed = {}
    PROVE  SInv'
  <1>1. IInv'
    BY HandlerIInv DEF SInv, IInv, TypeOK
  <1>2. \A t \in Threads : Inserting(t)' = Inserting(t)
    BY DEF Inserting
  <1>3. IdsOK'
    BY <1>2 DEF SInv, IdsOK, Profiles, chains
  <1>4. Unique'
    BY <1>2 DEF SInv, Unique, Profiles
  <1>5. Kept'
    BY <1>2 DEF SInv, Kept, Somewhere, Profiles
  <1>6. QED
    BY <1>1, <1>3, <1>4, <1>5 DEF SInv

LEMMA ExitSInv ==
    ASSUME SInv, Exit
    PROVE  SInv'
  <1> USE DEF chains
  <1>1. HandlerOK /\ profiles \in Seq(Nat) /\ crashed \in BOOLEAN /\ list \in Seq(Seq(Records))
    BY DEF SInv, IInv, TypeOK
  <1>2. /\ UNCHANGED <<profiles, list, crashed, cur, master, destroyed, sorter, linked, aborted>>
        /\ save' = "profiles" /\ joined' \in BOOLEAN /\ pc' = pc
        /\ joined' => \A t \in Threads : pc[t] = "idle"
    BY DEF Exit
  <1>3. walk' \in 0..Len(list') /\ (walk' # 0 => profiles' # <<>> /\ walk' = profiles'[1])
    <2>1. CASE profiles = <<>>
      BY <1>1, <2>1 DEF Exit, FirstProfile
    <2>2. CASE profiles # <<>>
      <3>1. walk' = profiles[1] /\ 1 \in DOMAIN profiles
        BY <1>1, <2>2 DEF Exit, FirstProfile
      <3>2. profiles[1] \in 1..Len(list)
        BY <1>1, <3>1 DEF HandlerOK, Profiles
      <3>3. QED
        BY <1>2, <2>2, <3>1, <3>2
    <2>3. QED
      BY <2>1, <2>2
  <1>4. HandlerOK'
    BY <1>1, <1>2, <1>3 DEF HandlerOK, Stages, Profiles
  <1>5. QED
    BY <1>1, <1>2, <1>4, StillSInv DEF Exit, SInv, HandlerOK

LEMMA TakeProfileSInv ==
    ASSUME SInv, SaveTakeProfile
    PROVE  SInv'
  <1>1. HandlerOK /\ profiles \in Seq(Nat) /\ list \in Seq(Seq(Records))
        /\ keyValid \in BOOLEAN /\ crashed \in BOOLEAN
    BY DEF SInv, IInv, TypeOK
  <1>2. /\ UNCHANGED <<list, crashed, pc, joined, destroyed, sorter, linked, aborted>>
        /\ save = "profiles" /\ save' = "records" /\ walk # 0 /\ cur' = walk
        /\ profiles' = Tail(profiles)
        /\ walk' = IF Len(profiles) > 1 THEN profiles[2] ELSE 0
        /\ master' = IF master = 0 THEN walk ELSE master
    BY DEF SaveTakeProfile, chains
  <1>3. profiles # <<>>
    BY <1>1, <1>2 DEF HandlerOK
  <1>4. /\ profiles' \in Seq(Nat)
        /\ \A i \in DOMAIN profiles' : i + 1 \in DOMAIN profiles /\ profiles'[i] = profiles[i + 1]
        /\ Len(profiles) > 1 => /\ 2 \in DOMAIN profiles
                                /\ profiles' # <<>> /\ profiles'[1] = profiles[2]
    <2>1. Len(profiles) \in Nat /\ Len(profiles) # 0 /\ DOMAIN profiles = 1..Len(profiles)
      BY <1>1, <1>3
    <2>2. /\ profiles' \in Seq(Nat) /\ DOMAIN profiles' = 1..(Len(profiles) - 1)
          /\ \A i \in 1..(Len(profiles) - 1) : profiles'[i] = profiles[i + 1]
      BY <1>1, <1>2, <2>1
    <2>3. QED
      BY <2>1, <2>2
  <1>5. \A i \in DOMAIN profiles' : profiles'[i] \in Profiles'
    BY <1>1, <1>2, <1>4 DEF HandlerOK, Profiles
  <1>6. /\ {walk', cur', master'} \subseteq 0..Len(list')
        /\ walk' # 0 => profiles' # <<>> /\ walk' = profiles'[1]
        /\ cur' # 0 /\ master' # 0
    <2>1. {walk, cur, master} \subseteq 0..Len(list) /\ Len(list) \in Nat
      BY <1>1 DEF HandlerOK
    <2>2. Len(profiles) > 1 => profiles[2] \in 1..Len(list)
      <3>1. \A i \in DOMAIN profiles : profiles[i] \in Profiles
        BY <1>1 DEF HandlerOK
      <3>2. Profiles = 1..Len(list)
        BY <1>1 DEF Profiles
      <3>3. QED
        BY <1>4, <3>1, <3>2
    <2>3. QED
      BY <1>2, <1>4, <2>1, <2>2
  <1>7. HandlerOK'
    BY <1>1, <1>2, <1>5, <1>6 DEF HandlerOK, Stages, Profiles
  <1>8. QED
    BY <1>1, <1>4, <1>7, StillSInv DEF SaveTakeProfile

LEMMA TakeRecordSInv ==
    ASSUME SInv, SaveTakeRecord
    PROVE  SInv'
  <1> DEFINE rec == list[cur][1]
  <1>0. /\ HandlerOK /\ list \in Seq(Seq(Records)) /\ save = "records" /\ list[cur] # <<>>
        /\ profiles \in Seq(Nat) /\ keyValid \in BOOLEAN /\ crashed \in BOOLEAN
    BY DEF SInv, IInv, TypeOK, SaveTakeRecord
  <1>1. cur \in Profiles
    BY <1>0 DEF HandlerOK, Profiles
  <1>2. /\ list' \in Seq(Seq(Records)) /\ Len(list') = Len(list) /\ Profiles' = Profiles
        /\ \A q \in Profiles : q # cur => list'[q] = list[q]
        /\ 1 \in DOMAIN list[cur] /\ rec \in Records
        /\ \A i \in DOMAIN list'[cur] : /\ i + 1 \in DOMAIN list[cur] /\ i + 1 # 1 /\ i \in Nat
                                        /\ list'[cur][i] = list[cur][i + 1]
        /\ \A i \in DOMAIN list[cur] :
              i = 1 \/ (i - 1 \in DOMAIN list'[cur] /\ list'[cur][i - 1] = list[cur][i])
    <2>1. list' = [list EXCEPT ![cur] = Tail(@)]
      BY DEF SaveTakeRecord
    <2>2. cur \in DOMAIN list /\ DOMAIN list' = Profiles'
      BY <1>1 DEF Profiles
    <2> HIDE DEF rec
    <2>3. rec = list[cur][1]
      BY DEF rec
    <2>4. QED
      BY <1>0, <2>1, <2>2, <2>3, TailAt DEF Profiles
  <1>3. /\ sorter' = sorter \cup {rec} /\ aborted' \in BOOLEAN
        /\ UNCHANGED <<profiles, mprId, pc, req, crashed, save, walk, cur, master, destroyed,
                       joined, memtree, linked, nextId, prevId, output>>
    <2>1. Head(list[cur]) = rec
      BY <1>0, <1>1, TailAt DEF SaveTakeRecord, Profiles
    <2>2. QED
      BY <2>1 DEF SaveTakeRecord, chains
  <1> HIDE DEF rec
  <1>4. \A t \in Threads : Inserting(t)' = Inserting(t)
    BY <1>3 DEF Inserting
  <1>5. IInv'
    BY <1>0, <1>2, HandlerIInv DEF SaveTakeRecord, SInv
  <1>6. HandlerOK'
    BY <1>0, <1>2, <1>3 DEF HandlerOK
  \* Where the records come from.
  <1>7. \A p \in Profiles : \A i \in DOMAIN list'[p] :
           \/ p # cur /\ i \in DOMAIN list[p] /\ list'[p][i] = list[p][i]
           \/ /\ p = cur /\ i + 1 \in DOMAIN list[p] /\ i + 1 # 1 /\ i \in Nat
              /\ list'[p][i] = list[p][i + 1]
    BY <1>2
  <1>8. rec.id \in 1..mprId /\ rec = list[cur][1] /\ 1 \in DOMAIN list[cur]
    BY <1>1, <1>2 DEF SInv, IdsOK, rec
  <1>9. IdsOK'
    <2>1. \A p \in Profiles' : \A i \in DOMAIN list'[p] : list'[p][i].id \in 1..mprId
      <3>1. \A p \in Profiles : \A i \in DOMAIN list'[p] :
               \E j \in DOMAIN list[p] : list'[p][i] = list[p][j]
        BY <1>7
      <3>2. QED
        BY <1>2, <3>1 DEF SInv, IdsOK
    <2>2. sorter' \subseteq Records /\ \A r \in sorter' : r.id \in 1..mprId
      BY <1>2, <1>3, <1>8 DEF SInv, IdsOK
    <2>3. QED
      BY <1>3, <1>4, <2>1, <2>2 DEF SInv, IdsOK
  <1>10. Unique'
    <2>1. \A p \in Profiles : \A i \in DOMAIN list'[p] : list'[p][i].id # rec.id
      <3> SUFFICES ASSUME NEW p \in Profiles, NEW i \in DOMAIN list'[p],
                          list'[p][i].id = rec.id
                   PROVE  FALSE
        OBVIOUS
      <3>1. CASE p # cur /\ i \in DOMAIN list[p] /\ list'[p][i] = list[p][i]
        BY <1>1, <1>8, <3>1 DEF SInv, Unique
      <3>2. CASE p = cur /\ i + 1 \in DOMAIN list[p] /\ i + 1 # 1 /\ list'[p][i] = list[p][i + 1]
        BY <1>1, <1>8, <3>2 DEF SInv, Unique
      <3>3. QED
        BY <1>7, <3>1, <3>2
    <2>2. \A p, q \in Profiles' : \A i \in DOMAIN list'[p], j \in DOMAIN list'[q] :
             list'[p][i].id = list'[q][j].id => p = q /\ i = j
      <3> SUFFICES ASSUME NEW p \in Profiles, NEW q \in Profiles,
                          NEW i \in DOMAIN list'[p], NEW j \in DOMAIN list'[q],
                          list'[p][i].id = list'[q][j].id
                   PROVE  p = q /\ i = j
        BY <1>2
      <3>1. CASE p # cur
        BY <1>7, <3>1 DEF SInv, Unique
      <3>2. CASE p = cur /\ q = cur
        <4>1. /\ i + 1 \in DOMAIN list[cur] /\ j + 1 \in DOMAIN list[cur]
              /\ list[cur][i + 1].id = list[cur][j + 1].id /\ i \in Nat /\ j \in Nat
          BY <1>7, <3>2
        <4>2. i + 1 = j + 1
          BY <1>1, <4>1 DEF SInv, Unique
        <4>3. QED
          BY <3>2, <4>1, <4>2
      <3>3. CASE p = cur /\ q # cur
        BY <1>7, <3>3 DEF SInv, Unique
      <3>4. QED
        BY <3>1, <3>2, <3>3
    <2>3. \A r, s \in sorter' : r.id = s.id => r = s
      BY <1>1, <1>3, <1>8 DEF SInv, Unique
    <2>4. \A p \in Profiles : \A i \in DOMAIN list'[p] :
             /\ \A r \in sorter' : list'[p][i].id # r.id
             /\ \A t \in Threads : Inserting(t) => list'[p][i].id # req[t].rec.id
      <3>1. \A p \in Profiles : \A i \in DOMAIN list'[p] :
               \E j \in DOMAIN list[p] : list'[p][i] = list[p][j]
        BY <1>7
      <3>2. QED
        BY <1>3, <2>1, <3>1 DEF SInv, Unique
    <2>5. \A r \in sorter', t \in Threads : Inserting(t) => r.id # req[t].rec.id
      BY <1>1, <1>3, <1>8 DEF SInv, Unique
    <2>6. QED
      BY <1>2, <1>3, <1>4, <2>2, <2>3, <2>4, <2>5 DEF SInv, Unique
  <1>11. Kept'
    <2> SUFFICES ASSUME NEW id, Somewhere(id) PROVE Somewhere(id)'
      BY <1>3 DEF SInv, Kept
    <2>1. ASSUME NEW p \in Profiles, NEW i \in DOMAIN list[p], list[p][i].id = id
          PROVE  Somewhere(id)'
      <3>1. CASE p # cur
        BY <1>2, <2>1, <3>1 DEF Somewhere
      <3>2. CASE p = cur /\ i = 1
        BY <1>3, <1>8, <2>1, <3>2 DEF Somewhere
      <3>3. CASE p = cur /\ i # 1
        BY <1>2, <2>1, <3>3 DEF Somewhere
      <3>4. QED
        BY <3>1, <3>2, <3>3
    <2>2. QED
      BY <1>3, <1>4, <2>1 DEF Somewhere
  <1>12. QED
    BY <1>5, <1>6, <1>9, <1>10, <1>11 DEF SInv

LEMMA SortRecordSInv ==
    ASSUME SInv, NEW rec \in sorter, Running, save = "sort",
           sorter' = sorter \ {rec}, list' = [list EXCEPT ![master] = Append(@, rec)],
           UNCHANGED <<libc, held, keyValid, tls, profiles, mprId, pc, req, calls, crashed,
                       ghosts, save, walk, cur, master, destroyed, joined, chains, output,
                       aborted>>
    PROVE  SInv'
  <1> DEFINE last == Len(list[master]) + 1
  <1>0. /\ HandlerOK /\ list \in Seq(Seq(Records)) /\ rec \in Records
        /\ profiles \in Seq(Nat) /\ keyValid \in BOOLEAN /\ crashed \in BOOLEAN
    BY DEF SInv, IInv, TypeOK, IdsOK
  <1>1. master \in Profiles
    BY <1>0 DEF HandlerOK, Running, Profiles
  <1>2. /\ list' \in Seq(Seq(Records)) /\ Len(list') = Len(list) /\ Profiles' = Profiles
        /\ \A q \in Profiles : q # master => list'[q] = list[q]
        /\ \A i \in DOMAIN list[master] :
              i \in DOMAIN list'[master] /\ list'[master][i] = list[master][i]
        /\ \A i \in DOMAIN list'[master] : i \in DOMAIN list[master] \/ i = last
        /\ last \in DOMAIN list'[master] /\ list'[master][last] = rec
        /\ last \notin DOMAIN list[master]
    BY <1>0, <1>1, AppendAt DEF Profiles
  <1> HIDE DEF last
  <1>3. /\ \A t \in Threads : Inserting(t)' = Inserting(t)
        /\ UNCHANGED <<memtree, linked, nextId, prevId>>
    BY DEF Inserting, chains
  <1>4. IInv'
    BY <1>0, <1>2, HandlerIInv DEF SInv
  <1>5. HandlerOK'
    BY <1>0, <1>2, <1>3 DEF HandlerOK
  <1>6. \A p \in Profiles' : \A i \in DOMAIN list'[p] :
           \/ i \in DOMAIN list[p] /\ list'[p][i] = list[p][i]
           \/ p = master /\ i = last /\ list'[p][i] = rec
    BY <1>1, <1>2
  <1>7. IdsOK'
    BY <1>2, <1>3, <1>6 DEF SInv, IdsOK
  <1>8. Unique'
    <2>1. \A p \in Profiles : \A i \in DOMAIN list[p] : list[p][i].id # rec.id
      BY DEF SInv, Unique
    <2>2. /\ \A r \in sorter' : r \in sorter /\ r.id # rec.id
          /\ \A t \in Threads : Inserting(t) => req[t].rec.id # rec.id
      BY DEF SInv, Unique
    <2>3. \A p, q \in Profiles' : \A i \in DOMAIN list'[p], j \in DOMAIN list'[q] :
             list'[p][i].id = list'[q][j].id => p = q /\ i = j
      <3> SUFFICES ASSUME NEW p \in Profiles, NEW q \in Profiles,
                          NEW i \in DOMAIN list'[p], NEW j \in DOMAIN list'[q],
                          list'[p][i].id = list'[q][j].id
                   PROVE  p = q /\ i = j
        BY <1>2
      <3>1. CASE i \in DOMAIN list[p] /\ list'[p][i] = list[p][i]
        <4>1. list'[q][j] # rec
          BY <2>1, <3>1
        <4>2. j \in DOMAIN list[q] /\ list'[q][j] = list[q][j]
          BY <1>2, <1>6, <4>1
        <4>3. QED
          BY <3>1, <4>2 DEF SInv, Unique
      <3>2. CASE p = master /\ i = last /\ list'[p][i] = rec
        <4>1. ~(j \in DOMAIN list[q] /\ list'[q][j] = list[q][j])
          BY <2>1, <3>2
        <4>2. QED
          BY <1>2, <1>6, <3>2, <4>1
      <3>3. QED
        BY <1>2, <1>6, <3>1, <3>2
    <2>4. \A p \in Profiles : \A i \in DOMAIN list'[p] :
             /\ \A r \in sorter' : list'[p][i].id # r.id
             /\ \A t \in Threads : Inserting(t) => list'[p][i].id # req[t].rec.id
      <3> SUFFICES ASSUME NEW p \in Profiles, NEW i \in DOMAIN list'[p]
                   PROVE  /\ \A r \in sorter' : list'[p][i].id # r.id
                          /\ \A t \in Threads : Inserting(t) => list'[p][i].id # req[t].rec.id
        OBVIOUS
      <3>1. CASE i \in DOMAIN list[p] /\ list'[p][i] = list[p][i]
        BY <2>2, <3>1 DEF SInv, Unique
      <3>2. CASE list'[p][i] = rec
        BY <2>2, <3>2
      <3>3. QED
        BY <1>2, <1>6, <3>1, <3>2
    <2>5. QED
      BY <1>2, <1>3, <2>2, <2>3, <2>4 DEF SInv, Unique
  <1>9. Kept'
    <2> SUFFICES ASSUME NEW id, Somewhere(id) PROVE Somewhere(id)'
      BY DEF SInv, Kept
    <2>1. CASE \E p \in Profiles : \E i \in DOMAIN list[p] : list[p][i].id = id
      BY <1>2, <2>1 DEF Somewhere
    <2>2. CASE \E r \in sorter : r.id = id
      BY <1>1, <1>2, <2>2 DEF Somewhere
    <2>3. CASE \E t \in Threads : Inserting(t) /\ req[t].rec.id = id
      BY <1>3, <2>3 DEF Somewhere
    <2>4. QED
      BY <2>1, <2>2, <2>3 DEF Somewhere
  <1>10. QED
    BY <1>4, <1>5, <1>7, <1>8, <1>9 DEF SInv

\* Linking a record touches the links and the tree only.
LEMMA LinkFrame ==
    ASSUME SInv, LinkRecord, aborted' \in BOOLEAN,
           memtree' \subseteq memtree \cup {NextRecord},
           \/ UNCHANGED <<nextId, prevId>>
           \/ \E last \in memtree : Link(last, NextRecord)
    PROVE  SInv'
  <1> USE DEF merge
  <1>1. /\ HandlerOK /\ save = "chains" /\ Running /\ list \in Seq(Seq(Records))
        /\ linked < Len(list[master])
        /\ UNCHANGED vars /\ UNCHANGED <<save, joined, merge, output>> /\ linked' = linked + 1
    BY DEF SInv, IInv, TypeOK, LinkRecord
  <1>2. NextRecord \in Records /\ NextRecord.id \in 1..mprId
    <2>1. master \in Profiles
      BY <1>1 DEF HandlerOK, Running, Profiles
    <2>2. list[master] \in Seq(Records) /\ linked \in Nat
      BY <1>1, <2>1 DEF HandlerOK, Profiles
    <2>3. linked + 1 \in DOMAIN list[master]
      BY <1>1, <2>2
    <2>4. QED
      BY <2>1, <2>2, <2>3 DEF SInv, IdsOK, NextRecord
  <1>3. IInv'
    BY <1>1, NextIInv DEF SInv
  <1>4. HandlerOK'
    BY <1>1 DEF vars, HandlerOK, Profiles
  <1>5. \A t \in Threads : Inserting(t)' = Inserting(t)
    BY <1>1 DEF Inserting, vars
  <1>6. nextId' \in [Ids -> 0..mprId] /\ prevId' \in [Ids -> 0..mprId]
    <2>1. ASSUME NEW last \in memtree, Link(last, NextRecord)
          PROVE  nextId' \in [Ids -> 0..mprId] /\ prevId' \in [Ids -> 0..mprId]
      <3>1. /\ nextId \in [Ids -> 0..mprId] /\ prevId \in [Ids -> 0..mprId]
            /\ last.id \in 0..mprId /\ NextRecord.id \in 0..mprId
        BY <1>2, <2>1 DEF SInv, IdsOK, IInv, TypeOK
      <3> HIDE DEF NextRecord
      <3>2. QED
        BY <2>1, <3>1 DEF Link
    <2>2. QED
      BY <2>1 DEF SInv, IdsOK
  <1>7. memtree' \subseteq Records /\ \A r \in memtree' : r.id \in 1..mprId
    BY <1>2 DEF SInv, IdsOK
  <1>8. IdsOK'
    BY <1>1, <1>5, <1>6, <1>7 DEF SInv, IdsOK, Profiles, vars
  <1>9. Unique'
    BY <1>1, <1>5 DEF SInv, Unique, Profiles, vars
  <1>10. Kept'
    BY <1>1, <1>5 DEF SInv, Kept, Somewhere, Profiles, vars
  <1>11. QED
    BY <1>3, <1>4, <1>8, <1>9, <1>10 DEF SInv

LEMMA LinkSInv ==
    ASSUME SInv, LinkAlloc \/ LinkFreeNull \/ LinkFree \/ LinkRealloc \/ LinkUnknown
    PROVE  SInv'
  <1> DEFINE rec == NextRecord
  <1>0. aborted \in BOOLEAN
    BY DEF SInv, HandlerOK
  <1>1. CASE LinkAlloc
    <2>1. aborted' \in BOOLEAN /\ memtree' = memtree \cup {NextRecord}
      BY <1>1 DEF LinkAlloc, TreeInsert
    <2>2. QED
      BY <1>1, <2>1, LinkFrame DEF LinkAlloc
  <1>2. CASE LinkFreeNull
    BY <1>0, <1>2, LinkFrame DEF LinkFreeNull
  <1>3. CASE LinkFree
    <2>1. PICK last \in Last(NextRecord.mem) :
             /\ Link(last, NextRecord)
             /\ memtree' = memtree \ {last}
             /\ aborted' = ~LinksUnset(last, NextRecord)
      BY <1>3 DEF LinkFree
    <2>2. aborted' \in BOOLEAN /\ last \in memtree
      BY <2>1 DEF Last, LinksUnset
    <2>3. QED
      BY <1>3, <2>1, <2>2, LinkFrame DEF LinkFree
  <1>4. CASE LinkRealloc
    <2>1. PICK last \in Last(NextRecord.realloc) :
             /\ Link(last, NextRecord)
             /\ IF LinksUnset(last, NextRecord)
                THEN TreeInsert(memtree \ {last}, NextRecord)
                ELSE aborted' = TRUE /\ UNCHANGED memtree
      BY <1>4 DEF LinkRealloc
    <2>2. last \in memtree
      BY DEF Last
    <2>3. aborted' \in BOOLEAN /\ memtree' \subseteq memtree \cup {NextRecord}
      BY <2>1 DEF TreeInsert
    <2>4. QED
      BY <1>4, <2>1, <2>2, <2>3, LinkFrame DEF LinkRealloc
  <1>5. CASE LinkUnknown
    BY <1>5, LinkFrame DEF LinkUnknown
  <1>6. QED
    BY <1>1, <1>2, <1>3, <1>4, <1>5

LEMMA FunctionSeq ==
    ASSUME NEW S, NEW n \in Nat, NEW f \in [1..n -> S]
    PROVE  f \in Seq(S)
  OBVIOUS

LEMMA ProfileSaveSInv ==
    ASSUME SInv, ProfileSave
    PROVE  SInv'
  <1> USE DEF merge, chains
  <1>1. /\ HandlerOK /\ save = "print" /\ Running /\ list \in Seq(Seq(Records))
        /\ UNCHANGED vars /\ UNCHANGED <<merge, joined, chains, aborted>> /\ save' = "done"
        /\ output' = [i \in DOMAIN list[master] |-> list[master][i].id]
    BY DEF SInv, IInv, TypeOK, ProfileSave
  <1>2. master \in Profiles
    BY <1>1 DEF HandlerOK, Running, Profiles
  <1>3. output' \in Seq(1..mprId)
    <2>1. list[master] \in Seq(Records)
      BY <1>1, <1>2 DEF Profiles
    <2>2. DOMAIN list[master] = 1..Len(list[master]) /\ Len(list[master]) \in Nat
      BY <2>1
    <2>3. \A i \in DOMAIN list[master] : list[master][i].id \in 1..mprId
      BY <1>2 DEF SInv, IdsOK
    <2>4. output' \in [1..Len(list[master]) -> 1..mprId]
      BY <1>1, <2>2, <2>3
    <2>5. QED
      BY <2>2, <2>4, FunctionSeq
  <1>4. IInv'
    BY <1>1, NextIInv DEF SInv
  <1>5. \A t \in Threads : Inserting(t)' = Inserting(t)
    BY <1>1 DEF Inserting, vars
  <1>6. HandlerOK'
    BY <1>1 DEF vars, HandlerOK, Profiles, Stages
  <1>7. IdsOK'
    BY <1>1, <1>3, <1>5 DEF SInv, IdsOK, Profiles, vars
  <1>8. Unique'
    BY <1>1, <1>5 DEF SInv, Unique, Profiles, vars
  <1>9. Kept'
    BY <1>1, <1>5 DEF SInv, Kept, Somewhere, Profiles, vars
  <1>10. QED
    BY <1>4, <1>6, <1>7, <1>8, <1>9 DEF SInv

LEMMA StageSInv ==
    ASSUME SInv, SaveDropProfile \/ SaveProfilesDone \/ SaveSortDone \/ LinkDone
    PROVE  SInv'
  <1> USE DEF merge
  <1>1. /\ HandlerOK /\ profiles \in Seq(Nat) /\ keyValid \in BOOLEAN /\ crashed \in BOOLEAN
        /\ master \in 0..Len(list)
    BY DEF SInv, IInv, TypeOK, HandlerOK
  <1>2. CASE SaveDropProfile
    <2>1. destroyed' \subseteq Profiles
      BY <1>1, <1>2 DEF SaveDropProfile, HandlerOK, Profiles, SInv, IInv, TypeOK
    <2>2. HandlerOK'
      BY <1>1, <1>2, <2>1 DEF SaveDropProfile, HandlerOK, Profiles, Stages, vars, chains
    <2>3. QED
      BY <1>1, <1>2, <2>2, StillSInv DEF SaveDropProfile, vars, libc, ghosts
  <1>3. CASE SaveProfilesDone
    <2>1. HandlerOK'
      BY <1>1, <1>3 DEF SaveProfilesDone, HandlerOK, Profiles, Stages, profileVars, chains
    <2>2. QED
      BY <1>1, <1>3, <2>1, StillSInv DEF SaveProfilesDone, profileVars
  <1>4. CASE SaveSortDone
    <2>1. HandlerOK'
      BY <1>1, <1>4 DEF SaveSortDone, HandlerOK, Profiles, Stages, vars, chains, Running
    <2>2. QED
      BY <1>1, <1>4, <2>1, StillSInv DEF SaveSortDone, vars, libc, ghosts
  <1>5. CASE LinkDone
    <2>1. HandlerOK'
      BY <1>1, <1>5 DEF LinkDone, HandlerOK, Profiles, Stages, vars, chains, Running
    <2>2. QED
      BY <1>1, <1>5, <2>1, StillSInv DEF LinkDone, vars, libc, ghosts
  <1>6. QED
    BY <1>2, <1>3, <1>4, <1>5

LEMMA NextSInv == SInv /\ [SaveNext]_allVars => SInv'
  <1> SUFFICES ASSUME SInv, [SaveNext]_allVars PROVE SInv'
    OBVIOUS
  <1>1. CASE UNCHANGED allVars
    <2>1. UNCHANGED vars /\ UNCHANGED saveVars
      BY <1>1 DEF allVars
    <2>2. HandlerOK'
      BY <2>1 DEF SInv, HandlerOK, vars, saveVars, merge, chains, Profiles
    <2>3. QED
      BY <2>1, <2>2, StillSInv DEF SInv, IInv, TypeOK, vars, saveVars, merge, libc, ghosts
  <1>2. ASSUME NEW rec \in sorter, SaveSortRecord,
               sorter' = sorter \ {rec}, list' = [list EXCEPT ![master] = Append(@, rec)]
        PROVE  SInv'
    BY <1>2, SortRecordSInv DEF SaveSortRecord
  <1>3. CASE SaveSortRecord
    BY <1>2, <1>3 DEF SaveSortRecord
  <1>4. CASE \E t \in Threads : Work(t)
    BY <1>4, WorkSInv
  <1>5. CASE Exit \/ SaveTakeProfile \/ SaveTakeRecord \/ ProfileSave
    BY <1>5, ExitSInv, TakeProfileSInv, TakeRecordSInv, ProfileSaveSInv
  <1>6. CASE SaveDropProfile \/ SaveProfilesDone \/ SaveSortDone \/ LinkDone
    BY <1>6, StageSInv
  <1>7. CASE LinkAlloc \/ LinkFreeNull \/ LinkFree \/ LinkRealloc \/ LinkUnknown
    BY <1>7, LinkSInv
  <1>8. QED
    BY <1>1, <1>3, <1>4, <1>5, <1>6, <1>7 DEF SaveNext, Save, Terminated

(* The variables of the threads and of the exit handler keep their types:  *)
(* nothing the handler follows leaves what exists, with threads that go on *)
(* or without.                                                             *)
THEOREM SaveTypeCorrect == SaveSpec => []SaveTypeOK
  <1>1. SInv => SaveTypeOK
    BY DEF SInv, IInv, HandlerOK, IdsOK, SaveTypeOK, Profiles
  <1>2. QED
    BY <1>1, InitSInv, NextSInv, PTL DEF SaveSpec

(* The wrappers and the exit handler together: an address is with the      *)
(* application, inside one call or with libc at any time, while the        *)
(* handler runs, too.                                                      *)
THEOREM SaveKeepsOwnership == SaveSpec => []Ownership
  <1>1. SInv => Ownership
    BY DEF SInv, IInv
  <1>2. QED
    BY <1>1, InitSInv, NextSInv, PTL DEF SaveSpec

(* Every id that was taken has one record, in a list, in the sorter or on  *)
(* its way: the handler does not meet a record twice, so its assertion on  *)
(* RB_INSERT() holds, and none is lost as long as no thread goes on.       *)
THEOREM NoRecordIsLost == SaveSpec => []RecordsAccounted
  <1>1. SInv => RecordsAccounted
    <2> SUFFICES ASSUME SInv, NEW id \in 1..mprId
                 PROVE  /\ \A x, y \in Places(id) : x = y
                        /\ joined \/ destroyed = {} => Places(id) # {}
      BY DEF RecordsAccounted
    <2> DEFINE InList(x) == \E p \in Profiles : \E i \in DOMAIN list[p] :
                               list[p][i].id = id /\ x = <<"list", p, i>>
               Sorted(x) == \E r \in sorter : r.id = id /\ x = <<"sorter", r.id, r>>
               WithThread(x) == \E t \in Threads :
                                   Inserting(t) /\ req[t].rec.id = id /\ x = <<"thread", t, id>>
    <2>1. \A x : x \in Places(id) <=> InList(x) \/ Sorted(x) \/ WithThread(x)
      <3>1. ASSUME NEW x PROVE x \in InLists(id) <=> InList(x)
        <4> DEFINE At(p) == {<<"list", p, i>> : i \in {k \in DOMAIN list[p] : list[p][k].id = id}}
        <4>1. x \in InLists(id) <=> \E p \in Profiles : x \in At(p)
          BY DEF InLists, Profiles
        <4>2. \A p : x \in At(p) <=> \E i \in DOMAIN list[p] :
                                       list[p][i].id = id /\ x = <<"list", p, i>>
          OBVIOUS
        <4>3. QED
          BY <4>1, <4>2
      <3>2. \A x : x \in InSorter(id) <=> Sorted(x)
        BY DEF InSorter
      <3>3. \A x : x \in WithThreads(id) <=> WithThread(x)
        BY DEF WithThreads, Inserting
      <3> HIDE DEF InList, Sorted, WithThread
      <3>4. QED
        BY <3>1, <3>2, <3>3 DEF Places
    <2>2. \A x, y : InList(x) => (InList(y) => x = y) /\ ~Sorted(y) /\ ~WithThread(y)
      BY DEF SInv, Unique
    <2>3. \A x, y : Sorted(x) => (Sorted(y) => x = y) /\ ~WithThread(y)
      BY DEF SInv, Unique
    <2>4. \A x, y : WithThread(x) => (WithThread(y) => x = y)
      BY DEF SInv, Unique
    <2>5. \A x, y \in Places(id) : x = y
      <3> HIDE DEF InList, Sorted, WithThread
      <3>1. QED
        BY <2>1, <2>2, <2>3, <2>4
    <2>6. ASSUME joined \/ destroyed = {} PROVE \E x : InList(x) \/ Sorted(x) \/ WithThread(x)
      <3>1. Somewhere(id)
        BY <2>6 DEF SInv, Kept
      <3>2. CASE \E p \in Profiles : \E i \in DOMAIN list[p] : list[p][i].id = id
        <4>1. \E x : InList(x)
          BY <3>2
        <4>2. QED
          BY <4>1
      <3>3. CASE \E r \in sorter : r.id = id
        <4>1. \E x : Sorted(x)
          BY <3>3
        <4>2. QED
          BY <4>1
      <3>4. CASE \E t \in Threads : Inserting(t) /\ req[t].rec.id = id
        <4>1. \E x : WithThread(x)
          BY <3>4
        <4>2. QED
          BY <4>1
      <3>5. QED
        BY <3>1, <3>2, <3>3, <3>4 DEF Somewhere
    <2>7. joined \/ destroyed = {} => Places(id) # {}
      BY <2>1, <2>6
    <2>8. QED
      BY <2>5, <2>7
  <1>2. QED
    BY <1>1, InitSInv, NextSInv, PTL DEF SaveSpec

(***************************************************************************)
(* The output.  When the threads are joined, every profile is on the list  *)
(* when the handler starts; from then on the records are where the walk    *)
(* has not been yet, in the sorter, or sorted at the end of the master's   *)
(* list.  The least id in the sorter is the next number because no id is   *)
(* lost (Kept) and none is twice (Unique).                                 *)
(***************************************************************************)
Listed(p) == \E i \in DOMAIN profiles : profiles[i] = p

Collected == joined =>
    /\ save = "run" => \A p \in Profiles : Listed(p)
    /\ save # "run" /\ walk = 0 => profiles = <<>>
    /\ save = "profiles" => \A p \in Profiles : list[p] = <<>> \/ Listed(p)
    /\ save = "records" => \A p \in Profiles : list[p] = <<>> \/ Listed(p) \/ p = cur
    /\ save \in {"sort", "chains", "print"} /\ ~crashed =>
          /\ \A p \in Profiles : p # master => list[p] = <<>>
          /\ \A i \in DOMAIN list[master] : list[master][i].id = i
    /\ save \in {"chains", "print"} => sorter = {}
    /\ save = "done" => output = [i \in 1..mprId |-> i]

LEMMA WorkCollected ==
    ASSUME SInv, Collected, NEW t \in Threads, Work(t)
    PROVE  Collected'
  <1> USE DEF saveVars, merge, chains
  <1>1. UNCHANGED saveVars /\ (joined => save = "run")
    BY DEF Work
  <1>2. list \in Seq(Seq(Records)) /\ profiles \in Seq(Nat)
    BY DEF SInv, IInv, TypeOK
  <1>3. \/ Profiles' = Profiles /\ profiles' = profiles
        \/ /\ list' = Append(list, <<>>)
           /\ profiles' = Append(profiles, Len(list) + 1)
    <2>1. CASE Call(t)
      BY <2>1, CallFrame DEF SInv, Profiles
    <2>2. CASE TakeId(t) \/ RecordLost(t) \/ LibcRelease(t) \/ UseAfterFree(t)
      BY <2>2 DEF TakeId, RecordLost, LibcRelease, UseAfterFree, profileVars, Profiles
    <2>3. CASE InsertTail(t)
      BY <2>3, <1>2 DEF InsertTail, Profiles
    <2>4. QED
      BY <2>1, <2>2, <2>3 DEF Work
  <1>4. ASSUME save = "run", \A p \in Profiles : Listed(p) PROVE \A p \in Profiles' : Listed(p)'
    <2>1. CASE Profiles' = Profiles /\ profiles' = profiles
      BY <1>4, <2>1 DEF Listed
    <2>2. CASE /\ list' = Append(list, <<>>)
               /\ profiles' = Append(profiles, Len(list) + 1)
      <3>1. /\ \A p \in Profiles' : p \in Profiles \/ p = Len(list) + 1
            /\ \A i \in DOMAIN profiles : i \in DOMAIN profiles' /\ profiles'[i] = profiles[i]
            /\ Len(profiles) + 1 \in DOMAIN profiles'
            /\ profiles'[Len(profiles) + 1] = Len(list) + 1
        BY <1>2, <2>2 DEF Profiles
      <3>2. QED
        BY <1>4, <3>1 DEF Listed
    <2>3. QED
      BY <1>3, <2>1, <2>2
  <1>5. QED
    BY <1>1, <1>4 DEF Collected

LEMMA WalkCollected ==
    ASSUME SInv, Collected,
           Exit \/ SaveTakeProfile \/ SaveTakeRecord \/ SaveDropProfile \/ SaveProfilesDone
    PROVE  Collected'
  <1> USE DEF chains, merge
  <1>0. /\ HandlerOK /\ list \in Seq(Seq(Records)) /\ profiles \in Seq(Nat)
        /\ \A i \in DOMAIN profiles : profiles[i] \in 1..Len(list)
    BY DEF SInv, IInv, TypeOK, HandlerOK, Profiles
  <1>1. CASE Exit
    <2>1. /\ UNCHANGED <<list, profiles>> /\ save = "run" /\ save' = "profiles" /\ joined
          /\ walk' = FirstProfile
      BY <1>0, <1>1 DEF Exit, HandlerOK
    <2>2. walk' = 0 => profiles = <<>>
      BY <1>0, <2>1 DEF FirstProfile
    <2>3. \A p \in Profiles' : Listed(p)'
      BY <2>1 DEF Collected, Profiles, Listed
    <2>4. QED
      BY <2>1, <2>2, <2>3 DEF Collected
  <1>2. CASE SaveTakeProfile
    <2>1. /\ UNCHANGED <<list, joined>> /\ save = "profiles" /\ save' = "records"
          /\ walk # 0 /\ cur' = walk /\ profiles' = Tail(profiles)
          /\ walk' = IF Len(profiles) > 1 THEN profiles[2] ELSE 0
      BY <1>2 DEF SaveTakeProfile
    <2>2. profiles # <<>> /\ walk = profiles[1]
      BY <1>0, <2>1 DEF HandlerOK
    <2>3. /\ Len(profiles) \in Nat /\ Len(profiles) # 0 /\ DOMAIN profiles = 1..Len(profiles)
          /\ DOMAIN profiles' = 1..(Len(profiles) - 1)
          /\ \A i \in 1..(Len(profiles) - 1) : profiles'[i] = profiles[i + 1]
      BY <1>0, <2>1, <2>2
    <2>4. ASSUME NEW p \in Profiles, Listed(p) PROVE Listed(p)' \/ p = cur'
      <3>1. PICK i \in DOMAIN profiles : profiles[i] = p
        BY <2>4 DEF Listed
      <3>2. CASE i = 1
        BY <2>1, <2>2, <3>1, <3>2
      <3>3. CASE i # 1
        <4>1. i - 1 \in DOMAIN profiles' /\ profiles'[i - 1] = p
          BY <2>3, <3>1, <3>3
        <4>2. QED
          BY <4>1 DEF Listed
      <3>4. QED
        BY <3>2, <3>3
    <2>5. walk' = 0 => profiles' = <<>>
      <3>1. ASSUME walk' = 0 PROVE profiles' = <<>>
        <4>1. ~(Len(profiles) > 1)
          <5>1. Len(profiles) > 1 => 2 \in DOMAIN profiles
            BY <2>3
          <5>2. QED
            BY <1>0, <2>1, <3>1, <5>1
        <4>2. Len(profiles) = 1
          BY <2>3, <4>1
        <4>3. QED
          BY <1>0, <2>1, <4>2
      <3>2. QED
        BY <3>1
    <2>6. QED
      BY <2>1, <2>4, <2>5 DEF Collected, Profiles
  <1>3. CASE SaveTakeRecord
    <2>1. /\ UNCHANGED <<profiles, save, cur, walk, joined>> /\ save = "records"
          /\ list' = [list EXCEPT ![cur] = Tail(@)]
      BY <1>3 DEF SaveTakeRecord
    <2>2. Profiles' = Profiles /\ \A p \in Profiles : p # cur => list'[p] = list[p]
      BY <1>0, <2>1 DEF Profiles
    <2>3. QED
      BY <2>1, <2>2 DEF Collected, Listed
  <1>4. CASE SaveDropProfile
    BY <1>4 DEF SaveDropProfile, vars, Collected, Listed, Profiles
  <1>5. CASE SaveProfilesDone
    <2>1. /\ UNCHANGED <<list, profiles, walk, master, joined>> /\ save = "profiles"
          /\ walk = 0 /\ save' = "sort" /\ crashed' = (master = 0)
      BY <1>5 DEF SaveProfilesDone, profileVars
    <2>2. joined => profiles = <<>> /\ \A p \in Profiles : list[p] = <<>>
      BY <2>1 DEF Collected, Listed
    <2>3. master # 0 => master \in Profiles
      BY <1>0 DEF HandlerOK, Profiles
    <2>4. joined /\ ~crashed' => \A i \in DOMAIN list[master] : list[master][i].id = i
      <3> SUFFICES ASSUME joined, ~crashed' PROVE \A i \in DOMAIN list[master] : list[master][i].id = i
        OBVIOUS
      <3>1. master # 0
        BY <2>1
      <3>2. list[master] = <<>>
        BY <2>2, <2>3, <3>1
      <3>3. QED
        BY <3>2
    <2>5. QED
      BY <2>1, <2>2, <2>4 DEF Collected, Profiles
  <1>6. QED
    BY <1>1, <1>2, <1>3, <1>4, <1>5

LEMMA SortCollected ==
    ASSUME SInv, Collected, NEW rec \in sorter, Running, save = "sort",
           \A r \in sorter : rec.id <= r.id,
           sorter' = sorter \ {rec}, list' = [list EXCEPT ![master] = Append(@, rec)],
           UNCHANGED <<profiles, mprId, crashed, save, walk, cur, master, joined, output>>
    PROVE  Collected'
  <1> SUFFICES ASSUME joined PROVE Collected'
    BY DEF Collected
  <1> DEFINE n == Len(list[master])
  <1>0. /\ HandlerOK /\ list \in Seq(Seq(Records)) /\ rec \in Records /\ mprId \in Nat
        /\ ~crashed
    BY DEF SInv, IInv, TypeOK, IdsOK, Running
  <1>1. master \in Profiles /\ \A t \in Threads : ~Inserting(t)
    BY <1>0 DEF HandlerOK, Profiles, Inserting
  <1>2. /\ Profiles' = Profiles
        /\ \A q \in Profiles : q # master => list'[q] = list[q]
        /\ \A i \in DOMAIN list[master] : list'[master][i] = list[master][i]
        /\ \A i \in DOMAIN list'[master] : i \in DOMAIN list[master] \/ i = n + 1
        /\ list'[master][n + 1] = rec
        /\ DOMAIN list[master] = 1..n /\ n \in Nat
    BY <1>0, <1>1, AppendAt DEF Profiles
  <1> HIDE DEF n
  <1>3. /\ \A p \in Profiles : p # master => list[p] = <<>>
        /\ \A i \in 1..n : list[master][i].id = i
    BY <1>0, <1>2 DEF Collected
  <1>4. rec.id \in 1..mprId /\ \A r \in sorter : r.id \in 1..mprId /\ r.id \notin 1..n
    <2>1. \A r \in sorter : r.id \in 1..mprId
      BY DEF SInv, IdsOK
    <2>2. \A r \in sorter : r.id \notin 1..n
      BY <1>1, <1>2, <1>3 DEF SInv, Unique
    <2>3. QED
      BY <2>1, <2>2
  <1>5. n + 1 \in 1..mprId
    BY <1>0, <1>2, <1>4
  <1>6. \E r \in sorter : r.id = n + 1
    <2>1. Somewhere(n + 1)
      BY <1>5 DEF SInv, Kept
    <2>2. ~\E p \in Profiles : \E i \in DOMAIN list[p] : list[p][i].id = n + 1
      <3>1. \A i \in 1..n : i # n + 1
        BY <1>2
      <3>2. QED
        BY <1>2, <1>3, <3>1
    <2>3. QED
      BY <1>1, <2>1, <2>2 DEF Somewhere
  <1>7. rec.id = n + 1
    BY <1>2, <1>4, <1>6
  <1>8. \A i \in DOMAIN list'[master] : list'[master][i].id = i
    BY <1>2, <1>3, <1>7
  <1>9. QED
    BY <1>2, <1>3, <1>8 DEF Collected

LEMMA DoneCollected ==
    ASSUME SInv, Collected, ProfileSave
    PROVE  Collected'
  <1> USE DEF merge
  <1> SUFFICES ASSUME joined PROVE Collected'
    BY DEF ProfileSave, Collected
  <1> DEFINE n == Len(list[master])
  <1>0. /\ HandlerOK /\ list \in Seq(Seq(Records)) /\ mprId \in Nat
        /\ ~crashed /\ save = "print" /\ save' = "done" /\ UNCHANGED vars /\ UNCHANGED walk
        /\ output' = [i \in DOMAIN list[master] |-> list[master][i].id]
    BY DEF SInv, IInv, TypeOK, ProfileSave, Running
  <1>1. master \in Profiles /\ \A t \in Threads : ~Inserting(t)
    BY <1>0 DEF HandlerOK, Profiles, Inserting
  <1>2. DOMAIN list[master] = 1..n /\ n \in Nat
    <2>1. list[master] \in Seq(Records)
      BY <1>0, <1>1 DEF Profiles
    <2>2. QED
      BY <2>1
  <1> HIDE DEF n
  <1>3. /\ \A p \in Profiles : p # master => list[p] = <<>>
        /\ \A i \in 1..n : list[master][i].id = i
        /\ sorter = {}
    BY <1>0, <1>2 DEF Collected
  <1>4. \A id \in 1..mprId : id \in 1..n
    <2> SUFFICES ASSUME NEW id \in 1..mprId PROVE id \in 1..n
      OBVIOUS
    <2>1. Somewhere(id)
      BY DEF SInv, Kept
    <2>2. PICK p \in Profiles : \E i \in DOMAIN list[p] : list[p][i].id = id
      BY <1>1, <1>3, <2>1 DEF Somewhere
    <2>3. QED
      BY <1>2, <1>3, <2>2
  <1>5. \A i \in 1..n : i \in 1..mprId
    BY <1>1, <1>2, <1>3 DEF SInv, IdsOK
  <1>6. 1..n = 1..mprId
    BY <1>4, <1>5
  <1>7. output' = [i \in 1..mprId |-> i]
    BY <1>0, <1>2, <1>3, <1>6
  <1>8. QED
    BY <1>0, <1>7 DEF Collected, vars

LEMMA NextCollected == SInv /\ Collected /\ [SaveNext]_allVars => Collected'
  <1> SUFFICES ASSUME SInv, Collected, [SaveNext]_allVars PROVE Collected'
    OBVIOUS
  <1>1. CASE UNCHANGED allVars
    BY <1>1 DEF Collected, Listed, Profiles, allVars, vars, saveVars, merge
  <1>2. CASE \E t \in Threads : Work(t)
    BY <1>2, WorkCollected
  <1>3. CASE Exit \/ SaveTakeProfile \/ SaveTakeRecord \/ SaveDropProfile \/ SaveProfilesDone
    BY <1>3, WalkCollected
  <1>4. CASE SaveSortRecord
    <2>1. PICK rec \in sorter :
             /\ \A r \in sorter : rec.id <= r.id
             /\ sorter' = sorter \ {rec}
             /\ list' = [list EXCEPT ![master] = Append(@, rec)]
      BY <1>4 DEF SaveSortRecord
    <2>2. QED
      BY <1>4, <2>1, SortCollected DEF SaveSortRecord
  <1>5. CASE SaveSortDone
    BY <1>5 DEF SaveSortDone, Collected, Listed, Profiles, vars, merge
  <1>6. CASE LinkAlloc \/ LinkFreeNull \/ LinkFree \/ LinkRealloc \/ LinkUnknown
    <2>1. LinkRecord
      BY <1>6 DEF LinkAlloc, LinkFreeNull, LinkFree, LinkRealloc, LinkUnknown
    <2>2. QED
      BY <2>1 DEF LinkRecord, Collected, Listed, Profiles, vars, merge
  <1>7. CASE LinkDone
    BY <1>7 DEF LinkDone, Collected, Listed, Profiles, vars, merge
  <1>8. CASE ProfileSave
    BY <1>8, DoneCollected
  <1>9. QED
    BY <1>1, <1>2, <1>3, <1>4, <1>5, <1>6, <1>7, <1>8 DEF SaveNext, Save, Terminated

(* Whatever the profiles the records were in, and whatever allocations     *)
(* failed: when the threads were joined, the file holds the record of      *)
(* every id that was taken, once, in the order of the ids.                 *)
THEOREM OutputIsTheHistory == SaveSpec => []OutputIsHistory
  <1>1. SaveInit => Collected
    BY DEF SaveInit, Init, Collected, Profiles
  <1>2. Collected => OutputIsHistory
    BY DEF Collected, OutputIsHistory, Saved
  <1>3. SInv /\ Collected /\ [SaveNext]_allVars => (SInv /\ Collected)'
    BY NextSInv, NextCollected
  <1>4. QED
    BY <1>1, <1>2, <1>3, InitSInv, PTL DEF SaveSpec
-----------------------------------------------------------------------------
(***************************************************************************)
(* Part 3: the chains that are linked at exit, when every call succeeds    *)
(* and no other thread is in a call while realloc() moves a block          *)
(* (ChainSafe): with the exit handler in the system the log is still the   *)
(* history of a heap, and build_chains() links it without a failure, to    *)
(* the chains of the history, whose loose ends are the blocks the          *)
(* application holds.                                                      *)
(***************************************************************************)
HP == INSTANCE AllocHistoryProofs WITH log <- hist

LogInv == SafeInv /\ HP!HInv /\ HP!ReplayInv

\* A step is one of a thread, or of the handler, which leaves the threads,
\* the heap and the history alone.
LEMMA WhoSteps ==
    ASSUME [SaveNext]_allVars
    PROVE  \/ \E t \in Threads : Work(t)
           \/ UNCHANGED <<heap, size, held, calls, pc, req, mprId, hist, open, bytes>>
  <1>1. ASSUME UNCHANGED vars
        PROVE  UNCHANGED <<heap, size, held, calls, pc, req, mprId, hist, open, bytes>>
    BY <1>1 DEF vars
  <1>2. CASE Exit \/ SaveTakeProfile \/ SaveTakeRecord \/ SaveProfilesDone \/ SaveSortRecord
    BY <1>2 DEF Exit, SaveTakeProfile, SaveTakeRecord, SaveProfilesDone, SaveSortRecord, libc,
                ghosts
  <1>3. CASE SaveDropProfile \/ SaveSortDone \/ LinkDone \/ ProfileSave
    BY <1>1, <1>3 DEF SaveDropProfile, SaveSortDone, LinkDone, ProfileSave
  <1>4. CASE LinkAlloc \/ LinkFreeNull \/ LinkFree \/ LinkRealloc \/ LinkUnknown
    BY <1>1, <1>4 DEF LinkAlloc, LinkFreeNull, LinkFree, LinkRealloc, LinkUnknown, LinkRecord
  <1>5. CASE Terminated \/ UNCHANGED allVars
    BY <1>1, <1>5 DEF Terminated, allVars
  <1>6. QED
    BY <1>2, <1>3, <1>4, <1>5 DEF SaveNext, Save

\* Of the threads' steps only TakeId adds to the history.
LEMMA WorkHistory ==
    ASSUME NEW t \in Threads, Work(t)
    PROVE  TakeId(t) \/ UNCHANGED <<mprId, hist, open, bytes>>
  BY DEF Work, Call, CreateProfile, CreateProfileFails, MallocTrace, MallocTraceFails, FreeTrace,
         FreeNullTrace, ReallocTrace, ReallocTraceFails, MergeProfile, RecordLost, InsertTail,
         LibcRelease, UseAfterFree, ghosts

LEMMA HistoryLogInv ==
    ASSUME HP!HInv, HP!ReplayInv, History!HistNext \/ UNCHANGED <<hist, open, bytes>>
    PROVE  HP!HInv' /\ HP!ReplayInv'
  <1>1. [HP!HistNext]_(HP!histVars)
    BY DEF HP!HistNext, HP!histVars, HP!LogAlloc, HP!LogFree, HP!LogFreeNull, HP!LogRealloc,
           HP!Entry, HP!Id, History!HistNext, History!histVars, History!LogAlloc,
           History!LogFree, History!LogFreeNull, History!LogRealloc, History!Entry, History!Id
  <1>2. QED
    BY <1>1, HP!NextHInv, HP!NextReplay, NullAssumption, SizesAssumption
    DEF HP!AddrAssumption, HP!SizeAssumption

LEMMA NextLogInv == ChainSafe /\ SInv /\ LogInv /\ [SaveNext]_allVars => LogInv'
  <1> SUFFICES ASSUME ChainSafe, SInv, LogInv, [SaveNext]_allVars PROVE LogInv'
    OBVIOUS
  <1>0. IInv /\ SafeInv /\ HP!HInv /\ HP!ReplayInv
    BY DEF SInv, LogInv
  <1>1. ASSUME UNCHANGED <<heap, size, held, pc, req, open, bytes>> PROVE SafeInv'
    BY <1>0, <1>1, SafeUnchanged
  <1>2. CASE UNCHANGED <<heap, size, held, calls, pc, req, mprId, hist, open, bytes>>
    BY <1>0, <1>1, <1>2, HistoryLogInv DEF LogInv
  <1>3. ASSUME NEW t \in Threads, Work(t) PROVE LogInv'
    <2>1. SafeInv'
      <3>1. CASE Call(t)
        BY <1>0, <3>1, CallSafe
      <3>2. CASE TakeId(t)
        BY <1>0, <3>2, TakeIdSafe
      <3>3. CASE RecordLost(t)
        BY <3>3 DEF ChainSafe, RecordLost
      <3>4. CASE LibcRelease(t)
        BY <1>0, <3>4, ReleaseSafe
      <3>5. CASE InsertTail(t)
        BY <1>0, <3>5, InsertSafe
      <3>6. CASE UseAfterFree(t)
        <4>1. CASE UNCHANGED <<pc, req, held>>
          BY <1>1, <3>6, <4>1 DEF UseAfterFree, libc, ghosts
        <4>2. CASE Finish(t)
          BY <1>0, <3>6, <4>2, FinishSafe DEF UseAfterFree, libc, ghosts
        <4>3. QED
          BY <3>6, <4>1, <4>2 DEF UseAfterFree
      <3>7. QED
        BY <1>3, <3>1, <3>2, <3>3, <3>4, <3>5, <3>6 DEF Work
    <2>2. History!HistNext \/ UNCHANGED <<hist, open, bytes>>
      BY <1>0, <1>3, WorkHistory, HistoryStep
    <2>3. QED
      BY <1>0, <2>1, <2>2, HistoryLogInv DEF LogInv
  <1>4. QED
    BY <1>2, <1>3, WhoSteps

LEMMA InitLogInv == Init => LogInv
  <1> SUFFICES ASSUME Init PROVE LogInv
    OBVIOUS
  <1>1. HP!HistInit
    BY DEF Init, HP!HistInit
  <1>2. HP!HInv
    BY <1>1, HP!InitHInv, NullAssumption, SizesAssumption
    DEF HP!AddrAssumption, HP!SizeAssumption
  <1>3. HP!ReplayInv
    BY DEF Init, HP!ReplayInv
  <1>4. QED
    BY <1>2, <1>3, InitSafe DEF LogInv

(***************************************************************************)
(* Every id is one of Ids: a thread that will take one has had its call    *)
(* counted.                                                                *)
(***************************************************************************)
Pending == {t \in Threads : pc[t] \in {"call", "record"}}

CallsInv ==
    /\ IsFiniteSet(Pending)
    /\ mprId + Cardinality(Pending) <= calls

LEMMA PendingStep ==
    ASSUME IInv, IInv', CallsInv, NEW t \in Threads,
           \A u \in Threads : u # t => pc'[u] = pc[u],
           \/ t \notin Pending /\ t \in Pending' /\ calls' = calls + 1 /\ mprId' = mprId
           \/ (t \in Pending' => t \in Pending) /\ calls' >= calls /\ mprId' = mprId
           \/ t \in Pending /\ t \notin Pending' /\ calls' = calls /\ mprId' = mprId + 1
    PROVE  CallsInv'
  <1> DEFINE c == Cardinality(Pending)
  <1>1. /\ IsFiniteSet(Pending) /\ c \in Nat /\ mprId + c <= calls
        /\ mprId \in Nat /\ calls \in Nat /\ calls' \in Nat
    BY FS_CardinalityType, BoundAssumption DEF CallsInv, IInv, TypeOK
  <1>2. Pending' = Pending \cup {t} \/ Pending' = Pending \/ Pending' = Pending \ {t}
    BY DEF Pending
  <1>3. /\ IsFiniteSet(Pending \cup {t}) /\ IsFiniteSet(Pending \ {t})
        /\ t \notin Pending => Cardinality(Pending \cup {t}) = c + 1
        /\ t \in Pending => Cardinality(Pending \ {t}) = c - 1
    BY <1>1, FS_AddElement, FS_RemoveElement
  <1> DEFINE d == Cardinality(Pending')
  <1>4. /\ IsFiniteSet(Pending')
        /\ t \notin Pending /\ t \in Pending' => d = c + 1
        /\ t \in Pending /\ t \notin Pending' => d = c - 1
        /\ t \in Pending <=> t \in Pending' => d = c
    <2>1. CASE t \in Pending <=> t \in Pending'
      <3>1. Pending' = Pending
        BY <1>2, <2>1
      <3>2. QED
        BY <1>1, <2>1, <3>1
    <2>2. CASE t \notin Pending /\ t \in Pending'
      <3>1. Pending' = Pending \cup {t}
        BY <1>2, <2>2
      <3>2. QED
        BY <1>3, <2>2, <3>1
    <2>3. CASE t \in Pending /\ t \notin Pending'
      <3>1. Pending' = Pending \ {t}
        BY <1>2, <2>3
      <3>2. QED
        BY <1>3, <2>3, <3>1
    <2>4. QED
      BY <2>1, <2>2, <2>3
  <1> HIDE DEF c, d
  <1>5. mprId' + d <= calls'
    BY <1>1, <1>4
  <1>6. QED
    BY <1>4, <1>5 DEF CallsInv, d

LEMMA NextCallsInv == SInv /\ SInv' /\ CallsInv /\ [SaveNext]_allVars => CallsInv'
  <1> SUFFICES ASSUME SInv, SInv', CallsInv, [SaveNext]_allVars PROVE CallsInv'
    OBVIOUS
  <1>0. IInv /\ IInv' /\ calls \in Nat
    BY BoundAssumption DEF SInv, IInv, TypeOK
  <1>1. ASSUME UNCHANGED <<calls, pc, mprId>> PROVE CallsInv'
    BY <1>1 DEF CallsInv, Pending
  <1>2. ASSUME NEW t \in Threads, Work(t)
        PROVE  /\ \A u \in Threads : u # t => pc'[u] = pc[u]
               /\ \/ t \notin Pending /\ t \in Pending' /\ calls' = calls + 1 /\ mprId' = mprId
                  \/ (t \in Pending' => t \in Pending) /\ calls' >= calls /\ mprId' = mprId
                  \/ t \in Pending /\ t \notin Pending' /\ calls' = calls /\ mprId' = mprId + 1
    <2>1. CASE Call(t)
      <3>1. /\ \A u \in Threads : u # t => pc'[u] = pc[u]
            /\ mprId' = mprId
        BY <1>0, <2>1, CallFrame
      <3>2. ASSUME Enter(t)
            PROVE  \/ t \in Pending /\ calls' = calls
                   \/ t \notin Pending /\ calls' = calls + 1
        BY <3>2 DEF Enter, Pending
      <3>3. CASE CreateProfile(t)
        <4>1. pc[t] = "idle" /\ pc'[t] = "call" /\ calls' = calls + 1
          BY <1>0, <3>3 DEF CreateProfile, IInv, TypeOK
        <4>2. QED
          BY <3>1, <4>1 DEF Pending
      <3>4. CASE CreateProfileFails(t) \/ MergeProfile(t)
        <4>1. UNCHANGED <<pc, calls>>
          BY <3>4 DEF CreateProfileFails, MergeProfile
        <4>2. QED
          BY <1>0, <3>1, <4>1 DEF Pending
      <3>5. CASE \/ \E sz \in Sizes : MallocTrace(t, sz) \/ MallocTraceFails(t, sz)
                 \/ \E b \in held : FreeTrace(t, b)
                 \/ \E zero \in BOOLEAN : FreeNullTrace(t, zero)
                 \/ \E b \in held, sz \in Sizes : ReallocTrace(t, b, sz)
        <4>1. Enter(t) /\ \E rec, zero : ToRecord(t, rec, zero)
          BY <3>5 DEF MallocTrace, MallocTraceFails, FreeTrace, FreeNullTrace, ReallocTrace
        <4>2. t \in Pending'
          BY <1>0, <4>1 DEF ToRecord, Pending, IInv, TypeOK
        <4>3. QED
          BY <1>0, <3>1, <3>2, <4>1, <4>2
      <3>6. CASE ReallocTraceFails(t)
        <4>1. Enter(t) /\ t \notin Pending'
          BY <1>0, <3>6 DEF ReallocTraceFails, Pending, IInv, TypeOK
        <4>2. QED
          BY <1>0, <3>1, <3>2, <4>1
      <3>7. QED
        BY <2>1, <3>3, <3>4, <3>5, <3>6 DEF Call
    <2>2. CASE TakeId(t)
      BY <1>0, <2>2 DEF TakeId, Pending, IInv, TypeOK
    <2>3. CASE RecordLost(t) \/ InsertTail(t)
      BY <1>0, <2>3 DEF RecordLost, InsertTail, Finish, Pending, IInv, TypeOK
    <2>4. CASE LibcRelease(t) \/ UseAfterFree(t)
      BY <1>0, <2>4 DEF LibcRelease, UseAfterFree, Finish, Pending, IInv, TypeOK
    <2>5. QED
      BY <1>2, <2>1, <2>2, <2>3, <2>4 DEF Work
  <1>3. ASSUME NEW t \in Threads, Work(t) PROVE CallsInv'
    BY <1>0, <1>2, <1>3, PendingStep
  <1>4. QED
    BY <1>1, <1>3, WhoSteps

LEMMA IdsBounded ==
    ASSUME SInv, CallsInv
    PROVE  1..mprId \subseteq Ids
  <1>1. Cardinality(Pending) \in Nat
    BY FS_CardinalityType DEF CallsInv
  <1>2. mprId <= MaxCalls
    BY <1>1, BoundAssumption DEF CallsInv, SInv, IInv, TypeOK
  <1>3. QED
    BY <1>2, BoundAssumption DEF Ids, SInv, IInv, TypeOK

(***************************************************************************)
(* A record with an id says what the history says.                         *)
(***************************************************************************)
Matches(h, r) == r.state = h[r.id].state /\ r.mem = h[r.id].mem /\ r.realloc = h[r.id].realloc

RecInv ==
    /\ Len(hist) = mprId
    /\ \A p \in Profiles : \A i \in DOMAIN list[p] : Matches(hist, list[p][i])
    /\ \A r \in sorter : Matches(hist, r)
    /\ \A t \in Threads : Inserting(t) => Matches(hist, req[t].rec)

LEMMA WorkRecInv ==
    ASSUME SInv, RecInv, NEW t \in Threads, Work(t)
    PROVE  RecInv'
  <1>0. /\ IInv /\ sorter' = sorter /\ list \in Seq(Seq(Records))
        /\ hist \in Seq(Entries) /\ mprId \in Nat
    BY DEF SInv, IInv, TypeOK, Work, saveVars, merge
  <1>1. CASE TakeId(t)
    <2>1. /\ req[t] \in Requests /\ req[t].rec \in Records
          /\ req \in [Threads -> Requests] /\ pc \in [Threads -> PCs]
      BY <1>0 DEF IInv, TypeOK, Requests
    <2>2. /\ pc[t] = "record" /\ mprId' = mprId + 1 /\ list' = list
          /\ req'[t].rec = [req[t].rec EXCEPT !.id = mprId + 1]
          /\ \A u \in Threads : u # t => pc'[u] = pc[u] /\ req'[u] = req[u]
      BY <1>1, <2>1 DEF TakeId, profileVars, Requests
    <2>3. /\ req'[t].rec.id = mprId + 1 /\ req'[t].rec.state = req[t].rec.state
          /\ req'[t].rec.mem = req[t].rec.mem /\ req'[t].rec.realloc = req[t].rec.realloc
      BY <2>1, <2>2 DEF Records
    <2>4. PICK e : /\ hist' = Append(hist, e)
                   /\ e.state = req[t].rec.state /\ e.mem = req[t].rec.mem
                   /\ e.realloc = req[t].rec.realloc
      BY <1>1 DEF TakeId, Remember
    <2>5. /\ Len(hist') = mprId' /\ hist'[mprId + 1] = e
          /\ \A i \in 1..mprId : hist'[i] = hist[i]
      BY <1>0, <2>2, <2>4 DEF RecInv
    <2>6. ASSUME NEW r, r.id \in 1..mprId, Matches(hist, r) PROVE Matches(hist', r)
      BY <2>5, <2>6 DEF Matches
    <2>7. \A p \in Profiles' : \A i \in DOMAIN list'[p] : Matches(hist', list'[p][i])
      BY <2>2, <2>6 DEF SInv, IdsOK, RecInv, Profiles
    <2>8. \A r \in sorter' : Matches(hist', r)
      BY <1>0, <2>6 DEF SInv, IdsOK, RecInv
    <2>9. \A u \in Threads : Inserting(u)' => Matches(hist', req'[u].rec)
      <3>1. Matches(hist', req'[t].rec)
        BY <2>3, <2>4, <2>5 DEF Matches
      <3>2. \A u \in Threads : u # t /\ Inserting(u)' => Inserting(u) /\ req'[u] = req[u]
        BY <2>2 DEF Inserting
      <3>3. QED
        BY <2>6, <3>1, <3>2 DEF SInv, IdsOK, RecInv
    <2>10. QED
      BY <2>5, <2>7, <2>8, <2>9 DEF RecInv
  <1>2. CASE ~TakeId(t)
    <2>1. UNCHANGED <<mprId, hist>>
      BY <1>2, WorkHistory
    <2>2. \A u \in Threads : Inserting(u)' => Inserting(u) /\ req'[u] = req[u]
      <3>1. CASE Call(t)
        BY <1>0, <3>1, CallFrame DEF Inserting
      <3>2. CASE RecordLost(t) \/ InsertTail(t)
        BY <1>0, <3>2, FinishThreads DEF RecordLost, InsertTail, Inserting
      <3>3. CASE LibcRelease(t)
        BY <1>0, <3>3 DEF LibcRelease, Inserting, IInv, TypeOK
      <3>4. CASE UseAfterFree(t)
        BY <1>0, <3>4, FinishThreads DEF UseAfterFree, Inserting
      <3>5. QED
        BY <1>2, <3>1, <3>2, <3>3, <3>4 DEF Work
    <2>3. \A p \in Profiles' : \A i \in DOMAIN list'[p] : Matches(hist, list'[p][i])
      <3>1. CASE list' = list
        BY <3>1 DEF RecInv, Profiles
      <3>2. CASE list' = Append(list, <<>>)
        <4>1. \A p \in Profiles' : \/ p \in Profiles /\ list'[p] = list[p]
                                 \/ list'[p] = <<>>
          BY <1>0, <3>2 DEF Profiles
        <4>2. QED
          BY <4>1 DEF RecInv
      <3>3. CASE InsertTail(t)
        <4> DEFINE mp == req[t].mp
        <4>0. pc[t] = "insert" /\ req[t] \in Requests
          BY <1>0, <3>3 DEF InsertTail, IInv, TypeOK
        <4>1. /\ mp \in DOMAIN list /\ req[t].rec \in Records
              /\ Inserting(t) /\ list' = [list EXCEPT ![mp] = Append(@, req[t].rec)]
          <5>1. mp \in 1..Len(list)
            BY <1>0, <4>0 DEF IInv, ProfileExists
          <5>2. QED
            BY <1>0, <3>3, <4>0, <5>1 DEF InsertTail, Inserting, Requests
        <4> HIDE DEF mp
        <4>2. /\ DOMAIN list' = DOMAIN list
              /\ \A q \in DOMAIN list : q # mp => list'[q] = list[q]
              /\ \A i \in DOMAIN list'[mp] : \/ i \in DOMAIN list[mp]
                                             \/ i = Len(list[mp]) + 1
              /\ \A i \in DOMAIN list[mp] : list'[mp][i] = list[mp][i]
              /\ list'[mp][Len(list[mp]) + 1] = req[t].rec
          BY <1>0, <4>1, AppendAt
        <4>3. \A i \in DOMAIN list'[mp] : Matches(hist, list'[mp][i])
          BY <4>1, <4>2 DEF RecInv, Profiles
        <4>4. QED
          BY <4>2, <4>3 DEF RecInv, Profiles
      <3>4. CASE RecordLost(t) \/ LibcRelease(t) \/ UseAfterFree(t)
        <4>1. list' = list
          BY <3>4 DEF RecordLost, LibcRelease, UseAfterFree, profileVars
        <4>2. QED
          BY <3>1, <4>1
      <3>5. CASE Call(t)
        BY <1>0, <3>1, <3>2, <3>5, CallFrame
      <3>6. QED
        BY <1>2, <3>3, <3>4, <3>5 DEF Work
    <2>4. QED
      BY <1>0, <2>1, <2>2, <2>3 DEF RecInv
  <1>3. QED
    BY <1>1, <1>2

LEMMA NextRecInv == SInv /\ RecInv /\ [SaveNext]_allVars => RecInv'
  <1> SUFFICES ASSUME SInv, RecInv, [SaveNext]_allVars PROVE RecInv'
    OBVIOUS
  <1>0. HandlerOK /\ list \in Seq(Seq(Records))
    BY DEF SInv, IInv, TypeOK
  <1>1. CASE UNCHANGED <<heap, size, held, calls, pc, req, mprId, hist, open, bytes>>
    <2>1. \A t \in Threads : Inserting(t)' => Inserting(t) /\ req'[t] = req[t]
      BY <1>1 DEF Inserting
    <2>2. ASSUME UNCHANGED <<list, sorter>> PROVE RecInv'
      BY <1>1, <2>1, <2>2 DEF RecInv, Profiles
    <2>3. ASSUME UNCHANGED vars, UNCHANGED merge PROVE RecInv'
      BY <2>2, <2>3 DEF vars, merge
    <2>4. CASE Exit \/ SaveTakeProfile \/ SaveProfilesDone \/ SaveDropProfile
      BY <2>2, <2>4 DEF Exit, SaveTakeProfile, SaveProfilesDone, SaveDropProfile, vars,
                        profileVars, merge
    <2>5. CASE SaveTakeRecord
      <3>1. /\ cur \in DOMAIN list /\ list[cur] # <<>>
            /\ list' = [list EXCEPT ![cur] = Tail(@)]
            /\ sorter' = sorter \cup {Head(list[cur])}
        BY <1>0, <2>5 DEF SaveTakeRecord, HandlerOK
      <3>2. /\ DOMAIN list' = DOMAIN list
            /\ \A q \in DOMAIN list : q # cur => list'[q] = list[q]
            /\ 1 \in DOMAIN list[cur] /\ Head(list[cur]) = list[cur][1]
            /\ \A i \in DOMAIN list'[cur] : /\ i + 1 \in DOMAIN list[cur]
                                            /\ list'[cur][i] = list[cur][i + 1]
        BY <1>0, <3>1, TailAt
      <3>3. \A i \in DOMAIN list'[cur] : Matches(hist, list'[cur][i])
        BY <3>1, <3>2 DEF RecInv, Profiles
      <3>4. \A p \in Profiles' : \A i \in DOMAIN list'[p] : Matches(hist, list'[p][i])
        BY <3>2, <3>3 DEF RecInv, Profiles
      <3>5. \A r \in sorter' : Matches(hist, r)
        BY <3>1, <3>2 DEF RecInv, Profiles
      <3>6. QED
        BY <1>1, <2>1, <3>4, <3>5 DEF RecInv
    <2>6. CASE SaveSortRecord
      <3>1. PICK rec \in sorter : /\ sorter' = sorter \ {rec}
                                  /\ list' = [list EXCEPT ![master] = Append(@, rec)]
        BY <2>6 DEF SaveSortRecord
      <3>2. master \in DOMAIN list /\ rec \in Records
        BY <1>0, <2>6 DEF SaveSortRecord, HandlerOK, Running, SInv, IdsOK
      <3>3. /\ DOMAIN list' = DOMAIN list
            /\ \A q \in DOMAIN list : q # master => list'[q] = list[q]
            /\ \A i \in DOMAIN list'[master] : \/ i \in DOMAIN list[master]
                                               \/ i = Len(list[master]) + 1
            /\ \A i \in DOMAIN list[master] : list'[master][i] = list[master][i]
            /\ list'[master][Len(list[master]) + 1] = rec
        BY <1>0, <3>1, <3>2, AppendAt
      <3>4. \A i \in DOMAIN list'[master] : Matches(hist, list'[master][i])
        BY <3>2, <3>3 DEF RecInv, Profiles
      <3>5. \A p \in Profiles' : \A i \in DOMAIN list'[p] : Matches(hist, list'[p][i])
        BY <3>3, <3>4 DEF RecInv, Profiles
      <3>6. QED
        BY <1>1, <2>1, <3>1, <3>5 DEF RecInv
    <2>7. CASE SaveSortDone \/ LinkDone \/ ProfileSave
      BY <2>3, <2>7 DEF SaveSortDone, LinkDone, ProfileSave
    <2>8. CASE LinkAlloc \/ LinkFreeNull \/ LinkFree \/ LinkRealloc \/ LinkUnknown
      BY <2>3, <2>8 DEF LinkAlloc, LinkFreeNull, LinkFree, LinkRealloc, LinkUnknown, LinkRecord
    <2>9. CASE Terminated \/ UNCHANGED allVars
      BY <2>2, <2>9 DEF Terminated, allVars, vars, saveVars, merge
    <2>10. CASE \E t \in Threads : Work(t)
      BY <2>10, WorkRecInv
    <2>11. QED
      BY <2>4, <2>5, <2>6, <2>7, <2>8, <2>9, <2>10 DEF SaveNext, Save
  <1>2. QED
    BY <1>1, WhoSteps, WorkRecInv

(***************************************************************************)
(* build_chains().  After it has been through the first `linked' records   *)
(* the tree holds the loose ones among them, and the links are those of    *)
(* the history.                                                            *)
(***************************************************************************)
Links ==
    /\ linked <= mprId
    /\ \A r \in memtree : r.id \in HP!Loose(hist, linked) /\ Matches(hist, r)
    /\ \A i \in HP!Loose(hist, linked) : \E r \in memtree : r.id = i
    /\ \A r, s \in memtree : r.id = s.id => r = s
    /\ \A i \in Ids : prevId[i] = IF i <= linked THEN hist[i].prev ELSE 0
    /\ \A i \in Ids : nextId[i] # 0 => nextId[i] \in 1..linked /\ hist[nextId[i]].prev = i
    /\ \A j \in 1..linked : hist[j].prev # 0 => nextId[hist[j].prev] = j

\* One record more: it takes the place of the one it continues.
LEMMA LooseStep ==
    ASSUME HP!HInv, NEW k \in DOMAIN hist
    PROVE  HP!Loose(hist, k) = (HP!Loose(hist, k - 1) \ {hist[k].prev})
                                 \cup (IF hist[k].state # "FREE" THEN {k} ELSE {})
  <1>1. k \in Nat /\ k # 0 /\ k \in 1..Len(hist) /\ DOMAIN hist = 1..Len(hist)
    BY DEF HP!HInv, HP!HistType
  <1>2. ASSUME NEW j \in 1..k PROVE hist[j].prev # k
    <2>1. j \in DOMAIN hist
      BY <1>1
    <2>2. hist[j].prev # 0 => hist[j].prev \in 1..(j - 1)
      BY <2>1 DEF HP!HInv, HP!ChainsLinear
    <2>3. QED
      BY <1>1, <2>2
  <1>3. \A i : i \in 1..k <=> i \in 1..(k - 1) \/ i = k
    BY <1>1
  <1>4. \A i : /\ i \in HP!Loose(hist, k)
                     <=> i \in 1..k /\ hist[i].state # "FREE" /\ \A j \in 1..k : hist[j].prev # i
               /\ i \in HP!Loose(hist, k - 1)
                     <=> /\ i \in 1..(k - 1) /\ hist[i].state # "FREE"
                         /\ \A j \in 1..(k - 1) : hist[j].prev # i
    BY DEF HP!Loose
  <1>5. k \notin 1..(k - 1)
    BY <1>1
  <1>6. ASSUME NEW i
        PROVE  i \in HP!Loose(hist, k)
                  <=> \/ i \in HP!Loose(hist, k - 1) /\ i # hist[k].prev
                      \/ hist[k].state # "FREE" /\ i = k
    BY <1>2, <1>3, <1>4, <1>5
  <1>7. QED
    BY <1>6

LEMMA LinksStep ==
    ASSUME SInv, CallsInv, LogInv, RecInv, Links, NEW rec \in Records, linked + 1 <= mprId,
           rec.id = linked + 1, Matches(hist, rec),
           linked' = linked + 1, UNCHANGED <<hist, mprId>>,
           \/ hist[linked + 1].prev = 0 /\ UNCHANGED <<nextId, prevId>>
           \/ /\ hist[linked + 1].prev \in HP!Loose(hist, linked)
              /\ nextId' = [nextId EXCEPT ![hist[linked + 1].prev] = linked + 1]
              /\ prevId' = [prevId EXCEPT ![linked + 1] = hist[linked + 1].prev],
           memtree' = {r \in memtree : r.id # hist[linked + 1].prev}
                         \cup (IF hist[linked + 1].state # "FREE" THEN {rec} ELSE {})
    PROVE  Links'
  <1> DEFINE k == linked + 1
             p == hist[k].prev
  <1>1. /\ linked \in Nat /\ mprId \in Nat /\ k \in 1..mprId /\ k - 1 = linked
        /\ k \in DOMAIN hist /\ DOMAIN hist = 1..mprId /\ 1..mprId \subseteq Ids
        /\ nextId \in [Ids -> 0..mprId] /\ prevId \in [Ids -> 0..mprId]
        /\ HP!HInv
    <2>1. linked \in Nat /\ mprId \in Nat /\ hist \in Seq(Entries) /\ Len(hist) = mprId
      BY DEF SInv, HandlerOK, IInv, TypeOK, RecInv
    <2>2. k \in 1..mprId /\ k - 1 = linked /\ DOMAIN hist = 1..mprId
      BY <2>1
    <2>3. QED
      BY <2>1, <2>2, IdsBounded DEF SInv, IdsOK, LogInv
  <1>2. HP!Loose(hist, k) = (HP!Loose(hist, linked) \ {p})
                                 \cup (IF hist[k].state # "FREE" THEN {k} ELSE {})
    BY <1>1, LooseStep
  <1>3. HP!Loose(hist, linked) \subseteq 1..linked
    BY DEF HP!Loose
  <1>4. p # k /\ \A i \in 1..linked : i # k /\ i \in Ids /\ i \in Nat
    BY <1>1, <1>3
  <1> DEFINE new == IF hist[k].state # "FREE" THEN {rec} ELSE {}
  <1>5. \A r \in memtree : r.id # k
    BY <1>3, <1>4 DEF Links
  <1>6. /\ linked' <= mprId'
        /\ \A r \in memtree' : r.id \in HP!Loose(hist, k) /\ Matches(hist, r)
        /\ \A i \in HP!Loose(hist, k) : \E r \in memtree' : r.id = i
        /\ \A r, s \in memtree' : r.id = s.id => r = s
    BY <1>1, <1>2, <1>3, <1>4, <1>5 DEF Links
  <1>7. \A i \in Ids : prevId'[i] = IF i <= k THEN hist[i].prev ELSE 0
    <2> SUFFICES ASSUME NEW i \in Ids PROVE prevId'[i] = IF i <= k THEN hist[i].prev ELSE 0
      OBVIOUS
    <2>1. /\ prevId[i] = IF i <= linked THEN hist[i].prev ELSE 0
          /\ i \in Nat
      BY DEF Links, Ids
    <2>2. prevId'[i] = IF i = k THEN p ELSE prevId[i]
      BY <1>1, <2>1
    <2>3. QED
      BY <1>1, <2>1, <2>2
  <1>8. /\ \A i \in Ids : nextId'[i] # 0 => nextId'[i] \in 1..k /\ hist[nextId'[i]].prev = i
        /\ \A j \in 1..k : hist[j].prev # 0 => nextId'[hist[j].prev] = j
    <2>1. \A j \in 1..k : j \in 1..linked \/ j = k
      BY <1>1
    <2>2. 1..linked \subseteq 1..k /\ k \in 1..k
      BY <1>1
    <2>3. CASE hist[linked + 1].prev = 0 /\ UNCHANGED <<nextId, prevId>>
      BY <2>1, <2>2, <2>3 DEF Links
    <2>4. CASE /\ hist[linked + 1].prev \in HP!Loose(hist, linked)
               /\ nextId' = [nextId EXCEPT ![hist[linked + 1].prev] = linked + 1]
      <3>1. \A j \in 1..linked : hist[j].prev # p
        BY <2>4 DEF HP!Loose
      <3>2. p \in Ids /\ nextId' = [nextId EXCEPT ![p] = k]
        BY <1>3, <1>4, <2>4
      <3> HIDE DEF p, k
      <3>3. QED
        BY <1>1, <2>1, <2>2, <3>1, <3>2 DEF Links, p
    <2>5. QED
      BY <2>3, <2>4
  <1> HIDE DEF p, new
  <1>9. QED
    BY <1>6, <1>7, <1>8 DEF Links

(***************************************************************************)
(* The handler, with the threads joined.                                   *)
(***************************************************************************)
BeforeChains == {"run", "profiles", "records", "sort"}

ChainInv == joined =>
    /\ ~aborted
    /\ list # <<>> => ~crashed
    /\ save = "profiles" /\ list # <<>> /\ master = 0 => walk # 0
    /\ save \in BeforeChains => linked = 0
    /\ save \in {"print", "done"} /\ LinkChains => linked = mprId
    /\ Links

\* The whole invariant of the handler under ChainSafe.
AllInv == SInv /\ Collected /\ LogInv /\ CallsInv /\ RecInv /\ ChainInv

\* Once the records are sorted, the master holds the history.
LEMMA MasterIsHistory ==
    ASSUME SInv, Collected, RecInv, joined, ~crashed, save \in {"chains", "print"}
    PROVE  /\ Len(list[master]) = mprId
           /\ \A i \in 1..mprId : /\ list[master][i] \in Records
                                  /\ list[master][i].id = i
                                  /\ Matches(hist, list[master][i])
  <1> DEFINE n == Len(list[master])
  <1>1. /\ HandlerOK /\ list \in Seq(Seq(Records)) /\ mprId \in Nat
        /\ save # "run"
    BY DEF SInv, IInv, TypeOK
  <1>2. master \in Profiles /\ \A t \in Threads : ~Inserting(t)
    BY <1>1 DEF HandlerOK, Profiles, Inserting
  <1>3. /\ list[master] \in Seq(Records) /\ DOMAIN list[master] = 1..n /\ n \in Nat
    <2>1. list[master] \in Seq(Records)
      BY <1>1, <1>2 DEF Profiles
    <2>2. QED
      BY <2>1
  <1> HIDE DEF n
  <1>4. /\ \A p \in Profiles : p # master => list[p] = <<>>
        /\ \A i \in 1..n : list[master][i].id = i
        /\ sorter = {}
    BY <1>1, <1>3 DEF Collected
  <1>5. \A id \in 1..mprId : id \in 1..n
    <2> SUFFICES ASSUME NEW id \in 1..mprId PROVE id \in 1..n
      OBVIOUS
    <2>1. Somewhere(id)
      BY DEF SInv, Kept
    <2>2. PICK p \in Profiles : \E i \in DOMAIN list[p] : list[p][i].id = id
      BY <1>2, <1>4, <2>1 DEF Somewhere
    <2>3. QED
      BY <1>3, <1>4, <2>2
  <1>6. \A i \in 1..n : i \in 1..mprId
    BY <1>2, <1>3, <1>4 DEF SInv, IdsOK
  <1>7. n = mprId
    <2>1. n <= mprId
      <3>1. n = 0 \/ n \in 1..n
        BY <1>3
      <3>2. QED
        BY <1>1, <1>3, <1>6, <3>1
    <2>2. mprId <= n
      <3>1. mprId = 0 \/ mprId \in 1..mprId
        BY <1>1
      <3>2. mprId = 0 \/ mprId \in 1..n
        BY <1>5, <3>1
      <3>3. QED
        BY <1>1, <1>3, <3>2
    <2>3. QED
      BY <1>1, <1>3, <2>1, <2>2
  <1>8. \A i \in 1..n : list[master][i] \in Records /\ Matches(hist, list[master][i])
    BY <1>2, <1>3 DEF RecInv
  <1>9. QED
    BY <1>4, <1>7, <1>8 DEF n

\* The record linked next, and what the history says of it.
LEMMA LinkFacts ==
    ASSUME AllInv, LinkRecord, joined
    PROVE  /\ linked + 1 <= mprId /\ linked + 1 \in Ids /\ linked' = linked + 1
           /\ NextRecord \in Records /\ NextRecord.id = linked + 1
           /\ Matches(hist, NextRecord) /\ NextRecord.state = hist[linked + 1].state
           /\ NextRecord.mem = hist[linked + 1].mem
           /\ NextRecord.realloc = hist[linked + 1].realloc
           /\ HP!Replays(hist, linked + 1) /\ linked + 1 - 1 = linked
           /\ prevId[linked + 1] = 0 /\ nextId \in [Ids -> 0..mprId]
           /\ UNCHANGED <<hist, mprId, list, crashed, save, joined>>
           /\ save = "chains" /\ Links
  <1>1. /\ save = "chains" /\ ~crashed /\ linked < Len(list[master]) /\ linked' = linked + 1
        /\ UNCHANGED <<hist, mprId, list, crashed, save, joined>>
    BY DEF LinkRecord, Running, vars
  <1>2. /\ Len(list[master]) = mprId
        /\ \A i \in 1..mprId : /\ list[master][i] \in Records
                               /\ list[master][i].id = i
                               /\ Matches(hist, list[master][i])
    BY <1>1, MasterIsHistory DEF AllInv
  <1>3. linked \in Nat /\ mprId \in Nat /\ hist \in Seq(Entries) /\ Len(hist) = mprId
    BY DEF AllInv, SInv, HandlerOK, IInv, TypeOK, RecInv
  <1>4. linked + 1 <= mprId /\ linked + 1 \in 1..mprId /\ linked + 1 \in DOMAIN hist
        /\ linked + 1 - 1 = linked /\ ~(linked + 1 <= linked)
    BY <1>1, <1>2, <1>3
  <1>5. linked + 1 \in Ids
    BY <1>4, IdsBounded DEF AllInv
  <1>6. HP!Replays(hist, linked + 1)
    BY <1>4 DEF AllInv, LogInv, HP!ReplayInv
  <1>7. prevId[linked + 1] = 0 /\ nextId \in [Ids -> 0..mprId] /\ Links
    BY <1>4, <1>5 DEF AllInv, ChainInv, Links, SInv, IdsOK
  <1>8. QED
    BY <1>1, <1>2, <1>4, <1>5, <1>6, <1>7 DEF NextRecord, Matches

LEMMA ReplayAt ==
    ASSUME NEW h, NEW n \in Nat, HP!Replays(h, n + 1)
    PROVE  LET e == h[n + 1]
               last == HP!Loose(h, n)
           IN  /\ e.state = "ALLOC" => e.prev = 0 /\ \A i \in last : h[i].mem # e.mem
               /\ e.state = "FREE" /\ e.mem = NULL => e.prev = 0
               /\ e.state = "FREE" /\ e.mem # NULL => e.prev \in last /\ h[e.prev].mem = e.mem
               /\ e.state = "REALLOC" =>
                     /\ e.prev \in last /\ h[e.prev].mem = e.realloc
                     /\ \A i \in last \ {e.prev} : h[i].mem # e.mem
               /\ \A i, j \in last : h[i].mem = h[j].mem => i = j
  <1>1. n + 1 - 1 = n
    OBVIOUS
  <1>2. QED
    BY <1>1 DEF HP!Replays

\* The tree has one record of an address that the history says is open.
LEMMA LastIs ==
    ASSUME AllInv, LinkRecord, joined, NEW mem,
           hist[linked + 1].prev \in HP!Loose(hist, linked),
           hist[hist[linked + 1].prev].mem = mem
    PROVE  /\ Last(mem) # {}
           /\ \A last \in Last(mem) :
                 /\ last.id = hist[linked + 1].prev /\ LinksUnset(last, NextRecord)
                 /\ memtree \ {last} = {r \in memtree : r.id # hist[linked + 1].prev}
  <1> DEFINE p == hist[linked + 1].prev
  <1>1. /\ Links /\ HP!Replays(hist, linked + 1) /\ linked + 1 - 1 = linked
        /\ NextRecord.id = linked + 1 /\ prevId[linked + 1] = 0
    BY LinkFacts
  <1>2. \A i, j \in HP!Loose(hist, linked) : hist[i].mem = hist[j].mem => i = j
    <2>1. linked \in Nat
      BY DEF AllInv, SInv, HandlerOK
    <2>2. QED
      BY <1>1, <2>1, ReplayAt
  <1>3. ASSUME NEW r \in memtree
        PROVE  /\ r.id \in HP!Loose(hist, linked) /\ r.mem = hist[r.id].mem
               /\ r.mem = mem <=> r.id = p
    BY <1>1, <1>2 DEF Links, Matches
  <1>4. PICK r \in memtree : r.id = p
    BY <1>1 DEF Links
  <1>5. \A last \in Last(mem) : last \in memtree /\ last.id = p
    BY <1>3 DEF Last
  <1>6. nextId[p] = 0
    <2>1. \A j \in 1..linked : hist[j].prev # p
      BY DEF HP!Loose
    <2>2. p \in Ids
      <3>1. p \in 1..linked /\ linked \in Nat /\ mprId \in Nat /\ linked <= mprId
        BY <1>1 DEF HP!Loose, Links, AllInv, SInv, HandlerOK, IInv, TypeOK
      <3>2. p \in 1..mprId
        BY <3>1
      <3>3. QED
        BY <3>2, IdsBounded DEF AllInv
    <2> HIDE DEF p
    <2>3. QED
      BY <1>1, <2>1, <2>2 DEF Links
  <1>7. Last(mem) # {}
    BY <1>3, <1>4 DEF Last
  <1>8. ASSUME NEW last \in Last(mem)
        PROVE  memtree \ {last} = {s \in memtree : s.id # p}
    BY <1>1, <1>5 DEF Links
  <1>9. QED
    BY <1>1, <1>5, <1>6, <1>7, <1>8 DEF LinksUnset

LEMMA LinkAllocOK ==
    ASSUME AllInv, joined, LinkAlloc
    PROVE  ~aborted' /\ Links'
  <1> DEFINE e == hist[linked + 1]
  <1>0. LinkRecord /\ linked \in Nat
    BY DEF LinkAlloc, AllInv, SInv, HandlerOK
  <1>1. /\ linked + 1 <= mprId /\ linked' = linked + 1
        /\ NextRecord \in Records /\ NextRecord.id = linked + 1 /\ Matches(hist, NextRecord)
        /\ NextRecord.state = e.state /\ NextRecord.mem = e.mem
        /\ HP!Replays(hist, linked + 1) /\ UNCHANGED <<hist, mprId>> /\ Links
    BY <1>0, LinkFacts
  <1>2. /\ e.state = "ALLOC" /\ UNCHANGED <<nextId, prevId>>
        /\ memtree' = memtree \cup {NextRecord}
        /\ aborted' = (\E r \in memtree : r.mem = NextRecord.mem)
    BY <1>1 DEF LinkAlloc, TreeInsert
  <1>3. e.prev = 0 /\ \A i \in HP!Loose(hist, linked) : hist[i].mem # e.mem
    BY <1>0, <1>1, <1>2, ReplayAt
  <1>4. \A r \in memtree : r.id # 0 /\ r.mem # NextRecord.mem
    <2>1. \A r \in memtree : r.id \in HP!Loose(hist, linked) /\ r.mem = hist[r.id].mem
      BY <1>1 DEF Links, Matches
    <2>2. HP!Loose(hist, linked) \subseteq 1..linked
      BY DEF HP!Loose
    <2>3. QED
      BY <1>1, <1>3, <2>1, <2>2
  <1>5. memtree' = {r \in memtree : r.id # e.prev}
                      \cup (IF e.state # "FREE" THEN {NextRecord} ELSE {})
    BY <1>2, <1>3, <1>4
  <1>6. Links'
    BY <1>1, <1>2, <1>3, <1>5, LinksStep DEF AllInv
  <1>7. QED
    BY <1>2, <1>4, <1>6

LEMMA LinkFreeNullOK ==
    ASSUME AllInv, joined, LinkFreeNull
    PROVE  ~aborted' /\ Links'
  <1> DEFINE e == hist[linked + 1]
  <1>0. LinkRecord /\ linked \in Nat /\ ~aborted
    BY DEF LinkFreeNull, AllInv, SInv, HandlerOK, ChainInv
  <1>1. /\ linked + 1 <= mprId /\ linked' = linked + 1
        /\ NextRecord \in Records /\ NextRecord.id = linked + 1 /\ Matches(hist, NextRecord)
        /\ NextRecord.state = e.state /\ NextRecord.mem = e.mem
        /\ HP!Replays(hist, linked + 1) /\ UNCHANGED <<hist, mprId>> /\ Links
    BY <1>0, LinkFacts
  <1>2. /\ e.state = "FREE" /\ e.mem = NULL
        /\ UNCHANGED <<nextId, prevId, memtree, aborted>>
    BY <1>1 DEF LinkFreeNull
  <1>3. e.prev = 0
    BY <1>0, <1>1, <1>2, ReplayAt
  <1>4. \A r \in memtree : r.id # 0
    <2>1. \A r \in memtree : r.id \in HP!Loose(hist, linked)
      BY <1>1 DEF Links
    <2>2. HP!Loose(hist, linked) \subseteq 1..linked
      BY DEF HP!Loose
    <2>3. QED
      BY <2>1, <2>2
  <1>5. memtree' = {r \in memtree : r.id # e.prev}
                      \cup (IF e.state # "FREE" THEN {NextRecord} ELSE {})
    BY <1>2, <1>3, <1>4
  <1>6. Links'
    BY <1>1, <1>2, <1>3, <1>5, LinksStep DEF AllInv
  <1>7. QED
    BY <1>0, <1>2, <1>6

LEMMA LinkFreeOK ==
    ASSUME AllInv, joined, LinkFree
    PROVE  ~aborted' /\ Links'
  <1> DEFINE e == hist[linked + 1]
  <1>0. LinkRecord /\ linked \in Nat
    BY DEF LinkFree, AllInv, SInv, HandlerOK
  <1>1. /\ linked + 1 <= mprId /\ linked' = linked + 1
        /\ NextRecord \in Records /\ NextRecord.id = linked + 1 /\ Matches(hist, NextRecord)
        /\ NextRecord.state = e.state /\ NextRecord.mem = e.mem
        /\ HP!Replays(hist, linked + 1) /\ UNCHANGED <<hist, mprId>>
    BY <1>0, LinkFacts
  <1>2. PICK last \in Last(NextRecord.mem) :
          /\ Link(last, NextRecord)
          /\ memtree' = memtree \ {last}
          /\ aborted' = ~LinksUnset(last, NextRecord)
    BY DEF LinkFree
  <1>3. e.state = "FREE" /\ e.mem # NULL
    BY <1>1 DEF LinkFree
  <1>4. e.prev \in HP!Loose(hist, linked) /\ hist[e.prev].mem = NextRecord.mem
    BY <1>0, <1>1, <1>3, ReplayAt
  <1>5. /\ last.id = e.prev /\ LinksUnset(last, NextRecord)
        /\ memtree \ {last} = {r \in memtree : r.id # e.prev}
    BY <1>0, <1>2, <1>4, LastIs
  <1>6. /\ nextId' = [nextId EXCEPT ![e.prev] = linked + 1]
        /\ prevId' = [prevId EXCEPT ![linked + 1] = e.prev]
    BY <1>1, <1>2, <1>5 DEF Link
  <1>7. memtree' = {r \in memtree : r.id # e.prev}
                      \cup (IF e.state # "FREE" THEN {NextRecord} ELSE {})
    BY <1>2, <1>3, <1>5
  <1>8. Links
    BY DEF AllInv, ChainInv
  <1>9. Links'
    BY <1>1, <1>4, <1>6, <1>7, <1>8, LinksStep DEF AllInv
  <1>10. QED
    BY <1>2, <1>5, <1>9

LEMMA LinkReallocOK ==
    ASSUME AllInv, joined, LinkRealloc
    PROVE  ~aborted' /\ Links'
  <1> DEFINE e == hist[linked + 1]
  <1>0. LinkRecord /\ linked \in Nat /\ Links
    BY DEF LinkRealloc, AllInv, SInv, HandlerOK, ChainInv
  <1>1. /\ linked + 1 <= mprId /\ linked' = linked + 1
        /\ NextRecord \in Records /\ NextRecord.id = linked + 1 /\ Matches(hist, NextRecord)
        /\ NextRecord.state = e.state /\ NextRecord.mem = e.mem
        /\ NextRecord.realloc = e.realloc
        /\ HP!Replays(hist, linked + 1) /\ UNCHANGED <<hist, mprId>>
    BY <1>0, LinkFacts
  <1>2. e.state = "REALLOC"
    BY <1>1 DEF LinkRealloc
  <1>3. PICK last \in Last(NextRecord.realloc) :
          /\ Link(last, NextRecord)
          /\ LinksUnset(last, NextRecord) => TreeInsert(memtree \ {last}, NextRecord)
    BY DEF LinkRealloc
  <1>4. /\ e.prev \in HP!Loose(hist, linked) /\ hist[e.prev].mem = NextRecord.realloc
        /\ \A i \in HP!Loose(hist, linked) \ {e.prev} : hist[i].mem # e.mem
    BY <1>0, <1>1, <1>2, ReplayAt
  <1>5. /\ last.id = e.prev /\ LinksUnset(last, NextRecord)
        /\ memtree \ {last} = {r \in memtree : r.id # e.prev}
    BY <1>0, <1>3, <1>4, LastIs
  <1>6. /\ nextId' = [nextId EXCEPT ![e.prev] = linked + 1]
        /\ prevId' = [prevId EXCEPT ![linked + 1] = e.prev]
    BY <1>1, <1>3, <1>5 DEF Link
  <1>7. /\ memtree' = {r \in memtree : r.id # e.prev} \cup {NextRecord}
        /\ aborted' = (\E r \in memtree : r.id # e.prev /\ r.mem = NextRecord.mem)
    BY <1>3, <1>5 DEF TreeInsert
  <1>8. \A r \in memtree : r.id # e.prev => r.mem # NextRecord.mem
    <2>1. \A r \in memtree : r.id \in HP!Loose(hist, linked) /\ r.mem = hist[r.id].mem
      BY <1>0 DEF Links, Matches
    <2>2. QED
      BY <1>1, <1>4, <2>1
  <1>9. memtree' = {r \in memtree : r.id # e.prev}
                      \cup (IF e.state # "FREE" THEN {NextRecord} ELSE {})
    BY <1>2, <1>7
  <1>10. Links'
    BY <1>0, <1>1, <1>4, <1>6, <1>9, LinksStep DEF AllInv
  <1>11. QED
    BY <1>7, <1>8, <1>10

LEMMA NoLinkUnknown ==
    ASSUME AllInv, joined
    PROVE  ~LinkUnknown
  <1> SUFFICES ASSUME LinkUnknown PROVE FALSE
    OBVIOUS
  <1> DEFINE e == hist[linked + 1]
  <1>0. LinkRecord /\ linked \in Nat
    BY DEF LinkUnknown, AllInv, SInv, HandlerOK
  <1>1. /\ NextRecord.state = e.state /\ NextRecord.mem = e.mem
        /\ NextRecord.realloc = e.realloc /\ HP!Replays(hist, linked + 1)
    BY <1>0, LinkFacts
  <1>2. CASE e.state = "FREE" /\ e.mem # NULL /\ Last(e.mem) = {}
    <2>1. e.prev \in HP!Loose(hist, linked) /\ hist[e.prev].mem = e.mem
      BY <1>0, <1>1, <1>2, ReplayAt
    <2>2. QED
      BY <1>0, <1>2, <2>1, LastIs
  <1>3. CASE e.state = "REALLOC" /\ Last(e.realloc) = {}
    <2>1. e.prev \in HP!Loose(hist, linked) /\ hist[e.prev].mem = e.realloc
      BY <1>0, <1>1, <1>3, ReplayAt
    <2>2. QED
      BY <1>0, <1>3, <2>1, LastIs
  <1>4. QED
    BY <1>1, <1>2, <1>3 DEF LinkUnknown

LEMMA LinksFrame ==
    ASSUME Links, UNCHANGED <<linked, memtree, nextId, prevId, hist, mprId>>
    PROVE  Links'
  BY DEF Links, Matches

\* Until build_chains() starts, the history may grow.
LEMMA LinksAtStart ==
    ASSUME Links, linked = 0, UNCHANGED <<linked, memtree, nextId, prevId>>, mprId' \in Nat
    PROVE  Links'
  <1>1. HP!Loose(hist, linked) = {} /\ HP!Loose(hist', linked) = {}
    BY DEF HP!Loose
  <1>2. memtree = {} /\ \A i \in Ids : nextId[i] = 0
    BY <1>1 DEF Links
  <1>3. \A i \in Ids : prevId[i] = 0 /\ ~(i <= linked)
    BY DEF Links, Ids
  <1>4. linked' <= mprId' /\ 1..linked = {}
    OBVIOUS
  <1>5. QED
    BY <1>1, <1>2, <1>3, <1>4 DEF Links

LEMMA WorkChainInv ==
    ASSUME ChainSafe, AllInv, SInv', NEW t \in Threads, Work(t)
    PROVE  ChainInv'
  <1> SUFFICES ASSUME joined' PROVE ChainInv'
    BY DEF ChainInv
  <1>1. /\ joined /\ save = "run" /\ UNCHANGED saveVars /\ ~crashed
        /\ destroyed = {} /\ mprId' \in Nat
    BY DEF Work, saveVars, Running, AllInv, SInv, HandlerOK, IInv, TypeOK
  <1>2. crashed' = FALSE
    <2>1. CASE Call(t)
      BY <1>1, <2>1 DEF AllInv, SInv, IInv, TypeOK, ChainSafe, Call, CreateProfile,
         CreateProfileFails, MergeProfile, MallocTrace, MallocTraceFails, FreeTrace,
         FreeNullTrace, ReallocTrace, ReallocTraceFails
    <2>2. CASE TakeId(t) \/ RecordLost(t) \/ LibcRelease(t) \/ InsertTail(t)
      BY <1>1, <2>2 DEF AllInv, SInv, IInv, TypeOK, TakeId, RecordLost, LibcRelease, InsertTail
    <2>3. CASE UseAfterFree(t)
      BY <1>1, <2>3 DEF UseAfterFree
    <2>4. QED
      BY <2>1, <2>2, <2>3 DEF Work
  <1>3. ~aborted /\ linked = 0 /\ Links
    BY <1>1 DEF AllInv, ChainInv, BeforeChains
  <1>4. Links'
    BY <1>1, <1>3, LinksAtStart DEF saveVars, chains
  <1>5. QED
    BY <1>1, <1>2, <1>3, <1>4 DEF ChainInv, saveVars, chains

LEMMA CollectChainInv ==
    ASSUME AllInv, Exit \/ SaveTakeProfile \/ SaveTakeRecord \/ SaveDropProfile
                     \/ SaveProfilesDone \/ SaveSortRecord \/ SaveSortDone
    PROVE  ChainInv'
  <1> USE DEF merge, chains, ghosts
  <1> SUFFICES ASSUME joined' PROVE ChainInv'
    BY DEF ChainInv
  <1>0. /\ HandlerOK /\ Unique /\ IdsOK /\ list \in Seq(Seq(Records)) /\ Running
    BY DEF AllInv, SInv, IInv, TypeOK, Exit, SaveTakeProfile, SaveTakeRecord, SaveDropProfile,
           SaveProfilesDone, SaveSortRecord, SaveSortDone
  <1>1. joined
    BY <1>0 DEF Exit, SaveTakeProfile, SaveTakeRecord, SaveDropProfile,
           SaveProfilesDone, SaveSortRecord, SaveSortDone, HandlerOK
  <1>2. /\ ~aborted /\ ~crashed /\ Links
        /\ save = "profiles" /\ list # <<>> /\ master = 0 => walk # 0
        /\ save \in BeforeChains => linked = 0
    BY <1>0, <1>1 DEF AllInv, ChainInv, Running
  <1>3. UNCHANGED <<linked, memtree, nextId, prevId, hist, mprId>>
    BY DEF Exit, SaveTakeProfile, SaveTakeRecord, SaveDropProfile,
           SaveProfilesDone, SaveSortRecord, SaveSortDone, vars
  <1>4. Links'
    BY <1>2, <1>3, LinksFrame
  <1>5. CASE Exit
    <2>1. /\ walk' = FirstProfile /\ UNCHANGED <<list, aborted, crashed, master>>
          /\ save = "run" /\ save' = "profiles"
      BY <1>5 DEF Exit
    <2>2. list # <<>> => walk' # 0
      <3>1. ASSUME list # <<>> PROVE profiles # <<>> /\ Head(profiles) # 0
        <4>1. 1 \in Profiles
          BY <1>0, <3>1 DEF Profiles
        <4>2. Listed(1) /\ profiles \in Seq(Nat)
          BY <1>1, <2>1, <4>1 DEF AllInv, Collected, SInv, IInv, TypeOK
        <4>3. profiles # <<>> /\ 1 \in DOMAIN profiles /\ Head(profiles) = profiles[1]
          BY <4>2 DEF Listed
        <4>4. QED
          BY <1>0, <4>3 DEF HandlerOK, Profiles
      <3>2. QED
        BY <2>1, <3>1 DEF FirstProfile
    <2>3. QED
      BY <1>2, <1>3, <1>4, <2>1, <2>2 DEF ChainInv, BeforeChains
  <1>6. CASE SaveTakeProfile
    BY <1>2, <1>3, <1>4, <1>6 DEF SaveTakeProfile, ChainInv, BeforeChains
  <1>7. CASE SaveTakeRecord
    <2>1. /\ cur \in Profiles /\ list[cur] # <<>>
          /\ aborted' = (\E r \in sorter : r.id = Head(list[cur]).id)
      BY <1>0, <1>7 DEF SaveTakeRecord, HandlerOK, Profiles
    <2>2. 1 \in DOMAIN list[cur] /\ Head(list[cur]) = list[cur][1]
      BY <1>0, <2>1, TailAt DEF Profiles
    <2>3. ~aborted'
      BY <1>0, <2>1, <2>2 DEF Unique
    <2>4. QED
      BY <1>2, <1>3, <1>4, <1>7, <2>3 DEF SaveTakeRecord, ChainInv, BeforeChains
  <1>8. CASE SaveDropProfile
    BY <1>0, <1>2, <1>3, <1>4, <1>8 DEF SaveDropProfile, vars, ChainInv, BeforeChains, HandlerOK
  <1>9. CASE SaveProfilesDone
    BY <1>2, <1>3, <1>4, <1>9 DEF SaveProfilesDone, profileVars, ChainInv, BeforeChains
  <1>10. CASE SaveSortRecord
    BY <1>2, <1>3, <1>4, <1>10 DEF SaveSortRecord, ChainInv, BeforeChains
  <1>11. CASE SaveSortDone
    BY <1>2, <1>3, <1>4, <1>11 DEF SaveSortDone, vars, ChainInv, BeforeChains
  <1>12. QED
    BY <1>5, <1>6, <1>7, <1>8, <1>9, <1>10, <1>11

LEMMA LinkChainInv ==
    ASSUME AllInv, \/ LinkAlloc \/ LinkFreeNull \/ LinkFree \/ LinkRealloc \/ LinkUnknown
                   \/ LinkDone \/ ProfileSave
    PROVE  ChainInv'
  <1> USE DEF merge, chains
  <1> SUFFICES ASSUME joined' PROVE ChainInv'
    BY DEF ChainInv
  <1>1. joined
    BY DEF LinkAlloc, LinkFreeNull, LinkFree, LinkRealloc, LinkUnknown, LinkRecord, LinkDone,
           ProfileSave
  <1>2. CASE LinkAlloc \/ LinkFreeNull \/ LinkFree \/ LinkRealloc \/ LinkUnknown
    <2>1. ~aborted' /\ Links'
      BY <1>1, <1>2, LinkAllocOK, LinkFreeNullOK, LinkFreeOK, LinkReallocOK, NoLinkUnknown
    <2>2. LinkRecord
      BY <1>2 DEF LinkAlloc, LinkFreeNull, LinkFree, LinkRealloc, LinkUnknown
    <2>3. save = "chains" /\ save' = save /\ ~crashed /\ ~crashed'
      BY <2>2 DEF LinkRecord, Running, vars
    <2>4. QED
      BY <2>1, <2>3 DEF ChainInv, BeforeChains
  <1>3. CASE LinkDone
    <2>1. /\ save = "chains" /\ save' = "print" /\ ~crashed /\ linked = Len(list[master])
          /\ UNCHANGED <<linked, memtree, nextId, prevId, hist, mprId, list, crashed, aborted>>
      BY <1>3 DEF LinkDone, Running, vars
    <2>2. linked = mprId
      BY <1>1, <2>1, MasterIsHistory DEF AllInv
    <2>3. Links /\ ~aborted
      BY <1>1 DEF AllInv, ChainInv
    <2>4. Links'
      BY <2>1, <2>3, LinksFrame
    <2>5. QED
      BY <2>1, <2>2, <2>3, <2>4 DEF ChainInv, BeforeChains
  <1>4. CASE ProfileSave
    <2>1. /\ save = "print" /\ save' = "done" /\ ~crashed
          /\ UNCHANGED <<linked, memtree, nextId, prevId, hist, mprId, list, crashed, aborted>>
      BY <1>4 DEF ProfileSave, Running, vars
    <2>2. Links /\ ~aborted /\ (LinkChains => linked = mprId)
      BY <1>1, <2>1 DEF AllInv, ChainInv
    <2>3. Links'
      BY <2>1, <2>2, LinksFrame
    <2>4. QED
      BY <2>1, <2>2, <2>3 DEF ChainInv, BeforeChains
  <1>5. QED
    BY <1>2, <1>3, <1>4

LEMMA NextAllInv == ChainSafe /\ AllInv /\ [SaveNext]_allVars => AllInv'
  <1> SUFFICES ASSUME ChainSafe, AllInv, [SaveNext]_allVars PROVE AllInv'
    OBVIOUS
  <1>1. SInv' /\ Collected'
    BY NextSInv, NextCollected DEF AllInv
  <1>2. LogInv' /\ CallsInv' /\ RecInv'
    BY <1>1, NextLogInv, NextCallsInv, NextRecInv DEF AllInv
  <1>3. ChainInv'
    <2>1. CASE UNCHANGED allVars
      <3>1. /\ UNCHANGED <<linked, memtree, nextId, prevId, hist, mprId>>
            /\ UNCHANGED <<joined, list, crashed, aborted, save, master, walk>>
        BY <2>1 DEF allVars, vars, saveVars, merge, chains
      <3>2. Links => Links'
        BY <3>1, LinksFrame
      <3>3. QED
        BY <3>1, <3>2 DEF AllInv, ChainInv
    <2>2. CASE \E t \in Threads : Work(t)
      BY <1>1, <2>2, WorkChainInv
    <2>3. QED
      BY <2>1, <2>2, CollectChainInv, LinkChainInv DEF SaveNext, Save, Terminated
  <1>4. QED
    BY <1>1, <1>2, <1>3 DEF AllInv

LEMMA InitAllInv == SaveInit => AllInv
  <1> SUFFICES ASSUME SaveInit PROVE AllInv
    OBVIOUS
  <1>1. Init /\ SInv /\ LogInv
    BY InitSInv, InitLogInv DEF SaveInit
  <1>2. /\ list = <<>> /\ mprId = 0 /\ hist = <<>> /\ calls = 0
        /\ \A t \in Threads : pc[t] = "idle"
    BY <1>1 DEF Init
  <1>3. Collected
    BY <1>2 DEF SaveInit, Collected, Profiles
  <1>4. CallsInv
    <2>1. Pending = {}
      BY <1>2 DEF Pending
    <2>2. QED
      BY <1>2, <2>1, FS_EmptySet DEF CallsInv
  <1>5. RecInv
    BY <1>2 DEF SaveInit, RecInv, Profiles, Inserting
  <1>6. ChainInv
    <2>1. /\ linked = 0 /\ memtree = {} /\ save = "run" /\ ~aborted /\ list = <<>>
          /\ \A i \in Ids : nextId[i] = 0 /\ prevId[i] = 0 /\ ~(i <= 0)
      BY <1>2 DEF SaveInit, Ids
    <2>2. HP!Loose(hist, linked) = {} /\ 1..linked = {}
      BY <2>1 DEF HP!Loose
    <2>3. Links
      BY <1>2, <2>1, <2>2 DEF Links
    <2>4. QED
      BY <2>1, <2>3 DEF ChainInv
  <1>7. QED
    BY <1>1, <1>3, <1>4, <1>5, <1>6 DEF AllInv

(* With the exit handler in the system, and whether or not it waits for    *)
(* the threads, the log agrees with the heap, block by block and byte by   *)
(* byte.                                                                   *)
THEOREM SavedLogIsFaithful == SaveSpec => []LogMatchesHeap
  <1>1. CASE ChainSafe
    <2>1. SInv /\ LogInv /\ [SaveNext]_allVars => (SInv /\ LogInv)'
      BY <1>1, NextSInv, NextLogInv
    <2>2. SaveInit => SInv /\ LogInv
      BY InitSInv, InitLogInv DEF SaveInit
    <2>3. LogInv => LogMatchesHeap
      BY DEF LogInv, SafeInv
    <2>4. QED
      BY <2>1, <2>2, <2>3, PTL DEF SaveSpec
  <1>2. CASE ~ChainSafe
    <2>1. LogMatchesHeap
      BY <1>2 DEF LogMatchesHeap
    <2>2. QED
      BY <2>1, PTL
  <1>3. QED
    BY <1>1, <1>2

(* The log that the handler finds is the history of a heap: TraceSave      *)
(* implements AllocHistory, as Recorder does on its own.                   *)
THEOREM SaveImplementsHistory == ChainSafe => (SaveSpec => LogIsHistory)
  <1> SUFFICES ASSUME ChainSafe PROVE SaveSpec => LogIsHistory
    OBVIOUS
  <1>1. SaveInit => History!HistInit
    BY DEF SaveInit, Init, History!HistInit
  <1>2. SInv /\ LogInv /\ [SaveNext]_allVars => [History!HistNext]_(History!histVars)
    <2> SUFFICES ASSUME SInv, LogInv, [SaveNext]_allVars
                 PROVE  History!HistNext \/ UNCHANGED <<hist, open, bytes>>
      BY DEF History!histVars
    <2>1. ASSUME NEW t \in Threads, Work(t)
          PROVE  History!HistNext \/ UNCHANGED <<hist, open, bytes>>
      BY <2>1, WorkHistory, HistoryStep DEF SInv, LogInv
    <2>2. QED
      BY <2>1, WhoSteps
  <1>3. SInv /\ LogInv /\ [SaveNext]_allVars => (SInv /\ LogInv)'
    BY NextSInv, NextLogInv
  <1>4. SaveInit => SInv /\ LogInv
    BY InitSInv, InitLogInv DEF SaveInit
  <1>5. QED
    BY <1>1, <1>2, <1>3, <1>4, PTL DEF SaveSpec, LogIsHistory, History!HistSpec

(* build_chains() neither meets a record it cannot place nor sets a link   *)
(* twice: with joined threads and at least one call the handler ends       *)
(* without an abort and without a crash.                                   *)
THEOREM SavingSucceeds == SaveSpec => []SaveSucceeds
  <1>1. CASE ChainSafe
    <2>1. AllInv => SaveSucceeds
      BY DEF AllInv, ChainInv, SaveSucceeds
    <2>2. AllInv /\ [SaveNext]_allVars => AllInv'
      BY <1>1, NextAllInv
    <2>3. QED
      BY <2>1, <2>2, InitAllInv, PTL DEF SaveSpec
  <1>2. CASE ~ChainSafe
    <2>1. SaveSucceeds
      BY <1>2 DEF SaveSucceeds
    <2>2. QED
      BY <2>1, PTL
  <1>3. QED
    BY <1>1, <1>2

\* A record is loose when nothing is linked to it.
LEMMA LooseByLinks ==
    ASSUME AllInv, joined
    PROVE  {i \in 1..linked : hist[i].state # "FREE" /\ nextId[i] = 0} = HP!Loose(hist, linked)
  <1>1. /\ Links /\ 1..linked \subseteq Ids /\ linked \in Nat
        /\ HP!HInv /\ DOMAIN hist = 1..mprId /\ \A i \in 1..linked : i \in DOMAIN hist
    <2>1. Links /\ linked \in Nat /\ mprId \in Nat /\ linked <= mprId
          /\ HP!HInv /\ hist \in Seq(Entries) /\ Len(hist) = mprId
      BY DEF AllInv, ChainInv, Links, LogInv, SInv, HandlerOK, IInv, TypeOK, RecInv
    <2>2. 1..linked \subseteq 1..mprId /\ DOMAIN hist = 1..mprId
      BY <2>1
    <2>3. QED
      BY <2>1, <2>2, IdsBounded DEF AllInv
  <1>2. ASSUME NEW i \in 1..linked
        PROVE  nextId[i] = 0 <=> \A j \in 1..linked : hist[j].prev # i
    <2>1. i \in Ids /\ i # 0
      BY <1>1
    <2>2. ASSUME nextId[i] # 0 PROVE \E j \in 1..linked : hist[j].prev = i
      BY <1>1, <2>1, <2>2 DEF Links
    <2>3. ASSUME NEW j \in 1..linked, hist[j].prev = i PROVE nextId[i] # 0
      <3>1. nextId[i] = j /\ j # 0
        BY <1>1, <2>1, <2>3 DEF Links
      <3>2. QED
        BY <3>1
    <2>4. QED
      BY <2>2, <2>3
  <1>3. QED
    BY <1>2 DEF HP!Loose

(* While build_chains() goes through the records, its tree holds the last  *)
(* record of every open address, and the links it has set are those of the *)
(* history.                                                                *)
THEOREM ChainsAreTheHistory == SaveSpec => []ChainsFollowHistory
  <1>1. CASE ChainSafe
    <2>1. AllInv => ChainsFollowHistory
      <3> SUFFICES ASSUME AllInv, joined PROVE
              /\ \A i \in 1..linked : prevId[i] = hist[i].prev
              /\ \A i, j \in 1..linked : nextId[i] = j <=> prevId[j] = i
              /\ {r.id : r \in memtree}
                   = {i \in 1..linked : hist[i].state # "FREE" /\ nextId[i] = 0}
        BY DEF ChainsFollowHistory
      <3>1. Links /\ linked \in Nat /\ mprId \in Nat /\ linked <= mprId
        BY DEF AllInv, ChainInv, Links, SInv, HandlerOK, IInv, TypeOK
      <3>2. \A i \in 1..linked : i \in Ids /\ i # 0 /\ i <= linked
        <4>1. \A i \in 1..linked : i \in 1..mprId /\ i # 0 /\ i <= linked
          BY <3>1
        <4>2. QED
          BY <4>1, IdsBounded DEF AllInv
      <3>3. \A i \in 1..linked : prevId[i] = hist[i].prev
        BY <3>1, <3>2 DEF Links
      <3>4. \A i, j \in 1..linked : nextId[i] = j <=> hist[j].prev = i
        BY <3>1, <3>2 DEF Links
      <3>5. {r.id : r \in memtree} = HP!Loose(hist, linked)
        BY <3>1 DEF Links
      <3>6. QED
        BY <3>3, <3>4, <3>5, LooseByLinks
    <2>2. AllInv /\ [SaveNext]_allVars => AllInv'
      BY <1>1, NextAllInv
    <2>3. QED
      BY <2>1, <2>2, InitAllInv, PTL DEF SaveSpec
  <1>2. CASE ~ChainSafe
    <2>1. ChainsFollowHistory
      BY <1>2 DEF ChainsFollowHistory
    <2>2. QED
      BY <2>1, PTL
  <1>3. QED
    BY <1>1, <1>2

(* The leaks a reader finds in the file are the blocks the application     *)
(* still holds, one record for each.                                       *)
THEOREM LeaksAreTheHeld == SaveSpec => []LeaksAreHeld
  <1>1. CASE ChainSafe
    <2>1. AllInv => LeaksAreHeld
      <3> SUFFICES ASSUME AllInv, Saved, LinkChains, ChainSafe
                   PROVE  LET loose == {i \in 1..mprId : hist[i].state # "FREE" /\ nextId[i] = 0}
                          IN  /\ {hist[i].mem : i \in loose} = held
                              /\ Cardinality(loose) = Cardinality(held)
        BY DEF LeaksAreHeld
      <3> DEFINE loose == {i \in 1..mprId : hist[i].state # "FREE" /\ nextId[i] = 0}
      <3>1. /\ joined /\ linked = mprId /\ Len(hist) = mprId /\ mprId \in Nat
            /\ held \subseteq Addrs /\ \A t \in Threads : pc[t] = "idle"
            /\ HP!HInv /\ LogMatchesHeap
        BY DEF Saved, AllInv, ChainInv, RecInv, SInv, HandlerOK, IInv, TypeOK, LogInv, SafeInv
      <3>2. loose = HP!Loose(hist, Len(hist))
        BY <3>1, LooseByLinks
      <3>3. /\ \A i \in loose : hist[i].mem \in Addrs /\ open[hist[i].mem] = i
            /\ \A a \in Addrs : open[a] # 0 => open[a] \in loose /\ hist[open[a]].mem = a
        BY <3>1, <3>2, HP!LooseIsOpen, NullAssumption, SizesAssumption
        DEF HP!AddrAssumption, HP!SizeAssumption
      <3>4. \A a \in Addrs : open[a] # 0 <=> a \in held
        BY <1>1, <3>1 DEF LogMatchesHeap, Logged
      <3>5. loose \subseteq 1..mprId /\ \A i \in loose : i # 0
        OBVIOUS
      <3> HIDE DEF loose
      <3>6. IsFiniteSet(loose)
        <4>1. 0 \in Int /\ 1 \in Int /\ mprId \in Int
          BY <3>1
        <4>2. IsFiniteSet(1..mprId)
          BY <4>1, FS_Interval
        <4>3. QED
          BY <3>5, <4>2, FS_Subset
      <3>7. {hist[i].mem : i \in loose} = held
        <4>1. \A i \in loose : hist[i].mem \in held
          BY <3>3, <3>4, <3>5
        <4>2. \A a \in held : \E i \in loose : hist[i].mem = a
          <5> SUFFICES ASSUME NEW a \in held PROVE \E i \in loose : hist[i].mem = a
            OBVIOUS
          <5>1. open[a] \in loose /\ hist[open[a]].mem = a
            BY <3>1, <3>3, <3>4
          <5>2. QED
            BY <5>1
        <4>3. QED
          BY <4>1, <4>2
      <3>8. Cardinality(loose) = Cardinality(held)
        <4> DEFINE f == [i \in loose |-> hist[i].mem]
        <4>1. f \in [loose -> held]
          BY <3>7
        <4>2. \A i, j \in loose : f[i] = f[j] => i = j
          BY <3>3
        <4>3. \A a \in held : \E i \in loose : f[i] = a
          BY <3>1, <3>3, <3>4
        <4>4. f \in Bijection(loose, held)
          BY <4>1, <4>2, <4>3, Fun_IsBij
        <4>5. ExistsBijection(loose, held)
          BY <4>4, Fun_ExistsBij
        <4>6. QED
          BY <3>6, <4>5, FS_Bijection
      <3>9. QED
        BY <3>7, <3>8 DEF loose
    <2>2. AllInv /\ [SaveNext]_allVars => AllInv'
      BY <1>1, NextAllInv
    <2>3. QED
      BY <2>1, <2>2, InitAllInv, PTL DEF SaveSpec
  <1>2. CASE ~ChainSafe
    <2>1. LeaksAreHeld
      BY <1>2 DEF LeaksAreHeld
    <2>2. QED
      BY <2>1, PTL
  <1>3. QED
    BY <1>1, <1>2
==============================================================================
