------------------------- MODULE ProfileReportProofs -------------------------
(***************************************************************************)
(* Theorems about ProfileReport: whatever log a heap leaves behind, what   *)
(* mprofile.py computes from it is what the heap was.                      *)
(***************************************************************************)
EXTENDS ProfileReport, AllocHistoryProofs, SumTheorems

(***************************************************************************)
(* The invariant.  Every record belongs to the history of a block: start   *)
(* is the record the block began with, pos the number of the record in its *)
(* history, and size what the block has after it.                          *)
(***************************************************************************)
Traces(start, pos, size) ==
    \A i \in Records :
        IF log[i].prev = 0
        THEN start[i] = i /\ pos[i] = 1 /\ size[i] = log[i].delta
        ELSE /\ start[i] = start[log[i].prev]
             /\ pos[i] = pos[log[i].prev] + 1
             /\ size[i] = size[log[i].prev] + log[i].delta

Measures(size) == \A a \in Addrs : open[a] # 0 => size[open[a]] = bytes[a]

TraceInv ==
    \E start \in [Records -> Nat], pos \in [Records -> Nat], size \in [Records -> Int] :
        Traces(start, pos, size) /\ Measures(size)

\* A chain begins with an ALLOC; a closed address has no bytes.
ShapeInv ==
    /\ \A a \in Addrs : open[a] = 0 => bytes[a] = 0
    /\ \A i \in Records :
          /\ log[i].state = "ALLOC" => log[i].prev = 0 /\ log[i].mem \in Addrs
          /\ log[i].prev = 0 => log[i].state = "ALLOC" \/ log[i].mem = NULL

Deltas == [i \in Records |-> log[i].delta]

\* The deltas up to any record are the size of a heap.
SumInv ==
    /\ Sum(Deltas, Records) = Sum(bytes, Addrs)
    /\ \A n \in 0..Len(log) : Sum(Deltas, 1..n) >= 0

Started == {i \in Records : log[i].state = "ALLOC"}

\* A block that was started is open or was freed.
CountInv == Cardinality(Started) = Cardinality(OpenBlocks) + Cardinality(Freed)

RInv ==
    /\ HInv /\ linked \in BOOLEAN
    /\ TraceInv /\ ShapeInv /\ SumInv /\ CountInv

\* The histories grow with the log: the new record starts one, or adds its
\* delta to what the block it continues had before.
LEMMA TraceStep ==
    ASSUME HInv, TraceInv, NEW e \in Entries, log' = Append(log, e), NEW before \in Int,
           e.prev = 0 => before = 0,
           e.prev # 0 => \E b \in Addrs : open[b] = e.prev /\ bytes[b] = before,
           \A a \in Addrs : open'[a] # 0 =>
              \/ open'[a] = open[a] /\ bytes'[a] = bytes[a]
              \/ open'[a] = Id /\ bytes'[a] = before + e.delta
    PROVE  TraceInv'
  <1>1. PICK start \in [Records -> Nat], pos \in [Records -> Nat], size \in [Records -> Int] :
           Traces(start, pos, size) /\ Measures(size)
    BY DEF TraceInv
  <1>2. /\ Records = 1..Len(log) /\ Records' = 1..Id
        /\ Id \in Nat \ {0} /\ Id \notin Records /\ log'[Id] = e
        /\ \A i \in Records : i \in Records' /\ log'[i] = log[i]
        /\ \A i \in Records' : i = Id \/ i \in Records
    BY AppendLog DEF HInv, Records, Id
  <1>3. \A i \in Records : log[i].prev # 0 => log[i].prev \in Records
    BY <1>2 DEF HInv, HistType, ChainsLinear, Records
  <1>4. /\ \A b \in Addrs : open[b] # 0 => open[b] \in Records
        /\ e.prev \in Nat /\ e.delta \in Int
    BY DEF HInv, OpenInv, Records, Entries
  <1>5. e.prev # 0 => e.prev \in Records /\ size[e.prev] = before
    BY <1>1, <1>4 DEF Measures
  <1> HIDE DEF Records, Id
  <1> DEFINE start2 == [i \in Records' |-> IF i # Id THEN start[i]
                                           ELSE IF e.prev = 0 THEN Id ELSE start[e.prev]]
             pos2 == [i \in Records' |-> IF i # Id THEN pos[i]
                                         ELSE IF e.prev = 0 THEN 1 ELSE pos[e.prev] + 1]
             size2 == [i \in Records' |-> IF i # Id THEN size[i] ELSE before + e.delta]
  <1>6. /\ start2 \in [Records' -> Nat] /\ pos2 \in [Records' -> Nat]
        /\ size2 \in [Records' -> Int]
    <2>1. \A i \in Records' : i # Id =>
             start[i] \in Nat /\ pos[i] \in Nat /\ size[i] \in Int
      BY <1>2
    <2>2. e.prev # 0 => start[e.prev] \in Nat /\ pos[e.prev] + 1 \in Nat
      BY <1>5
    <2>3. Id \in Nat /\ before + e.delta \in Int
      BY <1>2, <1>4
    <2>4. start2 \in [Records' -> Nat]
      BY <2>1, <2>2, <2>3
    <2>5. pos2 \in [Records' -> Nat]
      BY <2>1, <2>2, <2>3
    <2>6. size2 \in [Records' -> Int]
      BY <2>1, <2>2, <2>3
    <2>7. QED
      BY <2>4, <2>5, <2>6
  <1>7. /\ start2[Id] = IF e.prev = 0 THEN Id ELSE start[e.prev]
        /\ pos2[Id] = IF e.prev = 0 THEN 1 ELSE pos[e.prev] + 1
        /\ size2[Id] = before + e.delta
        /\ \A i \in Records : start2[i] = start[i] /\ pos2[i] = pos[i] /\ size2[i] = size[i]
    <2>1. Id \in Records' /\ \A i \in Records : i \in Records' /\ i # Id
      BY <1>2
    <2>2. /\ start2[Id] = IF e.prev = 0 THEN Id ELSE start[e.prev]
          /\ \A i \in Records : start2[i] = start[i]
      BY <2>1
    <2>3. /\ pos2[Id] = IF e.prev = 0 THEN 1 ELSE pos[e.prev] + 1
          /\ \A i \in Records : pos2[i] = pos[i]
      BY <2>1
    <2>4. /\ size2[Id] = before + e.delta
          /\ \A i \in Records : size2[i] = size[i]
      BY <2>1
    <2>5. QED
      BY <2>2, <2>3, <2>4
  <1> HIDE DEF start2, pos2, size2
  <1>8. ASSUME NEW i \in Records'
        PROVE  IF log'[i].prev = 0
               THEN start2[i] = i /\ pos2[i] = 1 /\ size2[i] = log'[i].delta
               ELSE /\ start2[i] = start2[log'[i].prev]
                    /\ pos2[i] = pos2[log'[i].prev] + 1
                    /\ size2[i] = size2[log'[i].prev] + log'[i].delta
    <2>1. CASE i = Id
      BY <1>2, <1>4, <1>5, <1>7, <2>1
    <2>2. CASE i \in Records
      <3>1. log'[i] = log[i]
        BY <1>2, <2>2
      <3>2. CASE log[i].prev = 0
        BY <1>1, <1>7, <2>2, <3>1, <3>2 DEF Traces
      <3>3. CASE log[i].prev # 0
        BY <1>1, <1>3, <1>7, <2>2, <3>1, <3>3 DEF Traces
      <3>4. QED
        BY <3>2, <3>3
    <2>3. QED
      BY <1>2, <2>1, <2>2
  <1>9. ASSUME NEW a \in Addrs, open'[a] # 0 PROVE size2[open'[a]] = bytes'[a]
    <2>1. CASE open'[a] = open[a] /\ bytes'[a] = bytes[a]
      BY <1>1, <1>4, <1>7, <1>9, <2>1 DEF Measures
    <2>2. CASE open'[a] = Id /\ bytes'[a] = before + e.delta
      BY <1>7, <2>2
    <2>3. QED
      BY <1>9, <2>1, <2>2
  <1>10. QED
    BY <1>6, <1>8, <1>9 DEF TraceInv, Traces, Measures

\* A delta that is added to the log is added to the heap.
LEMMA SumStep ==
    ASSUME HistType, HistType', SumInv, NEW e \in Entries, log' = Append(log, e),
           Sum(bytes', Addrs) = Sum(bytes, Addrs) + e.delta
    PROVE  SumInv'
  <1>1. /\ Records = 1..Len(log) /\ Records' = 1..Id /\ Len(log') = Id
        /\ Id \in Nat \ {0} /\ Id = Len(log) + 1 /\ Id \notin Records /\ log'[Id] = e
        /\ \A i \in Records : i \in Records' /\ log'[i] = log[i] /\ log[i].delta \in Int
        /\ \A i \in Records' : i = Id \/ i \in Records
        /\ e.delta \in Int /\ Len(log) \in Nat
    <2>1. log \in Seq(Entries) /\ Len(log) \in Nat /\ Id = Len(log) + 1
      BY DEF HistType, Id
    <2>2. e.delta \in Int /\ \A i \in DOMAIN log : log[i].delta \in Int
      <3>1. \A i \in DOMAIN log : log[i] \in Entries
        BY <2>1
      <3>2. \A x \in Entries : x.delta \in Int
        BY DEF Entries
      <3>3. QED
        BY <3>1, <3>2
    <2>3. Len(log') = Id
      BY <2>1
    <2>4. QED
      BY <2>1, <2>2, <2>3, AppendLog DEF Records
  <1> HIDE DEF Records, Id
  <1>2. /\ \A i \in Records : Deltas'[i] = Deltas[i] /\ Deltas[i] \in Int
        /\ Deltas'[Id] = e.delta
    BY <1>1 DEF Deltas
  <1>3. ASSUME NEW n \in 0..Len(log) PROVE Sum(Deltas', 1..n) = Sum(Deltas, 1..n)
    <2>1. 1..n \subseteq Records /\ IsFiniteSet(1..n)
      BY <1>1, FS_Interval
    <2>2. QED
      BY <1>2, <2>1, SumSame
  <1>4. Sum(Deltas', 1..Id) = Sum(Deltas, Records) + e.delta
    <2>1. \A i \in 1..(Len(log) + 1) : Deltas'[i] \in Int
      <3>1. \A i \in Records' : Deltas'[i] \in Int
        BY <1>1, <1>2
      <3>2. Records' = 1..(Len(log) + 1)
        BY <1>1
      <3>3. QED
        BY <3>1, <3>2
    <2>2. Sum(Deltas', 1..(Len(log) + 1)) = Sum(Deltas', 1..Len(log)) + Deltas'[Len(log) + 1]
      <3>1. Len(log) \in Nat
        BY <1>1
      <3>2. QED
        BY <2>1, <3>1, SumOneMore
    <2>3. Sum(Deltas', 1..Len(log)) = Sum(Deltas, Records)
      BY <1>1, <1>3
    <2>4. QED
      BY <1>1, <1>2, <2>2, <2>3
  <1>5. Sum(Deltas', Records') = Sum(bytes', Addrs)
    BY <1>1, <1>4 DEF SumInv
  <1>6. ASSUME NEW n \in 0..Id PROVE Sum(Deltas', 1..n) >= 0
    <2>1. CASE n = Id
      <3>1. \A a \in Addrs : bytes'[a] \in Int /\ bytes'[a] >= 0
        BY DEF HistType
      <3>2. Sum(bytes', Addrs) >= 0
        BY <3>1, FiniteAssumption, SumType
      <3>3. QED
        BY <1>1, <1>5, <2>1, <3>2
    <2>2. CASE n \in 0..Len(log)
      BY <1>3, <2>2 DEF SumInv
    <2>3. QED
      BY <1>1, <2>1, <2>2
  <1>7. QED
    BY <1>1, <1>5, <1>6 DEF SumInv
\* What the new record is counted as.
LEMMA CountStep ==
    ASSUME HistType, NEW e \in Entries, log' = Append(log, e)
    PROVE  /\ IsFiniteSet(Started) /\ IsFiniteSet(Freed) /\ IsFiniteSet(OpenBlocks)
           /\ Id \notin Started /\ Id \notin Freed
           /\ Started' = IF e.state = "ALLOC" THEN Started \cup {Id} ELSE Started
           /\ Freed' = IF e.state = "FREE" /\ e.mem # NULL THEN Freed \cup {Id} ELSE Freed
  <1>1. /\ DOMAIN log = 1..Len(log) /\ DOMAIN log' = 1..Id
        /\ Id \notin DOMAIN log /\ log'[Id] = e
        /\ \A i \in DOMAIN log : i \in DOMAIN log' /\ log'[i] = log[i]
        /\ \A i \in DOMAIN log' : i = Id \/ i \in DOMAIN log
        /\ Id \in DOMAIN log'
    <2>1. Id \in Nat \ {0}
      BY DEF HistType, Id
    <2>2. QED
      BY <2>1, AppendLog
  <1>2. IsFiniteSet(DOMAIN log)
    <2>1. Len(log) \in Nat
      BY DEF HistType
    <2>2. IsFiniteSet(1..Len(log))
      BY <2>1, FS_Interval
    <2>3. QED
      BY <1>1, <2>2
  <1>3. IsFiniteSet(Started) /\ IsFiniteSet(Freed)
    <2>1. Started \subseteq DOMAIN log /\ Freed \subseteq DOMAIN log
      BY DEF Started, Freed, Records
    <2>2. QED
      BY <1>2, <2>1, FS_Subset
  <1>4. IsFiniteSet(OpenBlocks)
    BY FiniteAssumption, FS_Subset DEF OpenBlocks
  <1>5. Id \notin Started /\ Id \notin Freed
    BY <1>1 DEF Started, Freed, Records
  <1>6. Started' = IF e.state = "ALLOC" THEN Started \cup {Id} ELSE Started
    BY <1>1 DEF Started, Records
  <1>7. Freed' = IF e.state = "FREE" /\ e.mem # NULL THEN Freed \cup {Id} ELSE Freed
    BY <1>1 DEF Freed, Records
  <1>8. QED
    BY <1>3, <1>4, <1>5, <1>6, <1>7

LEMMA ShapeStep ==
    ASSUME HistType, ShapeInv, NEW e \in Entries, log' = Append(log, e),
           e.state = "ALLOC" => e.prev = 0 /\ e.mem \in Addrs,
           e.prev = 0 => e.state = "ALLOC" \/ e.mem = NULL,
           \A a \in Addrs : open'[a] = 0 => bytes'[a] = 0
    PROVE  ShapeInv'
  <1>1. /\ log'[Id] = e
        /\ \A i \in DOMAIN log : log'[i] = log[i]
        /\ \A i \in DOMAIN log' : i = Id \/ i \in DOMAIN log
    BY AppendLog
  <1>2. QED
    BY <1>1 DEF ShapeInv, Records

\* What the proofs about the actions need of the state before.
LEMMA Before ==
    ASSUME RInv
    PROVE  /\ HInv /\ HistType /\ TraceInv /\ ShapeInv /\ SumInv /\ CountInv
           /\ Id \in Nat \ {0} /\ IsFiniteSet(Addrs)
           /\ \A a \in Addrs : open[a] \in Nat /\ bytes[a] \in Nat /\ bytes[a] \in Int
           /\ \A a \in Addrs : open[a] = 0 => bytes[a] = 0
           /\ \A a, b \in Addrs : open[a] = open[b] /\ open[a] # 0 => a = b
           /\ \A a \in Addrs : open[a] # Id
           /\ open \in [Addrs -> Nat] /\ bytes \in [Addrs -> Nat]
           /\ DOMAIN log = 1..Len(log) /\ Len(log) \in Nat
  <1>1. HInv /\ HistType /\ TraceInv /\ ShapeInv /\ SumInv /\ CountInv
    BY DEF RInv, HInv
  <1>2. /\ open \in [Addrs -> Nat] /\ bytes \in [Addrs -> Nat]
        /\ DOMAIN log = 1..Len(log) /\ Len(log) \in Nat
        /\ Id = Len(log) + 1
    BY <1>1 DEF HistType, Id
  <1>3. \A a \in Addrs : open[a] # 0 => open[a] \in DOMAIN log /\ log[open[a]].mem = a
    BY <1>1 DEF HInv, OpenInv
  <1>4. \A a \in Addrs : open[a] # Id
    BY <1>2, <1>3
  <1>5. QED
    BY <1>1, <1>2, <1>3, <1>4, FiniteAssumption DEF ShapeInv

\* One address gets another size.
LEMMA HeapSum ==
    ASSUME NEW f, NEW g, NEW a \in Addrs, \A x \in Addrs : f[x] \in Int, g[a] \in Int,
           \A x \in Addrs : x # a => g[x] = f[x]
    PROVE  Sum(g, Addrs) = Sum(f, Addrs) + (g[a] - f[a])
  BY FiniteAssumption, SumChange

LEMMA AllocStep ==
    ASSUME RInv, HInv', NEW a \in Addrs, NEW sz \in Sizes, LogAlloc(a, sz)
    PROVE  TraceInv' /\ ShapeInv' /\ SumInv' /\ CountInv'
  <1> DEFINE e == Entry("ALLOC", a, NULL, sz, 0)
  <1>1. /\ open[a] = 0 /\ bytes[a] = 0 /\ sz \in Int /\ a # NULL
        /\ log' = Append(log, e) /\ e \in Entries
        /\ open' = [open EXCEPT ![a] = Id] /\ bytes' = [bytes EXCEPT ![a] = sz]
    BY Before, AddrAssumption, SizeAssumption DEF LogAlloc, Entry, Entries
  <1>2. /\ e.state = "ALLOC" /\ e.mem = a /\ e.delta = sz /\ e.prev = 0
    BY DEF Entry
  <1> HIDE DEF e
  <1>3. /\ open'[a] = Id /\ bytes'[a] = sz
        /\ \A b \in Addrs \ {a} : open'[b] = open[b] /\ bytes'[b] = bytes[b]
    BY <1>1, Before
  <1>4. TraceInv'
    <2>1. \A b \in Addrs : open'[b] # 0 =>
             \/ open'[b] = open[b] /\ bytes'[b] = bytes[b]
             \/ open'[b] = Id /\ bytes'[b] = 0 + e.delta
      BY <1>1, <1>2, <1>3
    <2>2. QED
      BY <1>1, <1>2, <2>1, Before, TraceStep
  <1>5. ShapeInv'
    <2>1. \A b \in Addrs : open'[b] = 0 => bytes'[b] = 0
      BY <1>3, Before
    <2>2. QED
      BY <1>1, <1>2, <2>1, Before, ShapeStep
  <1>6. SumInv'
    <2>1. Sum(bytes', Addrs) = Sum(bytes, Addrs) + (bytes'[a] - bytes[a])
      <3>1. /\ IsFiniteSet(Addrs) /\ bytes'[a] \in Int
            /\ \A x \in Addrs : bytes[x] \in Int
            /\ \A x \in Addrs : x # a => bytes'[x] = bytes[x]
        BY <1>1, <1>3, Before
      <3>2. QED
        BY <3>1, HeapSum
    <2>2. Sum(bytes', Addrs) = Sum(bytes, Addrs) + e.delta
      BY <1>1, <1>2, <1>3, <2>1
    <2>3. QED
      BY <1>1, <2>2, Before, SumStep DEF HInv
  <1>7. CountInv'
    <2>1. /\ Started' = Started \cup {Id} /\ Freed' = Freed
          /\ Id \notin Started /\ IsFiniteSet(Started)
          /\ IsFiniteSet(OpenBlocks) /\ IsFiniteSet(Freed)
      BY <1>1, <1>2, Before, CountStep
    <2>2. OpenBlocks' = OpenBlocks \cup {a} /\ a \notin OpenBlocks
      BY <1>1, <1>3, Before DEF OpenBlocks
    <2>3. /\ Cardinality(Started') = Cardinality(Started) + 1
          /\ Cardinality(OpenBlocks') = Cardinality(OpenBlocks) + 1
          /\ Cardinality(Freed) \in Nat /\ Cardinality(OpenBlocks) \in Nat
      BY <2>1, <2>2, FS_AddElement, FS_CardinalityType
    <2>4. QED
      BY <2>1, <2>3, Before DEF CountInv
  <1>8. QED
    BY <1>4, <1>5, <1>6, <1>7

LEMMA FreeStep ==
    ASSUME RInv, HInv', NEW a \in Addrs, LogFree(a)
    PROVE  TraceInv' /\ ShapeInv' /\ SumInv' /\ CountInv'
  <1> DEFINE e == Entry("FREE", a, NULL, -bytes[a], open[a])
  <1>1. /\ open[a] # 0 /\ a # NULL /\ bytes[a] \in Int
        /\ log' = Append(log, e) /\ e \in Entries
        /\ open' = [open EXCEPT ![a] = 0] /\ bytes' = [bytes EXCEPT ![a] = 0]
    BY Before, AddrAssumption DEF LogFree, Entry, Entries
  <1>2. /\ e.state = "FREE" /\ e.mem = a /\ e.delta = -bytes[a] /\ e.prev = open[a]
    BY DEF Entry
  <1> HIDE DEF e
  <1>3. /\ open'[a] = 0 /\ bytes'[a] = 0
        /\ \A b \in Addrs \ {a} : open'[b] = open[b] /\ bytes'[b] = bytes[b]
    BY <1>1, Before
  <1>4. TraceInv'
    <2>1. \A b \in Addrs : open'[b] # 0 => open'[b] = open[b] /\ bytes'[b] = bytes[b]
      BY <1>3
    <2>2. QED
      BY <1>1, <1>2, <2>1, Before, TraceStep
  <1>5. ShapeInv'
    <2>1. \A b \in Addrs : open'[b] = 0 => bytes'[b] = 0
      BY <1>3, Before
    <2>2. QED
      BY <1>1, <1>2, <2>1, Before, ShapeStep
  <1>6. SumInv'
    <2>1. Sum(bytes', Addrs) = Sum(bytes, Addrs) + (bytes'[a] - bytes[a])
      <3>1. /\ IsFiniteSet(Addrs) /\ bytes'[a] \in Int
            /\ \A x \in Addrs : bytes[x] \in Int
            /\ \A x \in Addrs : x # a => bytes'[x] = bytes[x]
        BY <1>1, <1>3, Before
      <3>2. QED
        BY <3>1, HeapSum
    <2>2. Sum(bytes', Addrs) = Sum(bytes, Addrs) + e.delta
      BY <1>1, <1>2, <1>3, <2>1
    <2>3. QED
      BY <1>1, <2>2, Before, SumStep DEF HInv
  <1>7. CountInv'
    <2>1. /\ Started' = Started /\ Freed' = Freed \cup {Id}
          /\ Id \notin Freed /\ IsFiniteSet(OpenBlocks) /\ IsFiniteSet(Freed)
      BY <1>1, <1>2, Before, CountStep
    <2>2. OpenBlocks' = OpenBlocks \ {a} /\ a \in OpenBlocks
      BY <1>1, <1>3, Before DEF OpenBlocks
    <2>3. /\ Cardinality(Freed') = Cardinality(Freed) + 1
          /\ Cardinality(OpenBlocks') = Cardinality(OpenBlocks) - 1
          /\ Cardinality(Freed) \in Nat /\ Cardinality(OpenBlocks) \in Nat
      BY <2>1, <2>2, FS_AddElement, FS_RemoveElement, FS_CardinalityType
    <2>4. QED
      BY <2>1, <2>3, Before DEF CountInv
  <1>8. QED
    BY <1>4, <1>5, <1>6, <1>7

LEMMA FreeNullStep ==
    ASSUME RInv, HInv', LogFreeNull
    PROVE  TraceInv' /\ ShapeInv' /\ SumInv' /\ CountInv'
  <1> DEFINE e == Entry("FREE", NULL, NULL, 0, 0)
  <1>1. /\ log' = Append(log, e) /\ e \in Entries /\ UNCHANGED <<open, bytes>>
    BY DEF LogFreeNull, Entry, Entries
  <1>2. /\ e.state = "FREE" /\ e.mem = NULL /\ e.delta = 0 /\ e.prev = 0
    BY DEF Entry
  <1> HIDE DEF e
  <1>3. TraceInv'
    BY <1>1, <1>2, Before, TraceStep
  <1>4. ShapeInv'
    BY <1>1, <1>2, Before, ShapeStep
  <1>5. SumInv'
    <2>1. Sum(bytes, Addrs) \in Int
      BY Before, SumType
    <2>2. Sum(bytes', Addrs) = Sum(bytes, Addrs) + e.delta
      BY <1>1, <1>2, <2>1
    <2>3. QED
      BY <1>1, <2>2, Before, SumStep DEF HInv
  <1>6. CountInv'
    <2>1. Started' = Started /\ Freed' = Freed
      BY <1>1, <1>2, Before, CountStep
    <2>2. QED
      BY <1>1, <2>1, Before DEF CountInv, OpenBlocks
  <1>7. QED
    BY <1>3, <1>4, <1>5, <1>6

LEMMA ReallocStep ==
    ASSUME RInv, HInv', NEW old \in Addrs, NEW new \in Addrs, NEW sz \in Sizes,
           LogRealloc(old, new, sz)
    PROVE  TraceInv' /\ ShapeInv' /\ SumInv' /\ CountInv'
  <1> DEFINE e == Entry("REALLOC", new, old, sz - bytes[old], open[old])
             moved == [bytes EXCEPT ![old] = 0]
  <1>1. /\ open[old] # 0 /\ (new # old => open[new] = 0)
        /\ new # NULL /\ bytes[old] \in Int /\ sz \in Int
        /\ log' = Append(log, e) /\ e \in Entries
        /\ open' = [[open EXCEPT ![old] = 0] EXCEPT ![new] = Id]
        /\ bytes' = [moved EXCEPT ![new] = sz]
    BY Before, AddrAssumption, SizeAssumption DEF LogRealloc, Entry, Entries
  <1>2. /\ e.state = "REALLOC" /\ e.mem = new
        /\ e.delta = sz - bytes[old] /\ e.prev = open[old]
    BY DEF Entry
  <1> HIDE DEF e
  <1>3. /\ open'[new] = Id /\ bytes'[new] = sz
        /\ old # new => open'[old] = 0 /\ bytes'[old] = 0
        /\ \A b \in Addrs \ {old, new} : open'[b] = open[b] /\ bytes'[b] = bytes[b]
    BY <1>1, Before
  <1>4. TraceInv'
    <2>1. \A b \in Addrs : open'[b] # 0 =>
             \/ open'[b] = open[b] /\ bytes'[b] = bytes[b]
             \/ open'[b] = Id /\ bytes'[b] = bytes[old] + e.delta
      <3>1. bytes[old] + e.delta = sz
        BY <1>1, <1>2
      <3>2. QED
        BY <1>3, <3>1
    <2>2. QED
      BY <1>1, <1>2, <2>1, Before, TraceStep
  <1>5. ShapeInv'
    <2>1. \A b \in Addrs : open'[b] = 0 => bytes'[b] = 0
      BY <1>3, Before
    <2>2. QED
      BY <1>1, <1>2, <2>1, Before, ShapeStep
  <1>6. SumInv'
    <2>1. /\ \A b \in Addrs : moved[b] \in Int
          /\ moved[old] = 0 /\ moved[new] = 0
          /\ \A b \in Addrs : b # old => moved[b] = bytes[b]
          /\ \A b \in Addrs : b # new => bytes'[b] = moved[b]
      BY <1>1, Before
    <2> HIDE DEF moved
    <2>2. Sum(moved, Addrs) = Sum(bytes, Addrs) + (moved[old] - bytes[old])
      <3>1. /\ IsFiniteSet(Addrs) /\ moved[old] \in Int
            /\ \A x \in Addrs : bytes[x] \in Int
            /\ \A x \in Addrs : x # old => moved[x] = bytes[x]
        BY <2>1, Before
      <3>2. QED
        BY <3>1, HeapSum
    <2>3. Sum(bytes', Addrs) = Sum(moved, Addrs) + (bytes'[new] - moved[new])
      <3>1. /\ IsFiniteSet(Addrs) /\ bytes'[new] \in Int
            /\ \A x \in Addrs : moved[x] \in Int
            /\ \A x \in Addrs : x # new => bytes'[x] = moved[x]
        BY <1>1, <1>3, <2>1, Before
      <3>2. QED
        BY <3>1, HeapSum
    <2>4. Sum(bytes, Addrs) \in Int
      BY Before, SumType
    <2>5. Sum(bytes', Addrs) = Sum(bytes, Addrs) + e.delta
      BY <1>1, <1>2, <1>3, <2>1, <2>2, <2>3, <2>4
    <2>6. QED
      BY <1>1, <2>5, Before, SumStep DEF HInv
  <1>7. CountInv'
    <2>1. /\ Started' = Started /\ Freed' = Freed /\ IsFiniteSet(OpenBlocks)
      BY <1>1, <1>2, Before, CountStep
    <2>2. /\ OpenBlocks' = (OpenBlocks \ {old}) \cup {new}
          /\ old \in OpenBlocks /\ new \notin OpenBlocks \ {old}
      BY <1>1, <1>3, Before DEF OpenBlocks
    <2>3. /\ IsFiniteSet(OpenBlocks \ {old})
          /\ Cardinality(OpenBlocks \ {old}) = Cardinality(OpenBlocks) - 1
          /\ Cardinality(OpenBlocks) \in Nat
      BY <2>1, <2>2, FS_RemoveElement, FS_CardinalityType
    <2>4. Cardinality(OpenBlocks') = Cardinality(OpenBlocks \ {old}) + 1
      BY <2>2, <2>3, FS_AddElement
    <2>5. QED
      BY <2>1, <2>3, <2>4, Before DEF CountInv
  <1>8. QED
    BY <1>4, <1>5, <1>6, <1>7
LEMMA InitRInv == ReportInit => RInv
  <1> SUFFICES ASSUME ReportInit PROVE RInv
    OBVIOUS
  <1>1. /\ HistInit /\ linked \in BOOLEAN /\ log = <<>> /\ Records = {} /\ Len(log) = 0
        /\ \A a \in Addrs : open[a] = 0 /\ bytes[a] = 0
    BY DEF ReportInit, HistInit, Records
  <1>2. HInv
    BY <1>1, InitHInv
  <1>3. TraceInv
    <2> DEFINE none == [i \in Records |-> 0]
    <2>1. none \in [Records -> Nat] /\ none \in [Records -> Int]
      OBVIOUS
    <2>2. Traces(none, none, none) /\ Measures(none)
      BY <1>1 DEF Traces, Measures
    <2> HIDE DEF none
    <2>3. QED
      BY <2>1, <2>2 DEF TraceInv
  <1>4. ShapeInv
    BY <1>1 DEF ShapeInv
  <1>5. SumInv
    <2>1. Sum(Deltas, {}) = 0
      BY SumEmpty
    <2>2. Sum(bytes, Addrs) = 0
      BY <1>1, FiniteAssumption, SumZero
    <2>3. \A n \in 0..Len(log) : 1..n = {}
      BY <1>1
    <2>4. QED
      BY <1>1, <2>1, <2>2, <2>3 DEF SumInv
  <1>6. CountInv
    <2>1. Started = {} /\ OpenBlocks = {} /\ Freed = {}
      BY <1>1 DEF Started, OpenBlocks, Freed
    <2>2. QED
      BY <2>1, FS_EmptySet DEF CountInv
  <1>7. QED
    BY <1>1, <1>2, <1>3, <1>4, <1>5, <1>6 DEF RInv

LEMMA NextRInv == RInv /\ [ReportNext]_reportVars => RInv'
  <1> SUFFICES ASSUME RInv, [ReportNext]_reportVars PROVE RInv'
    OBVIOUS
  <1>1. CASE ReportNext
    <2>1. HInv' /\ linked' \in BOOLEAN
      BY <1>1, NextHInv DEF RInv, ReportNext
    <2>2. TraceInv' /\ ShapeInv' /\ SumInv' /\ CountInv'
      BY <1>1, <2>1, AllocStep, FreeStep, FreeNullStep, ReallocStep DEF ReportNext, HistNext
    <2>3. QED
      BY <2>1, <2>2 DEF RInv
  <1>2. CASE UNCHANGED reportVars
    <2>1. HInv' /\ linked' = linked
      BY <1>2, NextHInv DEF RInv, reportVars, histVars
    <2>2. UNCHANGED <<log, open, bytes>>
      BY <1>2 DEF reportVars, histVars
    <2>3. TraceInv' /\ ShapeInv'
      BY <2>2 DEF RInv, TraceInv, Traces, Measures, ShapeInv, Records
    <2>4. SumInv' /\ CountInv'
      BY <2>2 DEF RInv, SumInv, CountInv, Deltas, Records, Started, Freed, OpenBlocks
    <2>5. QED
      BY <2>1, <2>3, <2>4 DEF RInv
  <1>3. QED
    BY <1>1, <1>2

LEMMA RInvHolds == ReportSpec => []RInv
  BY InitRInv, NextRInv, PTL DEF ReportSpec

-----------------------------------------------------------------------------
(* The next-ids lead forward, along the blocks.                            *)

LEMMA NextFacts ==
    ASSUME HInv
    PROVE  /\ Records = 1..Len(log) /\ Len(log) \in Nat
           /\ \A i \in Records :
                 /\ GetNext(i) \in 0..Len(log)
                 /\ GetNext(i) = 0 \/ GetNext(i) > i
                 /\ GetNext(i) # 0 =>
                       /\ linked /\ GetNext(i) \in Records
                       /\ log[GetNext(i)].prev = i
                 /\ GetNext(i) = 0 => ~linked \/ ~Continued(i)
           /\ \A i, j \in Records : linked /\ log[j].prev = i => GetNext(i) = j
  <1>1. Records = 1..Len(log) /\ Len(log) \in Nat
    BY DEF HInv, HistType, Records
  <1>2. ASSUME NEW i \in Records, linked, Continued(i)
        PROVE  /\ GetNext(i) \in Records /\ log[GetNext(i)].prev = i
               /\ GetNext(i) > i
    <2>1. \E j \in Records : log[j].prev = i
      BY <1>2 DEF Continued, Records
    <2>2. GetNext(i) \in Records /\ log[GetNext(i)].prev = i
      BY <1>2, <2>1 DEF GetNext
    <2>3. i \in 1..(GetNext(i) - 1)
      <3>1. i # 0
        BY <1>1
      <3>2. QED
        BY <2>2, <3>1 DEF HInv, ChainsLinear, Records
    <2>4. QED
      BY <1>1, <2>2, <2>3
  <1>3. ASSUME NEW i \in Records, ~(linked /\ Continued(i))
        PROVE  GetNext(i) = 0
    BY <1>3 DEF GetNext
  <1>4. ASSUME NEW i \in Records, NEW j \in Records, linked, log[j].prev = i
        PROVE  GetNext(i) = j
    <2>1. Continued(i)
      BY <1>4 DEF Continued, Records
    <2>2. GetNext(i) \in Records /\ log[GetNext(i)].prev = i /\ i # 0
      BY <1>1, <1>2, <1>4, <2>1
    <2>3. QED
      BY <1>4, <2>2 DEF HInv, ChainsLinear, Records
  <1>5. ASSUME NEW i \in Records
        PROVE  /\ GetNext(i) \in 0..Len(log)
               /\ GetNext(i) = 0 \/ GetNext(i) > i
               /\ GetNext(i) # 0 =>
                     linked /\ GetNext(i) \in Records /\ log[GetNext(i)].prev = i
               /\ GetNext(i) = 0 => ~linked \/ ~Continued(i)
    <2>1. CASE linked /\ Continued(i)
      <3>1. GetNext(i) # 0
        BY <1>1, <1>2, <2>1
      <3>2. QED
        BY <1>1, <1>2, <2>1, <3>1
    <2>2. CASE ~(linked /\ Continued(i))
      BY <1>1, <1>3, <2>2
    <2>3. QED
      BY <2>1, <2>2
  <1>6. QED
    BY <1>1, <1>4, <1>5

LEMMA DeltasAreInt == HInv => \A i \in Records : log[i].delta \in Int
  <1>1. HInv => \A i \in Records : log[i] \in Entries
    BY DEF HInv, HistType, Records
  <1>2. \A x \in Entries : x.delta \in Int
    BY DEF Entries
  <1>3. QED
    BY <1>1, <1>2

\* The loop of is_leak().
LEMMA LastOfIsLoop ==
    ASSUME HInv
    PROVE  \A i \in Records :
              LastOf[i] = IF GetNext(i) = 0 THEN i ELSE LastOf[GetNext(i)]
  <1> DEFINE n == Len(log)
             next == [i \in 1..n |-> GetNext(i)]
             end == [i \in 1..n |-> i]
             step == [x \in (1..n) \X Nat |-> x[2]]
  <1>1. /\ n \in Nat /\ Records = 1..n /\ next \in [1..n -> 0..n]
        /\ \A i \in 1..n : next[i] = 0 \/ next[i] > i
        /\ end \in [1..n -> Nat] /\ step \in [(1..n) \X Nat -> Nat]
    BY NextFacts
  <1> HIDE DEF n
  <1>2. PICK f \in [1..n -> Nat] : Follows(f, n, next, end, step)
    <2> HIDE DEF next, end, step
    <2>1. n \in Nat /\ next \in [1..n -> 0..n] /\ \A i \in 1..n : next[i] = 0 \/ next[i] > i
      BY <1>1
    <2>2. end \in [1..n -> Nat] /\ step \in [(1..n) \X Nat -> Nat]
      BY <1>1
    <2>3. QED
      BY <2>1, <2>2, DownRecursion
  <1>3. f = [i \in Records |-> IF GetNext(i) = 0 THEN i ELSE f[GetNext(i)]]
    <2>1. ASSUME NEW i \in 1..n, next[i] # 0
          PROVE  step[<<i, f[next[i]]>>] = f[GetNext(i)]
      <3>1. next[i] \in 1..n /\ next[i] = GetNext(i)
        BY <1>1, <2>1
      <3>2. f[next[i]] \in Nat
        BY <3>1
      <3>3. QED
        BY <3>1, <3>2
    <2>2. \A i \in 1..n : f[i] = IF GetNext(i) = 0 THEN i ELSE f[GetNext(i)]
      BY <1>2, <2>1 DEF Follows
    <2>3. QED
      BY <1>1, <2>2
  <1>4. LastOf = [i \in Records |-> IF GetNext(i) = 0 THEN i ELSE LastOf[GetNext(i)]]
    BY <1>3 DEF LastOf
  <1>5. QED
    BY <1>4
\* The loop of get_leak_sz().
LEMMA GetLeakSzIsLoop ==
    ASSUME HInv
    PROVE  \A i \in Records :
              GetLeakSz[i] = log[i].delta
                             + (IF GetNext(i) = 0 THEN 0 ELSE GetLeakSz[GetNext(i)])
  <1> DEFINE n == Len(log)
             next == [i \in 1..n |-> GetNext(i)]
             end == [i \in 1..n |-> log[i].delta]
             step == [x \in (1..n) \X Int |-> log[x[1]].delta + x[2]]
  <1>1. /\ n \in Nat /\ Records = 1..n /\ next \in [1..n -> 0..n]
        /\ \A i \in 1..n : next[i] = 0 \/ next[i] > i
    BY NextFacts
  <1>2. \A i \in 1..n : log[i].delta \in Int
    BY DeltasAreInt, <1>1
  <1> HIDE DEF n
  <1>3. end \in [1..n -> Int] /\ step \in [(1..n) \X Int -> Int]
    BY <1>2
  <1>4. PICK f \in [1..n -> Int] : Follows(f, n, next, end, step)
    <2> HIDE DEF next, end, step
    <2>1. n \in Nat /\ next \in [1..n -> 0..n] /\ \A i \in 1..n : next[i] = 0 \/ next[i] > i
      BY <1>1
    <2>2. end \in [1..n -> Int] /\ step \in [(1..n) \X Int -> Int]
      BY <1>3
    <2>3. QED
      BY <2>1, <2>2, DownRecursion
  <1>5. ASSUME NEW i \in 1..n
        PROVE  f[i] = log[i].delta + (IF GetNext(i) = 0 THEN 0 ELSE f[GetNext(i)])
    <2>1. f[i] = IF next[i] = 0 THEN end[i] ELSE step[<<i, f[next[i]]>>]
      BY <1>4 DEF Follows
    <2>2. CASE next[i] = 0
      BY <1>2, <2>1, <2>2
    <2>3. CASE next[i] # 0
      <3>1. next[i] \in 1..n /\ next[i] = GetNext(i)
        BY <1>1, <2>3
      <3>2. f[next[i]] \in Int
        BY <3>1
      <3>3. step[<<i, f[next[i]]>>] = log[i].delta + f[next[i]]
        BY <3>2
      <3>4. QED
        BY <2>1, <2>3, <3>1, <3>3
    <2>4. QED
      BY <2>2, <2>3
  <1>6. f = [i \in Records |->
               log[i].delta + (IF GetNext(i) = 0 THEN 0 ELSE f[GetNext(i)])]
    BY <1>1, <1>5
  <1>7. GetLeakSz = [i \in Records |->
               log[i].delta + (IF GetNext(i) = 0 THEN 0 ELSE GetLeakSz[GetNext(i)])]
    BY <1>6 DEF GetLeakSz
  <1>8. QED
    BY <1>7

(* Where the loops end.                                                    *)
LEMMA LastFacts ==
    ASSUME HInv, NEW start \in [Records -> Nat], NEW pos \in [Records -> Nat],
           NEW size \in [Records -> Int], Traces(start, pos, size), NEW i \in Records
    PROVE  /\ LastOf[i] \in Records /\ GetNext(LastOf[i]) = 0
           /\ start[LastOf[i]] = start[i]
           /\ GetLeakSz[i] = size[LastOf[i]] - size[i] + log[i].delta
  <1> DEFINE n == Len(log)
             Good(k) == /\ LastOf[k] \in Records /\ GetNext(LastOf[k]) = 0
                        /\ start[LastOf[k]] = start[k]
                        /\ GetLeakSz[k] = size[LastOf[k]] - size[k] + log[k].delta
             T == {k \in 1..n : Good(k)}
  <1>1. n \in Nat /\ Records = 1..n
    BY NextFacts
  <1>2. ASSUME NEW k \in 1..n, (k + 1)..n \subseteq T PROVE k \in T
    <2>1. log[k].delta \in Int /\ size[k] \in Int /\ k \in Records
      BY <1>1, DeltasAreInt
    <2>2. CASE GetNext(k) = 0
      <3>1. LastOf[k] = k /\ GetLeakSz[k] = log[k].delta
        BY <2>1, <2>2, LastOfIsLoop, GetLeakSzIsLoop
      <3>2. QED
        BY <2>1, <2>2, <3>1
    <2>3. CASE GetNext(k) # 0
      <3> DEFINE m == GetNext(k)
      <3>1. m \in Records /\ m > k /\ log[m].prev = k /\ k # 0
        BY <1>1, <2>1, <2>3, NextFacts
      <3> HIDE DEF m
      <3>2. m \in T /\ log[m].delta \in Int
        BY <1>1, <1>2, <3>1, DeltasAreInt
      <3>3. LastOf[k] = LastOf[m] /\ GetLeakSz[k] = log[k].delta + GetLeakSz[m]
        BY <2>1, <2>3, LastOfIsLoop, GetLeakSzIsLoop DEF m
      <3>4. start[m] = start[k] /\ size[m] = size[k] + log[m].delta
        BY <3>1 DEF Traces
      <3>5. /\ size[LastOf[m]] \in Int /\ size[m] \in Int
            /\ GetLeakSz[m] = size[LastOf[m]] - size[m] + log[m].delta
        BY <3>1, <3>2
      <3>6. GetLeakSz[k] = size[LastOf[k]] - size[k] + log[k].delta
        <4> DEFINE a == log[k].delta
                   b == size[LastOf[m]]
                   c == size[k]
                   d == log[m].delta
        <4>1. /\ a \in Int /\ b \in Int /\ c \in Int /\ d \in Int
              /\ size[m] = c + d /\ size[LastOf[k]] = b
          BY <2>1, <3>2, <3>3, <3>4, <3>5
        <4>2. GetLeakSz[k] = a + (b - size[m] + d)
          BY <3>3, <3>5
        <4> HIDE DEF a, b, c, d
        <4>3. GetLeakSz[k] = a + (b - (c + d) + d)
          BY <4>1, <4>2, Zenon
        <4>4. a + (b - (c + d) + d) = b - c + a
          BY <4>1
        <4>5. GetLeakSz[k] = size[LastOf[k]] - c + a
          BY <4>1, <4>3, <4>4, Zenon
        <4>6. QED
          BY <4>5 DEF a, c
      <3>7. QED
        BY <3>2, <3>3, <3>4, <3>6
    <2>4. QED
      BY <2>2, <2>3
  <1> HIDE DEF T
  <1>3. T = 1..n
    <2>1. T \in SUBSET (1..n)
      BY DEF T
    <2>2. QED
      BY <1>1, <1>2, <2>1, DownInduction
  <1>4. i \in T
    BY <1>1, <1>3
  <1>5. QED
    BY <1>4 DEF T

(* With chains, the loop that starts at the ALLOC of a block ends where    *)
(* the one that starts at any of its records does.                         *)
LEMMA StartFacts ==
    ASSUME RInv, linked, NEW start \in [Records -> Nat], NEW pos \in [Records -> Nat],
           NEW size \in [Records -> Int], Traces(start, pos, size),
           NEW i \in Records, log[i].mem # NULL
    PROVE  /\ start[i] \in Records /\ log[start[i]].state = "ALLOC"
           /\ LastOf[start[i]] = LastOf[i]
  <1> DEFINE n == Len(log)
             Good(k) == /\ start[k] \in Records /\ log[start[k]].state = "ALLOC"
                        /\ LastOf[start[k]] = LastOf[k]
             T == {k \in Nat : \A j \in Records : j <= k /\ log[j].mem # NULL => Good(j)}
  <1>1. n \in Nat /\ Records = 1..n /\ HInv
    BY NextFacts DEF RInv
  <1>2. 0 \in T
    BY <1>1
  <1>3. ASSUME NEW k \in T PROVE k + 1 \in T
    <2> HIDE DEF Good
    <2> SUFFICES ASSUME k + 1 \in Records, log[k + 1].mem # NULL PROVE Good(k + 1)
      <3>1. k \in Nat /\ \A j \in Records : j <= k /\ log[j].mem # NULL => Good(j)
        OBVIOUS
      <3>2. \A j \in Records : j <= k + 1 => j <= k \/ j = k + 1
        BY <1>1, <3>1
      <3>3. k + 1 \in Nat
        BY <3>1
      <3>4. QED
        BY <3>1, <3>2, <3>3
    <2> USE DEF Good
    <2> DEFINE m == k + 1
    <2>1. m \in Records /\ m # 0
      OBVIOUS
    <2>2. CASE log[m].prev = 0
      <3>1. log[m].state = "ALLOC" /\ start[m] = m
        BY <2>1, <2>2 DEF RInv, ShapeInv, Traces
      <3>2. QED
        BY <2>1, <3>1
    <2>3. CASE log[m].prev # 0
      <3> DEFINE p == log[m].prev
      <3>1. /\ p \in 1..(m - 1) /\ log[p].state # "FREE" /\ p \in Records
            /\ log[p].mem # NULL
        <4>1. p \in 1..(m - 1) /\ log[p].state # "FREE"
          BY <1>1, <2>1, <2>3 DEF HInv, ChainsLinear, Records
        <4>2. p \in Records
          BY <1>1, <2>1, <4>1
        <4>3. log[p].mem \in Addrs
          BY <1>1, <4>1, <4>2 DEF HInv, OpenInv, Records
        <4>4. QED
          BY <4>1, <4>2, <4>3, AddrAssumption
      <3>2. start[m] = start[p]
        BY <2>1, <2>3 DEF Traces
      <3>3. LastOf[p] = LastOf[m]
        <4>1. GetNext(p) = m
          BY <1>1, <2>1, <3>1, NextFacts
        <4>2. QED
          BY <1>1, <2>1, <3>1, <4>1, LastOfIsLoop
      <3> HIDE DEF p
      <3>4. Good(p)
        BY <3>1
      <3>5. QED
        BY <3>2, <3>3, <3>4
    <2>4. QED
      BY <2>2, <2>3
  <1> HIDE DEF T
  <1>4. T = Nat
    <2>1. T \in SUBSET Nat
      BY DEF T
    <2>2. QED
      BY <1>2, <1>3, <2>1, NumberInduction
  <1>5. i \in T
    BY <1>1, <1>4
  <1>6. QED
    BY <1>1, <1>5 DEF T
\* The block that is_leak() finds for a record.
BlockOf(i) == log[LastOf[i]].mem

(* With chains the leaks are the open blocks, one for one.                 *)
LEMMA LeaksOnBlocks ==
    ASSUME RInv, linked
    PROVE  /\ \A i \in Leaks : /\ BlockOf(i) \in OpenBlocks
                               /\ open[BlockOf(i)] = LastOf[i]
                               /\ GetLeakSz[i] = bytes[BlockOf(i)]
           /\ \A i, j \in Leaks : BlockOf(i) = BlockOf(j) => i = j
           /\ \A a \in OpenBlocks : \E i \in Leaks : BlockOf(i) = a
  <1>1. PICK start \in [Records -> Nat], pos \in [Records -> Nat], size \in [Records -> Int] :
           Traces(start, pos, size) /\ Measures(size)
    BY DEF RInv, TraceInv
  <1>2. HInv /\ HistType /\ ShapeInv /\ Records = 1..Len(log) /\ Len(log) \in Nat
    BY NextFacts DEF RInv, HInv
  <1>3. ASSUME NEW i \in Leaks
        PROVE  /\ BlockOf(i) \in OpenBlocks /\ open[BlockOf(i)] = LastOf[i]
               /\ GetLeakSz[i] = bytes[BlockOf(i)]
               /\ start[LastOf[i]] = i
    <2>1. i \in Records /\ log[i].state = "ALLOC" /\ log[LastOf[i]].state # "FREE"
      BY DEF Leaks, IsLeak
    <2>2. /\ LastOf[i] \in Records /\ GetNext(LastOf[i]) = 0
          /\ start[LastOf[i]] = start[i]
          /\ GetLeakSz[i] = size[LastOf[i]] - size[i] + log[i].delta
      <3>1. Traces(start, pos, size) /\ HInv /\ i \in Records
        BY <1>1, <1>2, <2>1
      <3>2. QED
        BY <3>1, LastFacts
    <2>3. start[i] = i /\ size[i] = log[i].delta
      BY <1>1, <1>2, <2>1 DEF ShapeInv, Traces
    <2>4. ~Continued(LastOf[i]) /\ LastOf[i] # 0
      BY <1>2, <2>2, NextFacts
    <2>5. PICK a \in Addrs : open[a] = LastOf[i]
      BY <1>2, <2>1, <2>2, <2>4 DEF HInv, OpenInv, Records
    <2>6. BlockOf(i) = a /\ a \in OpenBlocks
      BY <1>2, <2>4, <2>5 DEF HInv, OpenInv, OpenBlocks, BlockOf
    <2>7. GetLeakSz[i] = bytes[a]
      <3>1. size[LastOf[i]] = bytes[a]
        BY <1>1, <2>4, <2>5 DEF Measures
      <3>2. size[LastOf[i]] \in Int /\ size[i] \in Int
        BY <2>1, <2>2
      <3>3. QED
        BY <2>2, <2>3, <3>1, <3>2
    <2>8. QED
      BY <2>2, <2>3, <2>5, <2>6, <2>7
  <1>4. ASSUME NEW i \in Leaks, NEW j \in Leaks, BlockOf(i) = BlockOf(j) PROVE i = j
    BY <1>3, <1>4
  <1>5. ASSUME NEW a \in OpenBlocks PROVE \E i \in Leaks : BlockOf(i) = a
    <2> DEFINE r == open[a]
    <2>1. /\ a \in Addrs /\ r # 0 /\ r \in Records /\ log[r].mem = a
          /\ log[r].state # "FREE" /\ ~Continued(r)
      BY <1>2 DEF OpenBlocks, HInv, OpenInv, Records
    <2>2. GetNext(r) = 0
      BY <2>1 DEF GetNext
    <2> HIDE DEF r
    <2>3. LastOf[r] = r
      BY <1>2, <2>1, <2>2, LastOfIsLoop
    <2>4. /\ start[r] \in Records /\ log[start[r]].state = "ALLOC"
          /\ LastOf[start[r]] = r
      BY <1>1, <2>1, <2>3, StartFacts, AddrAssumption
    <2>5. start[r] \in Leaks /\ BlockOf(start[r]) = a
      BY <2>1, <2>4 DEF Leaks, IsLeak, BlockOf
    <2>6. QED
      BY <2>5
  <1>6. QED
    BY <1>3, <1>4, <1>5

(* is_leak() and get_leak_sz() are right: with chains there is one leak    *)
(* for each block that was not freed, with its size at the end; without    *)
(* chains every ALLOC is called a leak, so the freed blocks are too many.  *)
THEOREM LeaksAreTheBlocks == ReportSpec => []LeaksAreBlocks
  <1>1. RInv => LeaksAreBlocks
    <2> SUFFICES ASSUME RInv PROVE LeaksAreBlocks
      OBVIOUS
    <2>1. HInv /\ CountInv /\ Records = 1..Len(log) /\ Len(log) \in Nat
      BY NextFacts DEF RInv
    <2>2. IsFiniteSet(Leaks)
      <3>1. Leaks \subseteq 1..Len(log) /\ IsFiniteSet(1..Len(log))
        BY <2>1, FS_Interval DEF Leaks
      <3>2. QED
        BY <3>1, FS_Subset
    <2>3. CASE linked
      <3>1. {LastOf[i] : i \in Leaks} = {open[a] : a \in OpenBlocks}
        BY <2>3, LeaksOnBlocks
      <3>2. \A i \in Leaks : GetLeakSz[i] = bytes[log[LastOf[i]].mem]
        BY <2>3, LeaksOnBlocks DEF BlockOf
      <3>3. Cardinality(Leaks) = Cardinality(OpenBlocks)
        <4> DEFINE h == [i \in Leaks |-> BlockOf(i)]
        <4>1. h \in Bijection(Leaks, OpenBlocks)
          <5>1. h \in [Leaks -> OpenBlocks]
            BY <2>3, LeaksOnBlocks
          <5>2. \A i, j \in Leaks : h[i] = h[j] => i = j
            BY <2>3, LeaksOnBlocks
          <5>3. \A a \in OpenBlocks : \E i \in Leaks : h[i] = a
            BY <2>3, LeaksOnBlocks
          <5> HIDE DEF h
          <5>4. QED
            BY <5>1, <5>2, <5>3 DEF Bijection, Injection, IsInjective, Surjection
        <4>2. QED
          BY <2>2, <4>1, FS_Bijection DEF ExistsBijection
      <3>4. IsFiniteSet(OpenBlocks)
        BY FiniteAssumption, FS_Subset DEF OpenBlocks
      <3>5. Cardinality(OpenBlocks) \in Nat
        BY <3>4, FS_CardinalityType
      <3>6. Cardinality(Leaks)
               = Cardinality(OpenBlocks) + IF linked THEN 0 ELSE Cardinality(Freed)
        BY <2>3, <3>3, <3>5
      <3>7. QED
        BY <3>1, <3>2, <3>6 DEF LeaksAreBlocks
    <2>4. CASE ~linked
      <3>1. \A i \in Records : LastOf[i] = i
        BY <2>1, <2>4, NextFacts, LastOfIsLoop
      <3>2. Leaks = Started
        BY <3>1 DEF Leaks, IsLeak, Started
      <3>3. Cardinality(Leaks)
               = Cardinality(OpenBlocks) + IF linked THEN 0 ELSE Cardinality(Freed)
        BY <2>1, <2>4, <3>2 DEF CountInv
      <3>4. QED
        BY <2>4, <3>3 DEF LeaksAreBlocks
    <2>5. QED
      BY <2>3, <2>4
  <1>2. QED
    BY <1>1, RInvHolds, PTL
-----------------------------------------------------------------------------
(* The chains.                                                             *)

\* The loop of get_chain().
LEMMA GetChainIsLoop ==
    ASSUME HInv
    PROVE  \A i \in Records :
              /\ GetChain[i] = <<i>> \o (IF GetNext(i) = 0 THEN <<>> ELSE GetChain[GetNext(i)])
  <1> DEFINE n == Len(log)
             next == [i \in 1..n |-> GetNext(i)]
             end == [i \in 1..n |-> <<i>>]
             step == [x \in (1..n) \X Seq(Nat) |-> <<x[1]>> \o x[2]]
  <1>1. /\ n \in Nat /\ Records = 1..n /\ next \in [1..n -> 0..n]
        /\ \A i \in 1..n : next[i] = 0 \/ next[i] > i
    BY NextFacts
  <1> HIDE DEF n
  <1>2. end \in [1..n -> Seq(Nat)] /\ step \in [(1..n) \X Seq(Nat) -> Seq(Nat)]
    <2>1. \A i \in 1..n : <<i>> \in Seq(Nat)
      BY <1>1
    <2>2. \A i \in 1..n, c \in Seq(Nat) : <<i>> \o c \in Seq(Nat)
      BY <2>1
    <2>3. QED
      BY <2>1, <2>2
  <1>3. PICK f \in [1..n -> Seq(Nat)] : Follows(f, n, next, end, step)
    <2> HIDE DEF next, end, step
    <2>1. n \in Nat /\ next \in [1..n -> 0..n] /\ \A i \in 1..n : next[i] = 0 \/ next[i] > i
      BY <1>1
    <2>2. QED
      BY <1>2, <2>1, DownRecursion
  <1>4. ASSUME NEW i \in 1..n
        PROVE  f[i] = <<i>> \o (IF GetNext(i) = 0 THEN <<>> ELSE f[GetNext(i)])
    <2>1. f[i] = IF next[i] = 0 THEN end[i] ELSE step[<<i, f[next[i]]>>]
      BY <1>3 DEF Follows
    <2>2. CASE next[i] = 0
      <3>1. <<i>> \o <<>> = <<i>>
        BY <1>1
      <3>2. QED
        BY <1>1, <2>1, <2>2, <3>1
    <2>3. CASE next[i] # 0
      <3>1. next[i] \in 1..n /\ next[i] = GetNext(i)
        BY <1>1, <2>3
      <3>2. f[next[i]] \in Seq(Nat)
        BY <3>1
      <3>3. step[<<i, f[next[i]]>>] = <<i>> \o f[next[i]]
        BY <3>2
      <3>4. QED
        BY <2>1, <2>3, <3>1, <3>3
    <2>4. QED
      BY <2>2, <2>3
  <1>5. f = [i \in Records |-> <<i>> \o (IF GetNext(i) = 0 THEN <<>> ELSE f[GetNext(i)])]
    BY <1>1, <1>4
  <1>6. GetChain = [i \in Records |->
            <<i>> \o (IF GetNext(i) = 0 THEN <<>> ELSE GetChain[GetNext(i)])]
    BY <1>5 DEF GetChain
  <1>7. QED
    BY <1>6

\* A chain begins with its record, goes on with the next one, and numbers the
\* records of one block.
IsChain(c, j, start, pos) ==
    /\ c \in Seq(Nat) /\ Len(c) >= 1 /\ c[1] = j
    /\ \A k \in DOMAIN c :
          /\ c[k] \in Records /\ start[c[k]] = start[j] /\ pos[c[k]] = pos[j] + (k - 1)
          /\ GetNext(c[k]) # 0 => k + 1 \in DOMAIN c /\ c[k + 1] = GetNext(c[k])

LEMMA ChainFacts ==
    ASSUME HInv, NEW start \in [Records -> Nat], NEW pos \in [Records -> Nat],
           NEW size \in [Records -> Int], Traces(start, pos, size), NEW i \in Records
    PROVE  IsChain(GetChain[i], i, start, pos)
  <1> DEFINE n == Len(log)
             T == {k \in 1..n : IsChain(GetChain[k], k, start, pos)}
  <1>1. n \in Nat /\ Records = 1..n
    BY NextFacts
  <1>2. ASSUME NEW j \in 1..n, (j + 1)..n \subseteq T PROVE j \in T
    <2>1. j \in Records /\ j \in Nat /\ pos[j] \in Nat
      BY <1>1
    <2>2. CASE GetNext(j) = 0
      <3>1. GetChain[j] = <<j>>
        <4>1. <<j>> \o <<>> = <<j>>
          BY <2>1
        <4>2. QED
          BY <2>1, <2>2, <4>1, GetChainIsLoop
      <3>2. IsChain(<<j>>, j, start, pos)
        BY <2>1, <2>2 DEF IsChain
      <3>3. QED
        BY <3>1, <3>2
    <2>3. CASE GetNext(j) # 0
      <3> DEFINE m == GetNext(j)
                 d == GetChain[m]
                 c == GetChain[j]
      <3>1. m \in Records /\ m > j /\ log[m].prev = j /\ j # 0
        BY <1>1, <2>1, <2>3, NextFacts
      <3>2. c = <<j>> \o d
        BY <2>1, <2>3, GetChainIsLoop
      <3>3. m \in T
        BY <1>1, <1>2, <3>1
      <3>4. IsChain(d, m, start, pos)
        BY <3>3
      <3>5. start[m] = start[j] /\ pos[m] = pos[j] + 1
        BY <3>1 DEF Traces
      <3> HIDE DEF c, d
      <3>6. /\ d \in Seq(Nat) /\ Len(d) >= 1 /\ d[1] = m /\ Len(d) \in Nat
            /\ DOMAIN d = 1..Len(d)
        BY <3>4 DEF IsChain
      <3>7. /\ c \in Seq(Nat) /\ Len(c) = Len(d) + 1 /\ c[1] = j
            /\ DOMAIN c = 1..(Len(d) + 1)
            /\ \A k \in 1..Len(d) : c[k + 1] = d[k]
        BY <2>1, <3>2, <3>6
      <3>8. ASSUME NEW k \in DOMAIN c
            PROVE  /\ c[k] \in Records /\ start[c[k]] = start[j]
                   /\ pos[c[k]] = pos[j] + (k - 1)
                   /\ GetNext(c[k]) # 0 => k + 1 \in DOMAIN c /\ c[k + 1] = GetNext(c[k])
        <4>1. CASE k = 1
          <5>1. c[2] = m /\ 2 \in DOMAIN c
            BY <3>6, <3>7
          <5>2. QED
            BY <2>1, <3>7, <4>1, <5>1
        <4>2. CASE k # 1
          <5> DEFINE q == k - 1
          <5>0. Len(d) \in Nat /\ k \in 1..(Len(d) + 1)
            BY <3>6, <3>7
          <5>6. q \in 1..Len(d) /\ k = q + 1
            BY <4>2, <5>0
          <5>1. q \in 1..Len(d) /\ k = q + 1 /\ c[k] = d[q]
            BY <3>7, <5>6
          <5> HIDE DEF q
          <5>2. /\ d[q] \in Records /\ start[d[q]] = start[m] /\ pos[d[q]] = pos[m] + (q - 1)
                /\ GetNext(d[q]) # 0 => q + 1 \in DOMAIN d /\ d[q + 1] = GetNext(d[q])
            BY <3>4, <3>6, <5>1 DEF IsChain
          <5>3. pos[c[k]] = pos[j] + (k - 1)
            BY <2>1, <3>5, <5>1, <5>2
          <5>4. ASSUME GetNext(c[k]) # 0
                PROVE  k + 1 \in DOMAIN c /\ c[k + 1] = GetNext(c[k])
            <6>1. q + 1 \in 1..Len(d) /\ d[q + 1] = GetNext(c[k])
              BY <3>6, <5>1, <5>2, <5>4
            <6>2. c[(q + 1) + 1] = d[q + 1]
              BY <3>7, <6>1
            <6>3. QED
              BY <3>6, <3>7, <5>1, <6>1, <6>2
          <5>5. QED
            BY <3>5, <5>1, <5>2, <5>3, <5>4
        <4>3. QED
          BY <4>1, <4>2
      <3>9. IsChain(c, j, start, pos)
        BY <3>6, <3>7, <3>8 DEF IsChain
      <3>10. QED
        BY <3>9 DEF c
    <2>4. QED
      BY <2>2, <2>3
  <1> HIDE DEF T
  <1>3. T = 1..n
    <2>1. T \in SUBSET (1..n)
      BY DEF T
    <2>2. QED
      BY <1>1, <1>2, <2>1, DownInduction
  <1>4. i \in T
    BY <1>1, <1>3
  <1>5. QED
    BY <1>4 DEF T

(* A record is in the chain of its block, at its number.                   *)
LEMMA InChain ==
    ASSUME RInv, linked, NEW start \in [Records -> Nat], NEW pos \in [Records -> Nat],
           NEW size \in [Records -> Int], Traces(start, pos, size),
           NEW i \in Records, log[i].mem # NULL
    PROVE  /\ start[i] \in Records /\ log[start[i]].state = "ALLOC"
           /\ pos[i] \in DOMAIN GetChain[start[i]] /\ pos[i] \in 1..i
           /\ GetChain[start[i]][pos[i]] = i
  <1> DEFINE n == Len(log)
             Good(k) == /\ pos[k] \in DOMAIN GetChain[start[k]] /\ pos[k] \in 1..k
                        /\ GetChain[start[k]][pos[k]] = k
             T == {k \in Nat : \A j \in Records : j <= k /\ log[j].mem # NULL => Good(j)}
  <1>1. n \in Nat /\ Records = 1..n /\ HInv
    BY NextFacts DEF RInv
  <1>2. 0 \in T
    BY <1>1
  <1>3. ASSUME NEW k \in T PROVE k + 1 \in T
    <2> HIDE DEF Good
    <2> SUFFICES ASSUME k + 1 \in Records, log[k + 1].mem # NULL PROVE Good(k + 1)
      <3>1. k \in Nat /\ \A j \in Records : j <= k /\ log[j].mem # NULL => Good(j)
        OBVIOUS
      <3>2. \A j \in Records : j <= k + 1 => j <= k \/ j = k + 1
        BY <1>1, <3>1
      <3>3. k + 1 \in Nat
        BY <3>1
      <3>4. QED
        BY <3>1, <3>2, <3>3
    <2> USE DEF Good
    <2> DEFINE m == k + 1
    <2>1. m \in Records /\ m # 0
      OBVIOUS
    <2>2. CASE log[m].prev = 0
      <3>1. start[m] = m /\ pos[m] = 1
        BY <2>1, <2>2 DEF Traces
      <3>2. IsChain(GetChain[m], m, start, pos)
        BY <1>1, <2>1, ChainFacts
      <3>3. 1 \in DOMAIN GetChain[m] /\ GetChain[m][1] = m
        BY <3>2 DEF IsChain
      <3>4. QED
        BY <1>1, <2>1, <3>1, <3>3
    <2>3. CASE log[m].prev # 0
      <3> DEFINE p == log[m].prev
                 c == GetChain[start[p]]
      <3>1. /\ p \in 1..(m - 1) /\ p \in Records /\ log[p].mem # NULL /\ GetNext(p) = m
        <4>1. p \in 1..(m - 1) /\ log[p].state # "FREE"
          BY <1>1, <2>1, <2>3 DEF HInv, ChainsLinear, Records
        <4>2. p \in Records
          BY <1>1, <2>1, <4>1
        <4>3. log[p].mem \in Addrs
          BY <1>1, <4>1, <4>2 DEF HInv, OpenInv, Records
        <4>4. GetNext(p) = m
          BY <1>1, <2>1, <4>2, NextFacts
        <4>5. QED
          BY <4>1, <4>2, <4>3, <4>4, AddrAssumption
      <3>2. start[m] = start[p] /\ pos[m] = pos[p] + 1
        BY <2>1, <2>3 DEF Traces
      <3> HIDE DEF p
      <3>3. pos[p] \in DOMAIN c /\ pos[p] \in 1..p /\ c[pos[p]] = p
        BY <3>1
      <3>4. start[p] \in Records
        BY <3>1, StartFacts
      <3>5. IsChain(c, start[p], start, pos)
        BY <1>1, <3>4, ChainFacts
      <3> HIDE DEF c
      <3>6. pos[p] + 1 \in DOMAIN c /\ c[pos[p] + 1] = m
        BY <2>1, <3>1, <3>3, <3>5 DEF IsChain
      <3>7. pos[m] \in 1..m
        BY <3>1, <3>2, <3>3
      <3>8. QED
        BY <3>2, <3>6, <3>7 DEF c
    <2>4. QED
      BY <2>2, <2>3
  <1> HIDE DEF T
  <1>4. T = Nat
    <2>1. T \in SUBSET Nat
      BY DEF T
    <2>2. QED
      BY <1>2, <1>3, <2>1, NumberInduction
  <1>5. i \in T
    BY <1>1, <1>4
  <1>6. Good(i)
    BY <1>1, <1>5 DEF T
  <1>7. QED
    BY <1>6, StartFacts

(* get_chain() is right: the chains of the blocks take the log apart, and  *)
(* none of them runs in a circle.                                          *)
THEOREM ChainsArePartition == ReportSpec => []ChainsPartitionLog
  <1>1. RInv => ChainsPartitionLog
    <2> SUFFICES ASSUME RInv, linked, NEW i \in Records, log[i].mem # NULL
                 PROVE  Cardinality({at \in Records \X Records :
                            /\ log[at[1]].state = "ALLOC"
                            /\ at[2] \in DOMAIN GetChain[at[1]]
                            /\ GetChain[at[1]][at[2]] = i}) = 1
      BY DEF ChainsPartitionLog
    <2> DEFINE At == {at \in Records \X Records :
                         /\ log[at[1]].state = "ALLOC"
                         /\ at[2] \in DOMAIN GetChain[at[1]]
                         /\ GetChain[at[1]][at[2]] = i}
    <2>1. PICK start \in [Records -> Nat], pos \in [Records -> Nat], size \in [Records -> Int] :
             Traces(start, pos, size) /\ Measures(size)
      BY DEF RInv, TraceInv
    <2>2. HInv /\ ShapeInv /\ Records = 1..Len(log) /\ Len(log) \in Nat
      BY NextFacts DEF RInv
    <2> DEFINE place == <<start[i], pos[i]>>
    <2>3. place \in At
      <3>1. /\ start[i] \in Records /\ log[start[i]].state = "ALLOC"
            /\ pos[i] \in DOMAIN GetChain[start[i]] /\ pos[i] \in 1..i
            /\ GetChain[start[i]][pos[i]] = i
        BY <2>1, InChain
      <3>2. pos[i] \in Records
        BY <2>2, <3>1
      <3>3. QED
        BY <3>1, <3>2
    <2>4. ASSUME NEW at \in At PROVE at = place
      <3> DEFINE j == at[1]
                 k == at[2]
      <3>1. /\ at = <<j, k>> /\ j \in Records /\ k \in Records
            /\ log[j].state = "ALLOC" /\ k \in DOMAIN GetChain[j] /\ GetChain[j][k] = i
        OBVIOUS
      <3> HIDE DEF j, k
      <3>2. IsChain(GetChain[j], j, start, pos)
        BY <2>1, <2>2, <3>1, ChainFacts
      <3>3. start[i] = start[j] /\ pos[i] = pos[j] + (k - 1)
        BY <3>1, <3>2 DEF IsChain
      <3>4. start[j] = j /\ pos[j] = 1
        BY <2>1, <2>2, <3>1 DEF ShapeInv, Traces
      <3>5. pos[i] = k
        BY <2>2, <3>1, <3>3, <3>4
      <3>6. QED
        BY <3>1, <3>3, <3>4, <3>5
    <2> HIDE DEF At, place
    <2>5. At = {place}
      BY <2>3, <2>4
    <2>6. Cardinality(At) = 1
      BY <2>5, FS_Singleton
    <2>7. QED
      BY <2>6 DEF At
  <1>2. QED
    BY <1>1, RInvHolds, PTL
-----------------------------------------------------------------------------
(* The figures.                                                            *)

\* The curve is the running sum of the deltas.
LEMMA CurrentIsSum ==
    ASSUME HInv
    PROVE  /\ \A n \in 0..Len(log) : Current[n] = Sum(Deltas, 1..n)
           /\ \A i \in Records : Current[i] = Current[i - 1] + log[i].delta
           /\ \A n \in 0..Len(log) : Current[n] \in Int
  <1> DEFINE n == Len(log)
             f == [i \in 0..n |-> Sum(Deltas, 1..i)]
  <1>1. n \in Nat /\ Records = 1..n /\ \A i \in 1..n : Deltas[i] = log[i].delta /\ Deltas[i] \in Int
    BY NextFacts, DeltasAreInt DEF Deltas
  <1> HIDE DEF n
  <1>2. f[0] = 0
    <2>1. 1..0 = {}
      OBVIOUS
    <2>2. QED
      BY <1>1, <2>1, SumEmpty
  <1>3. ASSUME NEW i \in 1..n PROVE f[i] = f[i - 1] + log[i].delta
    <2> DEFINE m == i - 1
    <2>1. m \in Nat /\ i = m + 1 /\ m \in 0..n /\ i \in 0..n
      BY <1>1
    <2> HIDE DEF m
    <2>2. \A j \in 1..(m + 1) : Deltas[j] \in Int
      BY <1>1, <2>1
    <2>3. Sum(Deltas, 1..(m + 1)) = Sum(Deltas, 1..m) + Deltas[m + 1]
      BY <2>1, <2>2, SumOneMore
    <2>4. f[i] = f[m] + log[i].delta
      BY <1>1, <2>1, <2>3
    <2>5. QED
      BY <2>4 DEF m
  <1>4. \A i \in 0..n : f[i] \in Int
    <2> SUFFICES ASSUME NEW i \in 0..n PROVE Sum(Deltas, 1..i) \in Int
      OBVIOUS
    <2>1. IsFiniteSet(1..i) /\ \A j \in 1..i : Deltas[j] \in Int
      BY <1>1, FS_Interval
    <2>2. QED
      BY <2>1, SumType
  <1>5. \A i \in 0..n : i = 0 \/ i \in 1..n
    BY <1>1
  <1> DEFINE Next1(g) == [i \in 0..n |-> IF i = 0 THEN 0 ELSE g[i - 1] + log[i].delta]
  <1>6. f = Next1(f)
    <2>1. \A i \in 0..n : f[i] = IF i = 0 THEN 0 ELSE f[i - 1] + log[i].delta
      BY <1>2, <1>3, <1>5
    <2>2. QED
      BY <2>1
  <1> HIDE DEF f
  <1>7. Current = Next1(Current)
    BY <1>6 DEF Current, n
  <1>8. /\ Current[0] = 0
        /\ \A i \in 1..n : Current[i] = Current[i - 1] + log[i].delta
    <2>1. \A i \in 0..n : Current[i] = IF i = 0 THEN 0 ELSE Current[i - 1] + log[i].delta
      BY <1>7
    <2>2. 0 \in 0..n /\ \A i \in 1..n : i \in 0..n /\ i # 0
      BY <1>1
    <2>3. QED
      BY <2>1, <2>2
  <1> HIDE DEF Next1
  <1> DEFINE T == {k \in Nat : k \in 0..n => Current[k] = f[k]}
  <1>9. T = Nat
    <2>1. 0 \in T
      BY <1>2, <1>8
    <2>2. ASSUME NEW k \in T PROVE k + 1 \in T
      <3> SUFFICES ASSUME k + 1 \in 0..n PROVE Current[k + 1] = f[k + 1]
        OBVIOUS
      <3>1. k \in 0..n /\ k + 1 \in 1..n /\ (k + 1) - 1 = k
        BY <1>1
      <3>2. Current[k] = f[k]
        BY <3>1
      <3>3. QED
        BY <1>3, <1>8, <3>1, <3>2
    <2>3. T \in SUBSET Nat
      OBVIOUS
    <2> HIDE DEF T
    <2>4. QED
      BY <2>1, <2>2, <2>3, NumberInduction
  <1>10. \A i \in 0..n : Current[i] = f[i]
    BY <1>1, <1>9
  <1>11. QED
    BY <1>1, <1>4, <1>8, <1>10 DEF f, n

\* What is lost is what the open blocks have.
LEMMA LostIsOpen ==
    ASSUME RInv, linked
    PROVE  LostBytes = Sum(bytes, Addrs)
  <1>1. HInv /\ HistType /\ ShapeInv /\ Records = 1..Len(log) /\ Len(log) \in Nat
    BY NextFacts DEF RInv, HInv
  <1>2. IsFiniteSet(Leaks)
    <2>1. Leaks \subseteq 1..Len(log) /\ IsFiniteSet(1..Len(log))
      BY <1>1, FS_Interval DEF Leaks
    <2>2. QED
      BY <2>1, FS_Subset
  <1> DEFINE h == [i \in Leaks |-> BlockOf(i)]
  <1>3. \A i \in Leaks : h[i] \in OpenBlocks /\ GetLeakSz[i] = bytes[h[i]]
    BY LeaksOnBlocks
  <1>4. \A a \in Addrs : bytes[a] \in Int
    BY <1>1 DEF HistType
  <1>5. \A i \in Leaks : GetLeakSz[i] \in Int /\ bytes[h[i]] = GetLeakSz[i]
    BY <1>3, <1>4 DEF OpenBlocks
  <1>6. \A i, j \in Leaks : h[i] = h[j] => i = j
    BY LeaksOnBlocks
  <1>7. {h[i] : i \in Leaks} = OpenBlocks
    <2>1. \A a \in OpenBlocks : \E i \in Leaks : h[i] = a
      BY LeaksOnBlocks
    <2>2. QED
      BY <1>3, <2>1
  <1> HIDE DEF h
  <1>8. Sum(GetLeakSz, Leaks) = Sum(bytes, OpenBlocks)
    BY <1>2, <1>5, <1>6, <1>7, SumRenamed
  <1>9. Sum(bytes, Addrs) = Sum(bytes, OpenBlocks)
    <2>1. OpenBlocks \in SUBSET Addrs /\ \A a \in Addrs \ OpenBlocks : bytes[a] = 0
      BY <1>1 DEF OpenBlocks, ShapeInv
    <2>2. QED
      BY <1>4, <2>1, FiniteAssumption, SumSupport
  <1>10. QED
    BY <1>8, <1>9 DEF LostBytes, Sum

\* No point of the curve is above the total.
LEMMA CurveInTotal ==
    ASSUME HInv, NEW n \in 0..Len(log)
    PROVE  Sum(Deltas, 1..n) <= GetTotalMem /\ GetTotalMem \in Int
  <1> DEFINE grow == [i \in Records |-> Grow(i)]
  <1>1. /\ Len(log) \in Nat /\ Records = 1..Len(log)
        /\ \A i \in Records : Deltas[i] = log[i].delta /\ Deltas[i] \in Int
    BY NextFacts, DeltasAreInt DEF Deltas
  <1>2. \A i \in Records : grow[i] \in Int /\ grow[i] >= 0 /\ Deltas[i] <= grow[i]
    BY <1>1 DEF Grow
  <1>3. GetTotalMem = Sum(grow, Records)
    BY DEF GetTotalMem, Sum, SumFunction
  <1>4. 1..n \in SUBSET Records /\ IsFiniteSet(1..n) /\ IsFiniteSet(Records)
    BY <1>1, FS_Interval
  <1> HIDE DEF grow
  <1>5. Sum(Deltas, 1..n) <= Sum(grow, 1..n)
    BY <1>1, <1>2, <1>4, SumLess
  <1>6. Sum(grow, 1..n) <= Sum(grow, Records)
    BY <1>2, <1>4, SumPart
  <1>7. /\ Sum(Deltas, 1..n) \in Int /\ Sum(grow, 1..n) \in Int /\ Sum(grow, Records) \in Int
    BY <1>1, <1>2, <1>4, SumType
  <1>8. QED
    BY <1>3, <1>5, <1>6, <1>7

(* calc_current(), get_total_mem() and the sum of the leaks are right: the *)
(* curve ends at the bytes that are still in use, which are the ones the   *)
(* report calls lost, and stays between nothing and the total.             *)
THEOREM FiguresAreRight == ReportSpec => []FiguresAgree
  <1>1. RInv => FiguresAgree
    <2> SUFFICES ASSUME RInv PROVE FiguresAgree
      OBVIOUS
    <2>1. /\ HInv /\ HistType /\ SumInv
          /\ Records = 1..Len(log) /\ Len(log) \in Nat
          /\ Len(log) \in 0..Len(log)
      BY NextFacts DEF RInv, HInv
    <2>2. \A n \in 0..Len(log) : Current[n] = Sum(Deltas, 1..n) /\ Current[n] \in Int
      BY <2>1, CurrentIsSum
    <2>3. Current[Len(log)] = Sum(bytes, Addrs)
      BY <2>1, <2>2 DEF SumInv
    <2>4. SumFunction(bytes) = Sum(bytes, Addrs)
      <3>1. DOMAIN bytes = Addrs
        BY <2>1 DEF HistType
      <3>2. QED
        BY <3>1 DEF SumFunction, Sum
    <2>5. linked => LostBytes = Current[Len(log)]
      BY <2>3, LostIsOpen
    <2>6. ASSUME NEW i \in Records PROVE Current[i] \in 0..GetTotalMem
      <3>1. i \in 0..Len(log)
        BY <2>1
      <3>2. Current[i] >= 0 /\ Current[i] \in Int
        BY <2>1, <2>2, <3>1 DEF SumInv
      <3>3. Current[i] <= GetTotalMem /\ GetTotalMem \in Int
        BY <2>1, <2>2, <3>1, CurveInTotal
      <3>4. QED
        BY <3>2, <3>3
    <2>7. QED
      BY <2>3, <2>4, <2>5, <2>6 DEF FiguresAgree
  <1>2. QED
    BY <1>1, RInvHolds, PTL
-----------------------------------------------------------------------------
(* The samples.                                                            *)

LEMMA TimesMonotone ==
    ASSUME NEW a \in Int, NEW b \in Int, NEW s \in Int, s > 0
    PROVE  /\ a <= b => a * s <= b * s
           /\ a * s < b * s => a < b
           /\ a * s <= b * s => a <= b
  <1>1. a <= b => a * s <= b * s
    OBVIOUS
  <1>2. b + 1 <= a => (b + 1) * s <= a * s
    OBVIOUS
  <1>3. (b + 1) * s = b * s + s
    OBVIOUS
  <1>4. b <= a => b * s <= a * s
    OBVIOUS
  <1>5. a * s \in Int /\ b * s \in Int
    OBVIOUS
  <1>6. QED
    BY <1>1, <1>2, <1>3, <1>4, <1>5

LEMMA Division ==
    ASSUME NEW a \in Nat, NEW b \in Nat, b > 0
    PROVE  /\ a \div b \in Nat
           /\ (a \div b) * b <= a /\ a < (a \div b) * b + b
  OBVIOUS

\* max() finds a largest one.
LEMMA MaxByFacts ==
    ASSUME HInv, NEW I \in SUBSET Records, I # {}
    PROVE  /\ MaxBy(I) \in I
           /\ \A j \in I : Current[j] <= Current[MaxBy(I)]
  <1> DEFINE K == GetTotalMem
             T == {K - Current[j] : j \in I}
             Good(i) == \A j \in I :
                 Current[j] < Current[i] \/ (Current[j] = Current[i] /\ i <= j)
  <1>1. Records = 1..Len(log) /\ Len(log) \in Nat
    BY NextFacts
  <1>2. \A j \in I : Current[j] \in Int /\ Current[j] <= K /\ K \in Int
    <2> SUFFICES ASSUME NEW j \in I PROVE Current[j] \in Int /\ Current[j] <= K /\ K \in Int
      OBVIOUS
    <2>1. j \in 0..Len(log)
      BY <1>1
    <2>2. QED
      BY <2>1, CurrentIsSum, CurveInTotal
  <1> HIDE DEF K
  <1>3. T \in SUBSET Nat /\ T # {}
    BY <1>2
  <1>4. PICK m \in T : \A k \in T : m <= k
    BY <1>3, LeastNumber
  <1>5. PICK p \in I : m = K - Current[p]
    BY <1>4
  <1>6. ASSUME NEW j \in I PROVE Current[j] <= Current[p]
    <2>1. m <= K - Current[j]
      BY <1>4
    <2>2. QED
      BY <1>2, <1>5, <2>1
  <1> DEFINE J == {j \in I : Current[j] = Current[p]}
  <1>7. J \in SUBSET Nat /\ J # {}
    <2>1. I \subseteq Nat /\ p \in J
      BY <1>1
    <2>2. QED
      BY <2>1
  <1>8. PICK i \in J : \A k \in J : i <= k
    BY <1>7, LeastNumber
  <1>9. i \in I /\ Good(i)
    BY <1>2, <1>6, <1>8
  <1>10. MaxBy(I) \in I /\ Good(MaxBy(I))
    BY <1>9 DEF MaxBy
  <1>11. QED
    BY <1>2, <1>10

\* n records in slices of that size.
Sliced(n, count, size, m, slice) ==
    /\ n \in Nat /\ count \in Nat /\ count > 0
    /\ size = n \div count /\ size > 0 /\ m = (n + size - 1) \div size
    /\ \A s \in 1..m : slice[s] = ((s - 1) * size + 1 .. s * size) \cap (1..n)

TakesApart(n, count, m, slice) ==
    /\ \A s \in 1..m : slice[s] # {}
    /\ \A i \in 1..n : \E s \in 1..m : i \in slice[s]
    /\ \A r, s \in 1..m : r < s => \A i \in slice[r], j \in slice[s] : i < j
    /\ \A s \in 1..m : \A i, j \in slice[s] : (j - i) * count < n
    /\ count <= m

\* The slices take the log apart, in order, into at least as many as were asked
\* for, each of which is short.
LEMMA SliceFacts ==
    ASSUME NEW n, NEW count, NEW size, NEW m, NEW slice, Sliced(n, count, size, m, slice)
    PROVE  TakesApart(n, count, m, slice)
  <1>0. /\ n \in Nat /\ count \in Nat /\ count > 0 /\ size > 0 /\ size \in Nat /\ m \in Nat
        /\ size = n \div count /\ m = (n + size - 1) \div size
        /\ \A s \in 1..m : slice[s] = ((s - 1) * size + 1 .. s * size) \cap (1..n)
    <2>1. /\ n \in Nat /\ count \in Nat /\ count > 0 /\ size > 0
          /\ size = n \div count /\ m = (n + size - 1) \div size
          /\ \A s \in 1..m : slice[s] = ((s - 1) * size + 1 .. s * size) \cap (1..n)
      BY DEF Sliced
    <2>2. size \in Nat
      BY <2>1, Division
    <2>3. n + size - 1 \in Nat
      BY <2>1, <2>2
    <2>4. m \in Nat
      BY <2>1, <2>2, <2>3, Division
    <2>5. QED
      BY <2>1, <2>2, <2>4
  <1>1. size * count <= n /\ n < size * count + count
    BY <1>0, Division
  <1>2. m * size <= n + size - 1 /\ n + size - 1 < m * size + size
    <2>1. n + size - 1 \in Nat
      BY <1>0
    <2>2. QED
      BY <1>0, <2>1, Division
  <1>3. /\ m * size \in Nat /\ size * count \in Nat
        /\ n <= m * size /\ (m - 1) * size = m * size - size
    BY <1>0, <1>2
  <1>4. ASSUME NEW s \in 1..m PROVE slice[s] # {}
    <2>1. (s - 1) * size <= (m - 1) * size
      BY <1>0, TimesMonotone
    <2>2. (s - 1) * size \in Nat /\ s * size = (s - 1) * size + size
      BY <1>0
    <2> DEFINE x == (s - 1) * size
    <2>3. x + 1 \in 1..n /\ x + 1 \in (x + 1)..(s * size)
      BY <1>0, <1>2, <1>3, <2>1, <2>2
    <2>4. QED
      BY <1>0, <2>3
  <1>5. ASSUME NEW i \in 1..n PROVE \E s \in 1..m : i \in slice[s]
    <2> DEFINE q == (i - 1) \div size
    <2>1. q \in Nat /\ q * size <= i - 1 /\ i - 1 < q * size + size
      <3>1. i - 1 \in Nat
        BY <1>0
      <3>2. QED
        BY <1>0, <3>1, Division
    <2> HIDE DEF q
    <2>2. q * size \in Nat /\ (q + 1) * size = q * size + size /\ (q + 1) - 1 = q
      BY <1>0, <2>1
    <2>3. q * size < m * size
      BY <1>0, <1>3, <2>1, <2>2
    <2>4. q < m
      BY <1>0, <2>1, <2>3, TimesMonotone
    <2>5. i \in (q * size + 1) .. ((q + 1) * size)
      BY <1>0, <2>1, <2>2
    <2>6. q + 1 \in 1..m
      BY <1>0, <2>1, <2>4
    <2>7. slice[q + 1] = (q * size + 1 .. (q + 1) * size) \cap (1..n)
      <3>1. slice[q + 1] = (((q + 1) - 1) * size + 1 .. (q + 1) * size) \cap (1..n)
        BY <1>0, <2>6, Zenon
      <3>2. QED
        BY <1>0, <2>2, <3>1, Zenon
    <2>8. QED
      BY <1>0, <2>5, <2>6, <2>7
  <1>6. ASSUME NEW r \in 1..m, NEW s \in 1..m, r < s, NEW i \in slice[r], NEW j \in slice[s]
        PROVE  i < j
    <2>1. r * size <= (s - 1) * size
      BY <1>0, <1>6, TimesMonotone
    <2>2. i \in Nat /\ j \in Nat /\ i <= r * size /\ j >= (s - 1) * size + 1
      BY <1>0
    <2>3. r * size \in Int /\ (s - 1) * size \in Int
      BY <1>0
    <2>4. QED
      BY <1>0, <2>1, <2>2, <2>3
  <1>7. count <= m
    <2>1. count * size <= m * size
      BY <1>0, <1>1, <1>3
    <2>2. QED
      BY <1>0, <2>1, TimesMonotone
  <1>8. ASSUME NEW s \in 1..m, NEW i \in slice[s], NEW j \in slice[s]
        PROVE  (j - i) * count < n
    <2>1. i \in Nat /\ j \in Nat /\ (s - 1) * size + 1 <= i /\ j <= s * size
      BY <1>0
    <2>2. (s - 1) * size = s * size - size /\ s * size \in Int
      BY <1>0
    <2> DEFINE d == j - i
    <2>3. d \in Int /\ d <= size - 1
      BY <1>0, <2>1, <2>2
    <2> HIDE DEF d
    <2>4. d * count <= (size - 1) * count
      BY <1>0, <2>3, TimesMonotone
    <2>5. (size - 1) * count = size * count - count
      BY <1>0
    <2>6. PICK p \in Int : p = d * count
      BY <1>0, <2>3
    <2>7. PICK q \in Int : q = size * count
      BY <1>0
    <2>8. p <= q - count
      BY <2>4, <2>5, <2>6, <2>7
    <2>9. p < n
      <3>1. q <= n
        BY <1>1, <2>7
      <3>2. count \in Nat /\ count > 0 /\ n \in Nat
        BY <1>0
      <3>3. QED
        BY <2>8, <3>1, <3>2
    <2>10. QED
      BY <2>6, <2>9 DEF d
  <1>9. QED
    BY <1>4, <1>5, <1>6, <1>7, <1>8 DEF TakesApart

(* samples() keeps every peak of the curve in its neighbourhood and the    *)
(* order, and takes no fewer samples than asked for.                       *)
THEOREM PeakIsKept == ReportSpec => []SamplesKeepPeak
  <1>1. RInv => SamplesKeepPeak
    <2> SUFFICES ASSUME RInv, NEW count \in 1..MaxSamples
                 PROVE  LET ops == AllOps(count)
                        IN  /\ \A i \in Records : \E s \in DOMAIN ops :
                                  /\ Current[i] <= Current[ops[s]]
                                  /\ (ops[s] - i) * count < Len(log)
                                  /\ (i - ops[s]) * count < Len(log)
                            /\ \A r, s \in DOMAIN ops : r < s => ops[r] < ops[s]
                            /\ Len(log) >= count => Len(ops) >= count
      BY DEF SamplesKeepPeak
    <2> DEFINE n == Len(log)
               size == SliceSize(count)
               ops == AllOps(count)
    <2>1. HInv /\ n \in Nat /\ Records = 1..n
      BY NextFacts DEF RInv
    <2>2. count \in Nat /\ count > 0
      BY MaxSamplesAssumption
    <2>4. \A i \in Records : Current[i] \in Int
      BY <2>1, CurrentIsSum
    <2>5. size \in Nat /\ size = n \div count /\ n < size * count + count
      BY <2>1, <2>2, Division DEF SliceSize
    <2>6. CASE size = 0
      <3>1. ops = [i \in Records |-> i]
        BY <2>6 DEF AllOps
      <3>2. n < count
        BY <2>2, <2>5, <2>6
      <3>3. \A i \in Records : Current[i] <= Current[i] /\ (i - i) * count < n
        BY <2>1, <2>2, <2>4
      <3>4. QED
        BY <2>1, <2>2, <3>1, <3>2, <3>3
    <2>7. CASE size # 0
      <3> DEFINE m == (n + size - 1) \div size
                 slice == Slices(count)
      <3>1. m \in Nat /\ size > 0
        <4>1. n + size - 1 \in Nat /\ size > 0
          BY <2>1, <2>5, <2>7
        <4>2. QED
          BY <2>5, <4>1, Division
      <3>2. slice = [s \in 1..m |-> ((s - 1) * size + 1 .. s * size) \cap (1..n)]
        BY <2>1 DEF Slices
      <3>3. ops = [s \in 1..m |-> MaxBy(slice[s])]
        <4>1. ops = Samples(count)
          BY <2>2, <2>7 DEF AllOps
        <4>2. QED
          BY <3>2, <4>1 DEF Samples
      <3>4. TakesApart(n, count, m, slice)
        <4>1. Sliced(n, count, size, m, slice)
          BY <2>1, <2>2, <2>5, <3>1, <3>2 DEF Sliced
        <4> HIDE DEF m, n, size, slice
        <4>2. QED
          BY <4>1, SliceFacts
      <3>5. \A s \in 1..m : slice[s] \in SUBSET Records
        BY <2>1, <3>2
      <3> HIDE DEF slice, m, ops, n, size
      <3>6. \A s \in 1..m : /\ ops[s] \in slice[s] /\ ops[s] \in Records
                            /\ \A j \in slice[s] : Current[j] <= Current[ops[s]]
        BY <2>1, <3>3, <3>4, <3>5, MaxByFacts DEF TakesApart
      <3>7. ASSUME NEW i \in Records
            PROVE  \E s \in DOMAIN ops :
                      /\ Current[i] <= Current[ops[s]]
                      /\ (ops[s] - i) * count < n /\ (i - ops[s]) * count < n
        <4>1. PICK s \in 1..m : i \in slice[s]
          BY <2>1, <3>4 DEF TakesApart
        <4>2. /\ ops[s] \in slice[s] /\ Current[i] <= Current[ops[s]]
          BY <3>6, <4>1
        <4>3. (ops[s] - i) * count < n /\ (i - ops[s]) * count < n
          BY <3>4, <4>1, <4>2 DEF TakesApart
        <4>4. QED
          BY <3>3, <4>2, <4>3
      <3>8. \A r, s \in DOMAIN ops : r < s => ops[r] < ops[s]
        BY <3>3, <3>4, <3>6 DEF TakesApart
      <3>9. Len(ops) = m
        <4>1. ops \in Seq(Records) /\ DOMAIN ops = 1..m
          <5>1. ops \in [1..m -> Records]
            BY <3>3, <3>6
          <5>2. QED
            BY <3>1, <5>1
        <4>2. QED
          BY <3>1, <4>1
      <3>10. QED
        BY <2>1, <2>2, <3>1, <3>4, <3>7, <3>8, <3>9 DEF ops, n, TakesApart
    <2>8. QED
      BY <2>6, <2>7
  <1>2. QED
    BY <1>1, RInvHolds, PTL
=============================================================================
