------------------------- MODULE AllocHistoryProofs -------------------------
(***************************************************************************)
(* Theorems about AllocHistory: the chains of a log that is the history of *)
(* a heap are linear, and their loose ends are the leaks.                  *)
(***************************************************************************)
EXTENDS AllocHistory, TLAPS

Entries == [state : {"ALLOC", "FREE", "REALLOC"}, mem : Addrs \cup {NULL},
            realloc : Addrs \cup {NULL}, delta : Int, prev : Nat]

HistType ==
    /\ log \in Seq(Entries)
    /\ open \in [Addrs -> Nat]
    /\ bytes \in [Addrs -> Nat]

(***************************************************************************)
(* An address is open with the last record of its block, which nothing     *)
(* continues; a record that left a block behind and is not the last one of *)
(* an open address is continued.                                           *)
(***************************************************************************)
OpenInv ==
    /\ \A a \in Addrs : open[a] # 0 =>
          /\ open[a] \in DOMAIN log
          /\ log[open[a]].mem = a
          /\ log[open[a]].state # "FREE"
          /\ ~Continued(open[a])
    /\ \A i \in DOMAIN log :
          log[i].state # "FREE" => Continued(i) \/ (\E a \in Addrs : open[a] = i)
    /\ \A i \in DOMAIN log : log[i].state # "FREE" => log[i].mem \in Addrs

HInv == HistType /\ OpenInv /\ ChainsLinear

LEMMA InitHInv == HistInit => HInv
  <1> SUFFICES ASSUME HistInit PROVE HInv
    OBVIOUS
  <1>1. log = <<>> /\ DOMAIN log = {}
    BY DEF HistInit
  <1>2. HistType
    BY <1>1 DEF HistInit, HistType
  <1>3. OpenInv /\ ChainsLinear
    BY <1>1 DEF HistInit, OpenInv, ChainsLinear
  <1>4. QED
    BY <1>2, <1>3 DEF HInv

(***************************************************************************)
(* What appending one record does to the log: the records before it stay,  *)
(* and it continues its own predecessor only.                              *)
(***************************************************************************)
\* Continued(i)', also for an i that is not a constant.
ContinuedNext(i) == \E j \in DOMAIN log' : log'[j].prev = i

LEMMA AppendLog ==
    ASSUME HistType, NEW e \in Entries, log' = Append(log, e)
    PROVE  /\ log' \in Seq(Entries)
           /\ DOMAIN log = 1..Len(log) /\ DOMAIN log' = 1..Id
           /\ Id \in Nat /\ Id \notin DOMAIN log
           /\ log'[Id] = e
           /\ \A i \in DOMAIN log : i \in DOMAIN log' /\ log'[i] = log[i]
           /\ \A i \in DOMAIN log' : i = Id \/ i \in DOMAIN log
           /\ \A i : ContinuedNext(i) <=> Continued(i) \/ e.prev = i
  <1>1. /\ log' \in Seq(Entries)
        /\ DOMAIN log = 1..Len(log) /\ DOMAIN log' = 1..Id
        /\ Id \in Nat /\ Id \notin DOMAIN log
        /\ log'[Id] = e
        /\ \A i \in DOMAIN log : i \in DOMAIN log' /\ log'[i] = log[i]
        /\ \A i \in DOMAIN log' : i = Id \/ i \in DOMAIN log
    BY DEF HistType, Id
  <1>2. \A i : ContinuedNext(i) <=> Continued(i) \/ e.prev = i
    BY <1>1 DEF Continued, ContinuedNext
  <1>3. QED
    BY <1>1, <1>2

(***************************************************************************)
(* One record more.  It starts a chain (prev = 0) or continues the open    *)
(* chain of the block it releases, and becomes the open end of the block   *)
(* it leaves behind, if it leaves one.                                     *)
(***************************************************************************)
Continues(e) ==
    e.prev # 0 =>
        \E a \in Addrs : /\ open[a] # 0 /\ e.prev = open[a]
                         /\ a = IF e.state = "REALLOC" THEN e.realloc ELSE e.mem

Reopens(e) ==
    /\ e.state # "FREE" => e.mem \in Addrs
    /\ \A a \in Addrs :
          IF e.state # "FREE" /\ e.mem = a
          THEN open'[a] = Id /\ open[a] \in {0, e.prev}
          ELSE open'[a] = IF open[a] = e.prev THEN 0 ELSE open[a]

LEMMA RecordStep ==
    ASSUME HInv, NEW e \in Entries, log' = Append(log, e), Continues(e), Reopens(e)
    PROVE  OpenInv' /\ ChainsLinear'
  <1> USE DEF HInv
  <1>1. /\ DOMAIN log = 1..Len(log) /\ DOMAIN log' = 1..Id
        /\ Id \in Nat /\ Id \notin DOMAIN log
        /\ log'[Id] = e
        /\ \A i \in DOMAIN log : i \in DOMAIN log' /\ log'[i] = log[i]
        /\ \A i \in DOMAIN log' : i = Id \/ i \in DOMAIN log
        /\ \A i : ContinuedNext(i) <=> Continued(i) \/ e.prev = i
    BY AppendLog
  <1>2. e.prev # 0 =>
          /\ e.prev \in DOMAIN log /\ ~Continued(e.prev)
          /\ log[e.prev].state # "FREE"
          /\ log[e.prev].mem = IF e.state = "REALLOC" THEN e.realloc ELSE e.mem
    BY DEF Continues, OpenInv
  <1>3. ~ContinuedNext(Id)
    <2>1. \A i \in DOMAIN log : log[i].prev # Id
      <3> SUFFICES ASSUME NEW i \in DOMAIN log, log[i].prev = Id PROVE FALSE
        OBVIOUS
      <3>1. Id # 0 /\ Id \in 1..(i - 1) /\ i \in 1..Len(log)
        BY <1>1 DEF ChainsLinear, HistType, Id
      <3>2. QED
        BY <3>1 DEF HistType, Id
    <2>2. e.prev # Id
      BY <1>1, <1>2 DEF HistType, Id
    <2>3. QED
      BY <1>1, <2>1, <2>2 DEF Continued
  <1>4. OpenInv'
    <2>1. ASSUME NEW a \in Addrs, open'[a] # 0
          PROVE  /\ open'[a] \in DOMAIN log'
                 /\ log'[open'[a]].mem = a
                 /\ log'[open'[a]].state # "FREE"
                 /\ ~ContinuedNext(open'[a])
      <3>1. CASE e.state # "FREE" /\ e.mem = a
        BY <1>1, <1>3, <3>1 DEF Reopens
      <3>2. CASE ~(e.state # "FREE" /\ e.mem = a)
        <4>1. open'[a] = open[a] /\ open[a] # e.prev /\ open[a] # 0
          BY <2>1, <3>2 DEF Reopens
        <4>2. QED
          BY <1>1, <4>1 DEF OpenInv
      <3>3. QED
        BY <3>1, <3>2
    <2>2. ASSUME NEW i \in DOMAIN log', log'[i].state # "FREE"
          PROVE  ContinuedNext(i) \/ (\E a \in Addrs : open'[a] = i)
      <3>1. CASE i = Id
        BY <1>1, <2>2, <3>1 DEF Reopens
      <3>2. CASE i \in DOMAIN log /\ ~Continued(i) /\ e.prev # i
        <4>1. PICK a \in Addrs : open[a] = i
          BY <1>1, <2>2, <3>2 DEF OpenInv
        <4>2. i # 0
          BY <1>1, <3>2
        <4>3. open'[a] = i
          BY <3>2, <4>1, <4>2 DEF Reopens
        <4>4. QED
          BY <4>3
      <3>3. QED
        BY <1>1, <3>1, <3>2
    <2>3. \A i \in DOMAIN log' : log'[i].state # "FREE" => log'[i].mem \in Addrs
      BY <1>1 DEF OpenInv, Reopens
    <2>4. QED
      BY <2>1, <2>2, <2>3 DEF OpenInv, Continued, ContinuedNext
  <1>5. ChainsLinear'
    <2>1. ASSUME NEW i \in DOMAIN log', log'[i].prev # 0
          PROVE  /\ log'[i].prev \in 1..(i - 1)
                 /\ log'[log'[i].prev].state # "FREE"
                 /\ log'[log'[i].prev].mem
                       = IF log'[i].state = "REALLOC" THEN log'[i].realloc ELSE log'[i].mem
      <3>1. CASE i = Id
        <4>1. log'[i].prev \in DOMAIN log
          BY <1>1, <1>2, <2>1, <3>1
        <4>2. e.prev \in 1..(Id - 1)
          BY <1>1, <3>1, <4>1 DEF HistType, Id
        <4>3. QED
          BY <1>1, <1>2, <2>1, <3>1, <4>1, <4>2
      <3>2. CASE i \in DOMAIN log
        <4>1. /\ log'[i] = log[i]
              /\ log[i].prev \in 1..(i - 1)
          BY <1>1, <2>1, <3>2 DEF ChainsLinear
        <4>2. log[i].prev \in DOMAIN log
          BY <1>1, <3>2, <4>1 DEF HistType
        <4>3. QED
          BY <1>1, <2>1, <3>2, <4>1, <4>2 DEF ChainsLinear
      <3>3. QED
        BY <1>1, <3>1, <3>2
    <2>2. ASSUME NEW i \in DOMAIN log', log'[i].prev # 0,
                 NEW j \in DOMAIN log', log'[j].prev = log'[i].prev
          PROVE  j = i
      <3>1. CASE i \in DOMAIN log /\ j \in DOMAIN log
        BY <1>1, <2>2, <3>1 DEF ChainsLinear
      <3>2. CASE i = Id /\ j \in DOMAIN log
        BY <1>1, <1>2, <2>2, <3>2 DEF Continued
      <3>3. CASE j = Id /\ i \in DOMAIN log
        BY <1>1, <1>2, <2>2, <3>3 DEF Continued
      <3>4. QED
        BY <1>1, <3>1, <3>2, <3>3
    <2>3. QED
      BY <2>1, <2>2 DEF ChainsLinear
  <1>6. QED
    BY <1>4, <1>5

LEMMA NextHInv == HInv /\ [HistNext]_histVars => HInv'
  <1> SUFFICES ASSUME HInv, [HistNext]_histVars PROVE HInv'
    OBVIOUS
  <1> USE AddrAssumption, SizeAssumption DEF HInv
  <1>0. /\ Id \in Nat /\ Id # 0
        /\ \A a \in Addrs : open[a] \in Nat /\ bytes[a] \in Nat
        /\ \A a, b \in Addrs : open[a] = open[b] /\ open[a] # 0 => a = b
    BY DEF HistType, OpenInv, Id
  <1>1. ASSUME NEW a \in Addrs, NEW sz \in Sizes, LogAlloc(a, sz) PROVE HInv'
    <2> DEFINE e == Entry("ALLOC", a, NULL, sz, 0)
    <2>1. e \in Entries /\ log' = Append(log, e)
      BY <1>1 DEF LogAlloc, Entry, Entries
    <2>2. Continues(e)
      BY DEF Continues, Entry
    <2>3. Reopens(e)
      BY <1>0, <1>1 DEF Reopens, Entry, LogAlloc, HistType
    <2>4. HistType'
      BY <1>0, <1>1, <2>1, AppendLog DEF HistType, LogAlloc
    <2>5. QED
      BY <2>1, <2>2, <2>3, <2>4, RecordStep
  <1>2. ASSUME NEW a \in Addrs, LogFree(a) PROVE HInv'
    <2> DEFINE e == Entry("FREE", a, NULL, -bytes[a], open[a])
    <2>1. e \in Entries /\ log' = Append(log, e)
      BY <1>0, <1>2 DEF LogFree, Entry, Entries
    <2>2. Continues(e)
      BY <1>2 DEF Continues, Entry, LogFree
    <2>3. Reopens(e)
      BY <1>0, <1>2 DEF Reopens, Entry, LogFree, HistType
    <2>4. HistType'
      BY <1>0, <1>2, <2>1, AppendLog DEF HistType, LogFree
    <2>5. QED
      BY <2>1, <2>2, <2>3, <2>4, RecordStep
  <1>3. ASSUME LogFreeNull PROVE HInv'
    <2> DEFINE e == Entry("FREE", NULL, NULL, 0, 0)
    <2>1. e \in Entries /\ log' = Append(log, e)
      BY <1>3 DEF LogFreeNull, Entry, Entries
    <2>2. Continues(e)
      BY DEF Continues, Entry
    <2>3. Reopens(e)
      BY <1>0, <1>3 DEF Reopens, Entry, LogFreeNull
    <2>4. HistType'
      BY <1>3, <2>1, AppendLog DEF HistType, LogFreeNull
    <2>5. QED
      BY <2>1, <2>2, <2>3, <2>4, RecordStep
  <1>4. ASSUME NEW old \in Addrs, NEW new \in Addrs, NEW sz \in Sizes,
               LogRealloc(old, new, sz)
        PROVE  HInv'
    <2> DEFINE e == Entry("REALLOC", new, old, sz - bytes[old], open[old])
    <2>1. e \in Entries /\ log' = Append(log, e)
      BY <1>0, <1>4 DEF LogRealloc, Entry, Entries
    <2>2. Continues(e)
      BY <1>4 DEF Continues, Entry, LogRealloc
    <2>3. Reopens(e)
      BY <1>0, <1>4 DEF Reopens, Entry, LogRealloc, HistType
    <2>4. HistType'
      BY <1>0, <1>4, <2>1, AppendLog DEF HistType, LogRealloc
    <2>5. QED
      BY <2>1, <2>2, <2>3, <2>4, RecordStep
  <1>5. ASSUME UNCHANGED histVars PROVE HInv'
    BY <1>5 DEF histVars, HistType, OpenInv, ChainsLinear, Continued
  <1>6. QED
    BY <1>1, <1>2, <1>3, <1>4, <1>5 DEF HistNext

(* Linking the records of a log that is a history of a heap cannot fail:   *)
(* every record has at most one successor and one predecessor, and chains  *)
(* run forward (the assertions in build_chains()).                         *)
THEOREM ChainsAreLinear == HistSpec => []ChainsLinear
  <1>1. HInv => ChainsLinear
    BY DEF HInv
  <1>2. QED
    BY <1>1, InitHInv, NextHInv, PTL DEF HistSpec

(* A record without a successor that is not a FREE is a leaked block, and  *)
(* every leaked block has one such record.                                 *)
THEOREM LeaksAreLooseEnds == HistSpec => []LeaksAreOpen
  <1>1. HInv => LeaksAreOpen
    <2> SUFFICES ASSUME HInv PROVE LeaksAreOpen
      OBVIOUS
    <2>1. ASSUME NEW i \in DOMAIN log, NEW a \in Addrs, open[a] = i
          PROVE  log[i].state # "FREE" /\ ~Continued(i)
      <3>1. i # 0
        BY DEF HInv, HistType
      <3>2. QED
        BY <2>1, <3>1 DEF HInv, OpenInv
    <2>2. \A a, b \in Addrs : open[a] = open[b] /\ open[a] # 0 => a = b
      BY DEF HInv, OpenInv
    <2>3. QED
      BY <2>1, <2>2 DEF HInv, OpenInv, LeaksAreOpen
  <1>2. QED
    BY <1>1, InitHInv, NextHInv, PTL DEF HistSpec

(***************************************************************************)
(* The replay.  Loose(l, k): the last records of the blocks after the      *)
(* first k records of l.  Whoever has linked the first k - 1 records finds *)
(* the one that record k continues among the loose ones, and its address   *)
(* only there.                                                             *)
(***************************************************************************)
Loose(l, k) == {i \in 1..k : l[i].state # "FREE" /\ \A j \in 1..k : l[j].prev # i}

Replays(l, k) ==
    LET e == l[k]
        last == Loose(l, k - 1)
    IN  /\ e.state = "ALLOC" => e.prev = 0 /\ \A i \in last : l[i].mem # e.mem
        /\ e.state = "FREE" /\ e.mem = NULL => e.prev = 0
        /\ e.state = "FREE" /\ e.mem # NULL => e.prev \in last /\ l[e.prev].mem = e.mem
        /\ e.state = "REALLOC" =>
              /\ e.prev \in last /\ l[e.prev].mem = e.realloc
              /\ \A i \in last \ {e.prev} : l[i].mem # e.mem
        /\ \A i, j \in last : l[i].mem = l[j].mem => i = j

ReplayInv == \A k \in DOMAIN log : Replays(log, k)

\* What the actions of HistNext say of the record they append.
Legal(e) ==
    /\ e.state = "ALLOC" => e.prev = 0 /\ e.mem \in Addrs /\ open[e.mem] = 0
    /\ e.state = "FREE" /\ e.mem = NULL => e.prev = 0
    /\ e.state = "FREE" /\ e.mem # NULL =>
          e.mem \in Addrs /\ open[e.mem] # 0 /\ e.prev = open[e.mem]
    /\ e.state = "REALLOC" =>
          /\ e.mem \in Addrs /\ e.realloc \in Addrs
          /\ open[e.realloc] # 0 /\ e.prev = open[e.realloc]
          /\ e.mem # e.realloc => open[e.mem] = 0

LEMMA LooseIsOpen ==
    ASSUME HInv
    PROVE  /\ \A i \in Loose(log, Len(log)) : log[i].mem \in Addrs /\ open[log[i].mem] = i
           /\ \A a \in Addrs : open[a] # 0 =>
                 open[a] \in Loose(log, Len(log)) /\ log[open[a]].mem = a
  <1>1. DOMAIN log = 1..Len(log)
    BY DEF HInv, HistType
  <1>2. \A i : i \in Loose(log, Len(log))
                  <=> i \in DOMAIN log /\ log[i].state # "FREE" /\ ~Continued(i)
    BY <1>1 DEF Loose, Continued
  <1>3. ASSUME NEW i \in DOMAIN log, log[i].state # "FREE", ~Continued(i)
        PROVE  log[i].mem \in Addrs /\ open[log[i].mem] = i
    <2>1. PICK a \in Addrs : open[a] = i
      BY <1>3 DEF HInv, OpenInv
    <2>2. i # 0
      BY <1>1
    <2>3. log[i].mem = a
      BY <2>1, <2>2 DEF HInv, OpenInv
    <2>4. QED
      BY <2>1, <2>3
  <1>4. QED
    BY <1>2, <1>3 DEF HInv, OpenInv

LEMMA ReplayStep ==
    ASSUME HInv, ReplayInv, NEW e \in Entries, log' = Append(log, e), Legal(e)
    PROVE  ReplayInv'
  <1>1. /\ DOMAIN log = 1..Len(log) /\ DOMAIN log' = 1..Id
        /\ Id \in Nat /\ Id - 1 = Len(log) /\ Len(log) \in Nat
        /\ log'[Id] = e
        /\ \A i \in DOMAIN log : i \in DOMAIN log' /\ log'[i] = log[i]
        /\ \A i \in DOMAIN log' : i = Id \/ i \in DOMAIN log
    BY AppendLog DEF HInv, HistType, Id
  <1>2. ASSUME NEW k \in 0..Len(log)
        PROVE  /\ Loose(log', k) = Loose(log, k)
               /\ \A i \in Loose(log, k) : log'[i] = log[i]
    <2>1. \A j \in 1..k : j \in DOMAIN log
      BY <1>1
    <2>2. QED
      BY <1>1, <2>1 DEF Loose
  <1>3. ASSUME NEW k \in DOMAIN log PROVE Replays(log', k)
    <2>1. k - 1 \in 0..Len(log) /\ log'[k] = log[k]
      BY <1>1
    <2> DEFINE last == Loose(log, k - 1)
    <2>2. last = Loose(log', k - 1) /\ \A i \in last : log'[i] = log[i]
      BY <1>2, <2>1
    <2>3. Replays(log, k)
      BY DEF ReplayInv
    <2> DEFINE r == log[k]
               Fits(l) ==
                  /\ r.state = "ALLOC" => r.prev = 0 /\ \A i \in last : l[i].mem # r.mem
                  /\ r.state = "FREE" /\ r.mem = NULL => r.prev = 0
                  /\ r.state = "FREE" /\ r.mem # NULL =>
                        r.prev \in last /\ l[r.prev].mem = r.mem
                  /\ r.state = "REALLOC" =>
                        /\ r.prev \in last /\ l[r.prev].mem = r.realloc
                        /\ \A i \in last \ {r.prev} : l[i].mem # r.mem
                  /\ \A i, j \in last : l[i].mem = l[j].mem => i = j
    <2>4. Fits(log)
      BY <2>3 DEF Replays
    <2>5. Fits(log') = Replays(log', k)
      BY <2>1, <2>2 DEF Replays
    <2>6. Fits(log')
      <3>1. \A i \in last : log'[i] = log[i]
        BY <2>2
      <3> HIDE DEF last, r
      <3>2. /\ r.state = "FREE" /\ r.mem # NULL => r.prev \in last /\ log'[r.prev].mem = r.mem
            /\ r.state = "REALLOC" => r.prev \in last /\ log'[r.prev].mem = r.realloc
        BY <2>4, <3>1
      <3>3. /\ r.state = "ALLOC" => r.prev = 0 /\ \A i \in last : log'[i].mem # r.mem
            /\ r.state = "REALLOC" => \A i \in last \ {r.prev} : log'[i].mem # r.mem
        BY <2>4, <3>1
      <3>4. \A i, j \in last : log'[i].mem = log'[j].mem => i = j
        BY <2>4, <3>1
      <3>5. QED
        BY <2>4, <3>2, <3>3, <3>4
    <2>7. QED
      BY <2>5, <2>6
  <1>4. Replays(log', Id)
    <2> DEFINE last == Loose(log', Id - 1)
    <2>1. Len(log) \in 0..Len(log) /\ Id - 1 = Len(log)
      BY <1>1
    <2>2. last = Loose(log, Len(log)) /\ \A i \in Loose(log, Len(log)) : log'[i] = log[i]
      BY <1>2, <2>1
    <2>3. last \subseteq 1..Len(log)
      BY <2>2 DEF Loose
    <2> HIDE DEF last
    <2>4. \A i \in last : i # 0 /\ log'[i].mem \in Addrs /\ open[log'[i].mem] = i
      BY <1>1, <2>2, <2>3, LooseIsOpen
    <2>5. \A a \in Addrs : open[a] # 0 => open[a] \in last /\ log'[open[a]].mem = a
      BY <2>2, LooseIsOpen
    <2>6. e.state = "ALLOC" => e.prev = 0 /\ \A i \in last : log'[i].mem # e.mem
      BY <2>4 DEF Legal
    <2>7. /\ e.state = "FREE" /\ e.mem = NULL => e.prev = 0
          /\ e.state = "FREE" /\ e.mem # NULL => e.prev \in last /\ log'[e.prev].mem = e.mem
      BY <2>5 DEF Legal
    <2>8. e.state = "REALLOC" =>
             /\ e.prev \in last /\ log'[e.prev].mem = e.realloc
             /\ \A i \in last \ {e.prev} : log'[i].mem # e.mem
      <3> SUFFICES ASSUME e.state = "REALLOC"
                   PROVE  /\ e.prev \in last /\ log'[e.prev].mem = e.realloc
                          /\ \A i \in last \ {e.prev} : log'[i].mem # e.mem
        OBVIOUS
      <3>1. /\ e.mem \in Addrs /\ e.realloc \in Addrs
            /\ open[e.realloc] # 0 /\ e.prev = open[e.realloc]
            /\ e.mem # e.realloc => open[e.mem] = 0
        BY DEF Legal
      <3>2. e.prev \in last /\ log'[e.prev].mem = e.realloc
        BY <2>5, <3>1
      <3>3. ASSUME NEW i \in last, log'[i].mem = e.mem PROVE i = e.prev
        <4>1. open[e.mem] = i /\ i # 0
          BY <2>4, <3>3
        <4>2. QED
          BY <3>1, <4>1
      <3>4. QED
        BY <3>2, <3>3
    <2>9. \A i, j \in last : log'[i].mem = log'[j].mem => i = j
      BY <2>4
    <2>10. log'[Id] = e
      BY <1>1
    <2> HIDE DEF Id
    <2>11. QED
      BY <2>6, <2>7, <2>8, <2>9, <2>10 DEF Replays, last
  <1>5. QED
    BY <1>1, <1>3, <1>4 DEF ReplayInv

LEMMA NextReplay == HInv /\ ReplayInv /\ [HistNext]_histVars => ReplayInv'
  <1> SUFFICES ASSUME HInv, ReplayInv, [HistNext]_histVars PROVE ReplayInv'
    OBVIOUS
  <1>0. /\ \A a \in Addrs : open[a] \in Nat /\ bytes[a] \in Nat
        /\ AddrAssumption /\ SizeAssumption
    BY AddrAssumption, SizeAssumption DEF HInv, HistType
  <1>1. ASSUME NEW a \in Addrs, NEW sz \in Sizes, LogAlloc(a, sz) PROVE ReplayInv'
    <2> DEFINE e == Entry("ALLOC", a, NULL, sz, 0)
    <2>1. e \in Entries /\ log' = Append(log, e) /\ Legal(e)
      BY <1>0, <1>1, AddrAssumption, SizeAssumption DEF LogAlloc, Entry, Entries, Legal
    <2>2. QED
      BY <2>1, ReplayStep
  <1>2. ASSUME NEW a \in Addrs, LogFree(a) PROVE ReplayInv'
    <2> DEFINE e == Entry("FREE", a, NULL, -bytes[a], open[a])
    <2>1. e \in Entries /\ log' = Append(log, e) /\ Legal(e)
      BY <1>0, <1>2, AddrAssumption DEF LogFree, Entry, Entries, Legal
    <2>2. QED
      BY <2>1, ReplayStep
  <1>3. ASSUME LogFreeNull PROVE ReplayInv'
    <2> DEFINE e == Entry("FREE", NULL, NULL, 0, 0)
    <2>1. e \in Entries /\ log' = Append(log, e) /\ Legal(e)
      BY <1>3 DEF LogFreeNull, Entry, Entries, Legal
    <2>2. QED
      BY <2>1, ReplayStep
  <1>4. ASSUME NEW old \in Addrs, NEW new \in Addrs, NEW sz \in Sizes,
               LogRealloc(old, new, sz)
        PROVE  ReplayInv'
    <2> DEFINE e == Entry("REALLOC", new, old, sz - bytes[old], open[old])
    <2>1. e \in Entries /\ log' = Append(log, e) /\ Legal(e)
      BY <1>0, <1>4, SizeAssumption DEF LogRealloc, Entry, Entries, Legal
    <2>2. QED
      BY <2>1, ReplayStep
  <1>5. ASSUME UNCHANGED histVars PROVE ReplayInv'
    BY <1>5 DEF histVars, ReplayInv
  <1>6. QED
    BY <1>1, <1>2, <1>3, <1>4, <1>5 DEF HistNext

(* A log that is the history of a heap can be replayed record by record:   *)
(* the address an ALLOC or a REALLOC brings in has no loose record, and    *)
(* the address a FREE or a REALLOC takes away has one, the record that it  *)
(* continues (the cases in which build_chains() gives up do not occur).    *)
THEOREM HistoryReplays == HistSpec => []ReplayInv
  <1>1. HistInit => ReplayInv
    BY DEF HistInit, ReplayInv
  <1>2. HInv /\ ReplayInv /\ [HistNext]_histVars => (HInv /\ ReplayInv)'
    BY NextHInv, NextReplay
  <1>3. QED
    BY <1>1, <1>2, InitHInv, PTL DEF HistSpec
=============================================================================
