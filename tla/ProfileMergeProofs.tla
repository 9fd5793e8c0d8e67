------------------------- MODULE ProfileMergeProofs -------------------------
(***************************************************************************)
(* Theorems about ProfileMerge, for every number of profiles, of records   *)
(* and of call stacks: the merge of the stack sets loses no stack and no   *)
(* record, and where all ids are distinct the reader finds every stack.    *)
(***************************************************************************)
EXTENDS ProfileMerge, FiniteSetTheorems, TLAPS

-----------------------------------------------------------------------------
(* Records of a stack.                                                     *)

IsOf(rec, s) == rec.stack = s /\ rec.sid # 0

Weight(rec, s) == IF IsOf(rec, s) THEN 1 ELSE 0

Places(records, s) == {i \in DOMAIN records : IsOf(records[i], s)}

LEMMA InstancesArePlaces ==
  ASSUME NEW records, NEW s
  PROVE  Instances(records, s) = Cardinality(Places(records, s))
BY DEF Instances, Places, IsOf

(* The number of records of a stack is a number, and not zero just when    *)
(* there is one.                                                           *)
LEMMA InstancesType ==
  ASSUME NEW records \in Seq(RecordsOf), NEW s
  PROVE  /\ IsFiniteSet(Places(records, s))
         /\ Instances(records, s) \in Nat
         /\ Instances(records, s) > 0 <=> \E i \in DOMAIN records : IsOf(records[i], s)
<1>1. IsFiniteSet(1..Len(records))
  BY FS_Interval
<1>2. Places(records, s) \in SUBSET (1..Len(records))
  BY DEF Places
<1>3. IsFiniteSet(Places(records, s))
  BY <1>1, <1>2, FS_Subset
<1>4. Cardinality(Places(records, s)) \in Nat
  BY <1>3, FS_CardinalityType
<1>5. Cardinality(Places(records, s)) = 0 <=> Places(records, s) = {}
  BY <1>3, FS_EmptySet
<1>6. QED
  BY <1>3, <1>4, <1>5, InstancesArePlaces DEF Places

LEMMA InstancesEmpty ==
  ASSUME NEW s
  PROVE  Instances(<<>>, s) = 0
<1>1. Places(<<>>, s) = {}
  BY DEF Places
<1>2. QED
  BY <1>1, FS_EmptySet, InstancesArePlaces

LEMMA InstancesAppend ==
  ASSUME NEW records \in Seq(RecordsOf), NEW rec \in RecordsOf, NEW s
  PROVE  Instances(Append(records, rec), s) = Instances(records, s) + Weight(rec, s)
<1> DEFINE n == Len(records) + 1
           more == Append(records, rec)
<1>1. n \in Nat /\ n \notin Places(records, s)
  BY DEF Places
<1>2. /\ DOMAIN more = DOMAIN records \cup {n}
      /\ more[n] = rec
      /\ \A i \in DOMAIN records : more[i] = records[i]
  OBVIOUS
<1>3. Places(more, s) =
        IF IsOf(rec, s) THEN Places(records, s) \cup {n} ELSE Places(records, s)
  <2> HIDE DEF more, n
  <2> QED  BY <1>2 DEF Places
<1>4. Cardinality(Places(more, s)) = Cardinality(Places(records, s)) + Weight(rec, s)
  <2> HIDE DEF more, n
  <2>1. CASE IsOf(rec, s)
    BY <2>1, <1>1, <1>3, InstancesType, FS_AddElement DEF Weight
  <2>2. CASE ~IsOf(rec, s)
    BY <2>2, <1>3, InstancesType, InstancesArePlaces DEF Weight
  <2> QED  BY <2>1, <2>2
<1>5. QED
  BY <1>4, InstancesArePlaces

LEMMA InstancesTail ==
  ASSUME NEW records \in Seq(RecordsOf), NEW s, records # <<>>
  PROVE  Instances(records, s) = Instances(Tail(records), s) + Weight(Head(records), s)
<1> DEFINE rest == Tail(records)
           later == Places(records, s) \ {1}
           shift == [i \in Places(rest, s) |-> i + 1]
<1>1. /\ rest \in Seq(RecordsOf)
      /\ DOMAIN records = 1..Len(records) /\ Len(records) \in Nat \ {0}
      /\ DOMAIN rest = 1..(Len(records) - 1)
      /\ \A i \in DOMAIN rest : rest[i] = records[i + 1]
      /\ records[1] = Head(records)
  OBVIOUS
<1> HIDE DEF rest
<1>2. shift \in Bijection(Places(rest, s), later)
  <2>1. shift \in [Places(rest, s) -> later]
    BY <1>1 DEF Places
  <2>2. \A i, j \in Places(rest, s) : shift[i] = shift[j] => i = j
    BY <1>1 DEF Places
  <2>3. \A k \in later : \E i \in Places(rest, s) : shift[i] = k
    <3> SUFFICES ASSUME NEW k \in later PROVE \E i \in Places(rest, s) : shift[i] = k
      OBVIOUS
    <3>1. k - 1 \in Places(rest, s) /\ shift[k - 1] = k
      BY <1>1 DEF Places
    <3> QED  BY <3>1
  <2> QED  BY <2>1, <2>2, <2>3 DEF Bijection, Injection, Surjection, IsInjective
<1>3. IsFiniteSet(Places(rest, s))
  BY <1>1, InstancesType
<1>4. Cardinality(later) = Cardinality(Places(rest, s))
  BY <1>2, <1>3, FS_Bijection DEF ExistsBijection
<1>5. Cardinality(later) =
        IF 1 \in Places(records, s) THEN Cardinality(Places(records, s)) - 1
                                    ELSE Cardinality(Places(records, s))
  BY InstancesType, FS_RemoveElement
<1>6. 1 \in Places(records, s) <=> IsOf(Head(records), s)
  BY <1>1 DEF Places
<1>7. Cardinality(Places(records, s)) \in Nat
  BY InstancesType, InstancesArePlaces
<1>8. Cardinality(Places(records, s))
      = Cardinality(Places(rest, s)) + Weight(Head(records), s)
  BY <1>4, <1>5, <1>6, <1>7 DEF Weight
<1>9. QED
  BY <1>8, InstancesArePlaces DEF rest

-----------------------------------------------------------------------------
(* The inductive invariant.                                                *)

\* One stack set.  The tree ordered by id holds stacks the other tree holds,
\* with distinct ids; in a set nothing was merged into, it holds all of them,
\* and their ids come from stset_id.
SetOK(set) ==
    /\ \A s \in set.byId : Has(set, s)
    /\ \A r, s \in set.byId : set.id[r] = set.id[s] => r = s
    /\ set.next > 0

Unmerged(set) ==
    \A s \in AllStacks : Has(set, s) => s \in set.byId /\ set.id[s] < set.next

\* A record with a stack, in the list of the profile or drained to the sorter.
Refers(set, rec) == rec.sid # 0 => rec.stack \in set.byId /\ set.id[rec.stack] = rec.sid
Keeps(set, rec) == rec.sid # 0 => Has(set, rec.stack) /\ set.id[rec.stack] = rec.sid

\* The records that count towards the stacks of profile p.
Counted(p, s) ==
    Instances(list[p], s) + (IF p = Master THEN Instances(drained, s) ELSE 0)

SetsInv ==
    /\ \A p \in Profiles : SetOK(stset[p])
    /\ \A p \in Profiles : p >= cur => Unmerged(stset[p])

RecordsInv ==
    /\ \A p \in Profiles : \A i \in DOMAIN list[p] : Refers(stset[p], list[p][i])
    /\ \A i \in DOMAIN drained : Keeps(stset[Master], drained[i])

\* Until a profile is drained its counts are exact.
Exact(p, s) ==
    /\ stset[p].count[s] = Counted(p, s)
    /\ Has(stset[p], s) <=> Counted(p, s) > 0

\* The counts of the master take over those of copies, and are not lowered.
Ample(s) ==
    /\ Has(stset[Master], s) => Instances(drained, s) > 0
    /\ stset[Master].count[s] >= Instances(drained, s)

CountsInv ==
    /\ \A p \in Profiles : p >= cur => \A s \in AllStacks : Exact(p, s)
    /\ cur # Master => \A s \in AllStacks : Ample(s)

PhaseInv ==
    /\ phase = "record" => cur = Master /\ drained = <<>>
    /\ phase = "done" => cur > NumProfiles
    /\ \A p \in Profiles : p < cur =>
          /\ list[p] = <<>>
          /\ p # Master => stset[p] = EmptySet

MInv == TypeOK /\ SetsInv /\ RecordsInv /\ CountsInv /\ PhaseInv

-----------------------------------------------------------------------------
(* The operations on a set, stack by stack.                                *)

SameElsewhere(set, new, s) ==
    \A r \in AllStacks \ {s} :
       /\ new.id[r] = set.id[r]
       /\ new.count[r] = set.count[r]
       /\ r \in new.byId <=> r \in set.byId

\* The set gains a record of s, which gets the id x: that of s where the set
\* has s, otherwise the wanted id or the next one.
Gains(set, new, s, wanted, x) ==
    /\ new \in StackSets
    /\ SameElsewhere(set, new, s)
    /\ x \in Nat \ {0}
    /\ new.id[s] = x
    /\ \/ /\ Has(set, s) /\ x = set.id[s]
          /\ new.count[s] = set.count[s] + 1
          /\ s \in new.byId <=> s \in set.byId
          /\ new.next = set.next
       \/ /\ ~Has(set, s)
          /\ new.count[s] > 0
          /\ s \in new.byId <=> ~IdTaken(set, x)
          /\ \/ x = wanted /\ ~IdTaken(set, x) /\ new.next = set.next
             \/ x = set.next /\ new.next = set.next + 1

\* The set gives up a record of s, and s with its last record.
Loses(set, new, s) ==
    /\ new \in StackSets
    /\ SameElsewhere(set, new, s)
    /\ new.next = set.next
    /\ new.count[s] = set.count[s] - 1
    /\ \/ new.count[s] = 0 /\ ~Has(new, s) /\ s \notin new.byId
       \/ /\ new.count[s] > 0 /\ new.id[s] = set.id[s]
          /\ s \in new.byId <=> s \in set.byId

LEMMA CountUpFields ==
  ASSUME NEW set \in StackSets, NEW s \in AllStacks
  PROVE  LET new == CountUp(set, s)
         IN  /\ new.id = set.id /\ new.byId = set.byId /\ new.next = set.next
             /\ new.count = [set.count EXCEPT ![s] = @ + 1]
             /\ new \in StackSets
             /\ [new.count EXCEPT ![s] = @ - 1] = set.count
<1> DEFINE new == CountUp(set, s)
<1>1. /\ new.id = set.id /\ new.byId = set.byId /\ new.next = set.next
      /\ new.count = [set.count EXCEPT ![s] = @ + 1]
  BY DEF CountUp, StackSets
<1>2. new \in StackSets
  BY DEF CountUp, StackSets
<1>3. ASSUME NEW f \in [AllStacks -> Nat]
      PROVE  [[f EXCEPT ![s] = @ + 1] EXCEPT ![s] = @ - 1] = f
  <2> DEFINE g == [[f EXCEPT ![s] = @ + 1] EXCEPT ![s] = @ - 1]
  <2>1. g \in [AllStacks -> Int] /\ f \in [AllStacks -> Int]
    BY <1>3
  <2>2. \A r \in AllStacks : g[r] = f[r]
    BY <1>3
  <2> HIDE DEF g
  <2>3. g = f
    BY <2>1, <2>2
  <2> QED  BY <2>3 DEF g
<1>4. [new.count EXCEPT ![s] = @ - 1] = set.count
  <2>1. set.count \in [AllStacks -> Nat]
    BY DEF StackSets
  <2> HIDE DEF new
  <2>2. new.count = [set.count EXCEPT ![s] = @ + 1]
    BY <1>1
  <2>3. [[set.count EXCEPT ![s] = @ + 1] EXCEPT ![s] = @ - 1] = set.count
    BY <1>3, <2>1
  <2> QED  BY <2>2, <2>3
<1>5. QED
  BY <1>1, <1>2, <1>4

LEMMA CountUpGains ==
  ASSUME NEW set \in StackSets, NEW s \in AllStacks, NEW wanted, Has(set, s)
  PROVE  Gains(set, CountUp(set, s), s, wanted, set.id[s])
BY DEF StackSets, Has, CountUp, Gains, SameElsewhere

LEMMA AddCopyGains ==
  ASSUME NEW set \in StackSets, NEW s \in AllStacks, NEW wanted, SetOK(set), ~Has(set, s),
         NEW count \in Nat \ {0}
  PROVE  /\ Gains(set, AddCopy(set, s, count), s, wanted, set.next)
         /\ AddCopy(set, s, count).count[s] = count
<1> DEFINE new == AddCopy(set, s, count)
<1>1. /\ set.next \in Nat \ {0}
      /\ s \notin set.byId
  BY DEF SetOK, StackSets
<1>2. /\ new.id = [set.id EXCEPT ![s] = set.next]
      /\ new.count = [set.count EXCEPT ![s] = count]
      /\ new.byId = (IF IdTaken(set, set.next) THEN set.byId ELSE set.byId \cup {s})
      /\ new.next = set.next + 1
      /\ new \in StackSets
  BY <1>1 DEF AddCopy, StackSets
<1>3. new.id[s] = set.next /\ new.count[s] = count
  <2> HIDE DEF new
  <2> QED  BY <1>2 DEF StackSets
<1>4. SameElsewhere(set, new, s)
  <2> HIDE DEF new
  <2> QED  BY <1>2 DEF StackSets, SameElsewhere
<1>5. s \in new.byId <=> ~IdTaken(set, set.next)
  <2> HIDE DEF new
  <2> QED  BY <1>1, <1>2
<1>6. QED
  <2> HIDE DEF new
  <2>1. Gains(set, new, s, wanted, set.next)
    BY <1>1, <1>2, <1>3, <1>4, <1>5 DEF Gains
  <2> QED  BY <2>1, <1>3 DEF new

LEMMA InsertFields ==
  ASSUME NEW set \in StackSets, NEW s \in AllStacks, NEW id \in Nat
  PROVE  LET new == Insert(set, s, id)
         IN  /\ new.id = [set.id EXCEPT ![s] = id]
             /\ new.count = [set.count EXCEPT ![s] = 1]
             /\ new.byId = set.byId \cup {s}
             /\ new.next = set.next
             /\ new \in StackSets
BY DEF Insert, StackSets

LEMMA InsertGains ==
  ASSUME NEW set \in StackSets, NEW s \in AllStacks, SetOK(set), ~Has(set, s),
         NEW id \in Nat \ {0}, ~IdTaken(set, id)
  PROVE  /\ Gains(set, Insert(set, s, id), s, id, id)
         /\ id = set.next => \A wanted :
              Gains(set, [Insert(set, s, id) EXCEPT !.next = @ + 1], s, wanted, id)
<1>1. s \notin set.byId
  BY DEF SetOK
<1>2. ASSUME NEW new \in StackSets,
             new.id = [set.id EXCEPT ![s] = id],
             new.count = [set.count EXCEPT ![s] = 1],
             new.byId = set.byId \cup {s}
      PROVE  /\ SameElsewhere(set, new, s)
             /\ new.id[s] = id
             /\ new.count[s] > 0
             /\ s \in new.byId
  BY <1>2 DEF StackSets, SameElsewhere
<1>3. Gains(set, Insert(set, s, id), s, id, id)
  BY <1>2, InsertFields DEF Gains
<1>4. ASSUME id = set.next, NEW wanted
      PROVE  Gains(set, [Insert(set, s, id) EXCEPT !.next = @ + 1], s, wanted, id)
  <2> DEFINE in == Insert(set, s, id)
             new == [in EXCEPT !.next = @ + 1]
  <2>1. in \in StackSets /\ in.next = set.next
    <3>1. id \in Nat
      OBVIOUS
    <3>2. Insert(set, s, id).next = set.next /\ Insert(set, s, id) \in StackSets
      BY ONLY <3>1, set \in StackSets, s \in AllStacks DEF Insert, StackSets
    <3> QED  BY ONLY <3>2 DEF in
  <2>2. /\ new.id = in.id /\ new.count = in.count /\ new.byId = in.byId
        /\ new.next = in.next + 1
        /\ new \in StackSets
    <3> HIDE DEF in
    <3> QED  BY <2>1 DEF StackSets
  <2>3. /\ new.id = [set.id EXCEPT ![s] = id]
        /\ new.count = [set.count EXCEPT ![s] = 1]
        /\ new.byId = set.byId \cup {s}
    <3> HIDE DEF new
    <3> QED  BY <2>2, InsertFields
  <2>4. Gains(set, new, s, wanted, id)
    <3> HIDE DEF new, in
    <3> QED  BY <1>2, <1>4, <2>1, <2>2, <2>3 DEF Gains
  <2> QED  BY <2>4
<1>5. QED
  BY <1>3, <1>4

LEMMA RemoveLoses ==
  ASSUME NEW set \in StackSets, NEW s \in AllStacks, set.count[s] = 1
  PROVE  /\ Loses(set, Remove(set, s), s)
         /\ Remove(set, s).id = [set.id EXCEPT ![s] = 0]
         /\ Remove(set, s).count = [set.count EXCEPT ![s] = 0]
         /\ Remove(set, s).byId = set.byId \ {s}
<1> DEFINE new == Remove(set, s)
<1>1. /\ new.id = [set.id EXCEPT ![s] = 0]
      /\ new.count = [set.count EXCEPT ![s] = 0]
      /\ new.byId = set.byId \ {s}
      /\ new.next = set.next
      /\ new \in StackSets
  BY DEF Remove, StackSets
<1>2. Loses(set, new, s)
  <2> HIDE DEF new
  <2> QED  BY <1>1 DEF Loses, StackSets, SameElsewhere, Has
<1>3. QED
  BY <1>1, <1>2

LEMMA CountDownLoses ==
  ASSUME NEW set \in StackSets, NEW s \in AllStacks, set.count[s] > 1
  PROVE  Loses(set, CountDown(set, s), s)
BY DEF Loses, CountDown, StackSets, SameElsewhere

-----------------------------------------------------------------------------
(* The steps, by what they do to the sets.                                 *)

Recorded(p, s, x) ==
    /\ phase = "record"
    /\ stset' \in [Profiles -> StackSets]
    /\ Gains(stset[p], stset'[p], s, 0, x)
    /\ stset'[p].count[s] = stset[p].count[s] + 1
    /\ \A q \in Profiles \ {p} : stset'[q] = stset[q]
    /\ list' = [list EXCEPT ![p] = Append(@, Rec(s, x))]
    /\ UNCHANGED <<hasSet, phase, cur, drained>>

Unrecorded(p, s) ==
    /\ phase = "record"
    /\ list' = [list EXCEPT ![p] = Append(@, Rec(s, 0))]
    /\ UNCHANGED <<hasSet, stset, phase, cur, drained>>

\* A record without a stack, or one of the master.
Settled ==
    /\ AtRecord
    /\ Head(list[cur]).sid # 0 => cur = Master
    /\ Drain(Head(list[cur]).sid)
    /\ UNCHANGED stset

Moved(s, sid, x) ==
    /\ AtRecord
    /\ cur # Master
    /\ Head(list[cur]) = Rec(s, sid) /\ sid # 0
    /\ stset' \in [Profiles -> StackSets]
    /\ Loses(stset[cur], stset'[cur], s)
    /\ Gains(stset[Master], stset'[Master], s, sid, x)
    /\ \A q \in Profiles \ {Master, cur} : stset'[q] = stset[q]
    /\ Drain(x)

Turned ==
    /\ phase' \in {"merge", "done", "aborted"}
    /\ phase' = "done" => cur > NumProfiles
    /\ UNCHANGED <<hasSet, stset, list, cur, drained>>

\* The record at hand: its stack is in the set of its profile, under its id.
LEMMA AtHand ==
  ASSUME MInv, AtRecord
  PROVE  LET rec == Head(list[cur])
         IN  /\ cur \in Profiles /\ Master \in Profiles
             /\ rec \in RecordsOf
             /\ rec = Rec(rec.stack, rec.sid)
             /\ rec = list[cur][1] /\ 1 \in DOMAIN list[cur]
             /\ Refers(stset[cur], rec)
<1>1. cur \in Profiles /\ Master \in Profiles /\ list[cur] # <<>>
  BY BoundsAssumption DEF AtRecord, Profiles, Master
<1>2. list[cur] \in Seq(RecordsOf)
  BY <1>1 DEF MInv, TypeOK
<1>3. /\ Head(list[cur]) \in RecordsOf
      /\ Head(list[cur]) = list[cur][1] /\ 1 \in DOMAIN list[cur]
  BY <1>1, <1>2
<1>4. Head(list[cur]) = Rec(Head(list[cur]).stack, Head(list[cur]).sid)
  BY <1>3 DEF Rec, RecordsOf
<1>5. Refers(stset[cur], Head(list[cur]))
  BY <1>1, <1>3 DEF MInv, RecordsInv
<1>6. QED
  BY <1>1, <1>3, <1>4, <1>5

\* Its stack is the one the id tree knows under its id, and is counted.
LEMMA OldIsStack ==
  ASSUME MInv, AtRecord, Head(list[cur]).sid # 0
  PROVE  LET s == Head(list[cur]).stack
         IN  /\ Old = {s}
             /\ s \in AllStacks
             /\ s \in stset[cur].byId
             /\ stset[cur].id[s] = Head(list[cur]).sid
             /\ Has(stset[cur], s)
             /\ stset[cur].count[s] \in Nat \ {0}
<1> DEFINE s == Head(list[cur]).stack
           sid == Head(list[cur]).sid
<1>1. /\ cur \in Profiles /\ s \in AllStacks /\ sid \in Nat \ {0}
      /\ s \in stset[cur].byId /\ stset[cur].id[s] = sid
  BY AtHand DEF Refers, RecordsOf
<1>2. SetOK(stset[cur]) /\ stset[cur] \in StackSets
  BY <1>1 DEF MInv, SetsInv, TypeOK
<1>3. Old = {s}
  BY <1>1, <1>2 DEF SetOK, Old
<1>4. Has(stset[cur], s)
  BY <1>1 DEF Has
<1>5. Exact(cur, s) /\ stset[cur].count[s] \in Nat
  BY <1>1, <1>2 DEF MInv, CountsInv, StackSets, Profiles
<1>6. stset[cur].count[s] \in Nat \ {0}
  BY <1>4, <1>5 DEF Exact
<1>7. QED
  BY <1>1, <1>3, <1>4, <1>6

(* The master is merged into itself: its sets do not change.               *)
LEMMA MasterStep ==
  ASSUME MInv, MergeStack, cur = Master
  PROVE  Settled \/ Abort
<1> DEFINE s == Head(list[cur]).stack
           sid == Head(list[cur]).sid
           set == stset[Master]
<1>1. /\ AtRecord /\ sid # 0
      /\ Old = {s} /\ s \in AllStacks /\ s \in set.byId /\ set.id[s] = sid /\ Has(set, s)
      /\ set.count[s] \in Nat \ {0}
  BY OldIsStack DEF MergeStack
<1>2. MergeMove(s) \/ MergeCopy(s) \/ MergeNoMemory(s) \/ Abort
  BY <1>1 DEF MergeStack
<1>3. /\ Master \in Profiles /\ set \in StackSets /\ stset \in [Profiles -> StackSets]
      /\ SetOK(set)
  BY <1>1, AtHand DEF MInv, SetsInv, TypeOK
<1>4. \A n \in StackSets : [stset EXCEPT ![Master] = n][Master] = n
  BY <1>3
<1>5. CASE MergeMove(s)
  <2> DEFINE dst == Taken(s)[Master]
  <2>1. set.count[s] = 1
    BY <1>5 DEF MergeMove
  <2>2. Taken(s) = [stset EXCEPT ![Master] = Remove(set, s)]
    BY DEF Taken
  <2>3. dst = Remove(set, s)
    BY <1>3, <2>2
  <2>4. /\ dst.id = [set.id EXCEPT ![s] = 0]
        /\ dst.count = [set.count EXCEPT ![s] = 0]
        /\ dst.byId = set.byId \ {s}
        /\ dst.next = set.next
        /\ dst \in StackSets
    <3> HIDE DEF dst, set
    <3>1. /\ Loses(set, dst, s)
          /\ dst.id = [set.id EXCEPT ![s] = 0]
          /\ dst.count = [set.count EXCEPT ![s] = 0]
          /\ dst.byId = set.byId \ {s}
      BY <1>1, <1>3, <2>1, <2>3, RemoveLoses
    <3> QED  BY <3>1 DEF Loses
  <2>5. ~Has(dst, s)
    <3> HIDE DEF dst
    <3> QED  BY <1>1, <1>3, <2>4 DEF Has, StackSets
  <2>6. ~IdTaken(dst, sid)
    <3> HIDE DEF dst
    <3> QED  BY <1>1, <1>3, <2>4 DEF IdTaken, SetOK, StackSets
  <2>7. /\ stset' = [Taken(s) EXCEPT ![Master] = Insert(dst, s, sid)]
        /\ Drain(sid)
    <3> HIDE DEF dst
    <3>1. /\ stset' = [Taken(s) EXCEPT ![Master] =
                         Insert(Taken(s)[Master], s, stset[cur].id[s])]
          /\ Drain(stset[cur].id[s])
      BY <1>1, <1>5, <2>5, <2>6 DEF MergeMove, dst
    <3> QED  BY <3>1, <1>1 DEF dst
  <2>8. Insert(dst, s, sid) = set
    <3> DEFINE new == Insert(dst, s, sid)
    <3>1. /\ new.id = [dst.id EXCEPT ![s] = sid]
          /\ new.count = [dst.count EXCEPT ![s] = 1]
          /\ new.byId = dst.byId \cup {s}
          /\ new.next = dst.next
          /\ new \in StackSets
      <4> HIDE DEF dst
      <4> QED  BY <1>1, <2>4, InsertFields, AtHand DEF RecordsOf
    <3>2. new.id = set.id
      <4> HIDE DEF dst, new, set
      <4> QED  BY <1>1, <1>3, <2>4, <3>1 DEF StackSets
    <3>3. new.count = set.count
      <4> HIDE DEF dst, new, set
      <4> QED  BY <1>1, <1>3, <2>1, <2>4, <3>1 DEF StackSets
    <3>4. new.byId = set.byId /\ new.next = set.next
      <4> HIDE DEF dst, new, set
      <4> QED  BY <1>1, <1>3, <2>4, <3>1 DEF StackSets
    <3>5. new = set
      <4> HIDE DEF dst, new, set
      <4> QED  BY <1>3, <3>1, <3>2, <3>3, <3>4 DEF StackSets
    <3> QED  BY <3>5
  <2>9. stset' = stset
    <3>1. stset' = [[stset EXCEPT ![Master] = Remove(set, s)] EXCEPT ![Master] = set]
      BY <2>2, <2>7, <2>8
    <3>2. stset' = [stset EXCEPT ![Master] = set]
      BY <3>1, <1>3
    <3> QED  BY <3>2, <1>3
  <2> QED  BY <1>1, <2>7, <2>9 DEF Settled
<1>6. CASE MergeCopy(s)
  <2> DEFINE new == CountUp(set, s)
  <2>1. /\ stset' = [[stset EXCEPT ![Master] = new] EXCEPT ![Master] = CountDown(@, s)]
        /\ Drain(new.id[s])
    BY <1>1, <1>6 DEF MergeCopy
  <2>2. /\ new.id = set.id /\ new.byId = set.byId /\ new.next = set.next
        /\ new.count = [set.count EXCEPT ![s] = @ + 1]
        /\ new \in StackSets
        /\ [new.count EXCEPT ![s] = @ - 1] = set.count
    BY <1>1, <1>3, CountUpFields
  <2>3. CountDown(new, s) = [new EXCEPT !.count = set.count]
    <3>1. CountDown(new, s) = [new EXCEPT !.count = [new.count EXCEPT ![s] = @ - 1]]
      <4> HIDE DEF new, set
      <4> QED  BY <1>1, <1>3, <2>2 DEF StackSets, CountDown
    <3> QED  BY <2>2, <3>1
  <2>4. CountDown(new, s) = set
    <3> HIDE DEF new, set
    <3> QED  BY <1>3, <2>2, <2>3 DEF StackSets
  <2>5. stset' = stset
    <3>1. [stset EXCEPT ![Master] = new][Master] = new
      BY <1>3, <2>2
    <3>2. stset' = [[stset EXCEPT ![Master] = new] EXCEPT ![Master] = set]
      <4> HIDE DEF new, set
      <4> QED  BY <2>1, <2>4, <3>1
    <3>3. stset' = [stset EXCEPT ![Master] = set]
      <4> HIDE DEF new
      <4> QED  BY <3>2, <1>3
    <3> QED  BY <3>3, <1>3
  <2>6. Drain(sid)
    BY <1>1, <2>1, <2>2
  <2> QED  BY <1>1, <2>5, <2>6 DEF Settled
<1>7. CASE MergeNoMemory(s) \/ Abort
  BY <1>7 DEF MergeNoMemory
<1>8. QED
  BY <1>2, <1>5, <1>6, <1>7

(* Another profile is merged into the master: its set loses what the       *)
(* set of the master gains.                                                *)
LEMMA OtherStep ==
  ASSUME MInv, MergeStack, cur # Master
  PROVE  \/ \E s \in AllStacks, sid, x \in Nat \ {0} : Moved(s, sid, x)
         \/ Abort
<1> DEFINE s == Head(list[cur]).stack
           sid == Head(list[cur]).sid
           src == stset[cur]
           mst == stset[Master]
<1>1. /\ AtRecord /\ sid # 0
      /\ Old = {s} /\ s \in AllStacks /\ src.id[s] = sid
      /\ src.count[s] \in Nat \ {0}
  BY OldIsStack DEF MergeStack
<1>2. MergeMove(s) \/ MergeCopy(s) \/ MergeNoMemory(s) \/ Abort
  BY <1>1 DEF MergeStack
<1>3. /\ Master \in Profiles /\ cur \in Profiles
      /\ src \in StackSets /\ mst \in StackSets /\ stset \in [Profiles -> StackSets]
      /\ SetOK(mst)
      /\ Head(list[cur]) = Rec(s, sid) /\ sid \in Nat
  BY <1>1, AtHand DEF MInv, SetsInv, TypeOK, RecordsOf
<1>4. SUFFICES ASSUME NEW lost, NEW got, NEW x,
                      Loses(src, lost, s), Gains(mst, got, s, sid, x), Drain(x),
                      stset' = [stset EXCEPT ![cur] = lost, ![Master] = got]
               PROVE  Moved(s, sid, x) /\ x \in Nat \ {0}
  <2>1. CASE MergeMove(s)
    <3> DEFINE lost == Remove(src, s)
               dst == Taken(s)[Master]
    <3>1. src.count[s] = 1 /\ lost \in StackSets /\ Loses(src, lost, s)
      <4>1. src.count[s] = 1
        BY <2>1 DEF MergeMove
      <4>2. Loses(src, lost, s)
        <5> HIDE DEF s, src
        <5> QED  BY <1>1, <1>3, <4>1, RemoveLoses
      <4> QED  BY <4>1, <4>2 DEF Loses
    <3>2. Taken(s) = [stset EXCEPT ![cur] = lost]
      BY DEF Taken
    <3>3. dst = mst
      BY <1>3, <3>2, cur # Master
    <3>4. ASSUME NEW got, NEW x, Gains(mst, got, s, sid, x), Drain(x),
                 stset' = [Taken(s) EXCEPT ![Master] = got]
          PROVE  \E t \in AllStacks, id, y \in Nat \ {0} : Moved(t, id, y)
      <4>1. stset' = [stset EXCEPT ![cur] = lost, ![Master] = got]
        <5> HIDE DEF lost
        <5> QED  BY <3>2, <3>4
      <4>2. Moved(s, sid, x) /\ x \in Nat \ {0}
        <5> HIDE DEF lost
        <5> QED  BY <3>1, <3>4, <4>1, <1>4
      <4> QED  BY <1>1, <1>3, <4>2
    <3>5. \/ /\ Has(mst, s)
             /\ stset' = [Taken(s) EXCEPT ![Master] = CountUp(mst, s)]
             /\ Drain(mst.id[s])
          \/ /\ ~Has(mst, s) /\ ~IdTaken(mst, sid)
             /\ stset' = [Taken(s) EXCEPT ![Master] = Insert(mst, s, sid)]
             /\ Drain(sid)
          \/ /\ ~Has(mst, s) /\ IdTaken(mst, sid) /\ ~IdTaken(mst, mst.next)
             /\ stset' = [Taken(s) EXCEPT
                            ![Master] = [Insert(mst, s, mst.next) EXCEPT !.next = @ + 1]]
             /\ Drain(mst.next)
          \/ Abort
      <4>1. src.id[s] = sid /\ Taken(s)[Master] = mst
        BY <1>1, <3>3
      <4> QED  BY <2>1, <4>1 DEF MergeMove
    <3>6. mst.next \in Nat \ {0}
      BY <1>3 DEF SetOK, StackSets
    <3>7. ASSUME Has(mst, s)
          PROVE  Gains(mst, CountUp(mst, s), s, sid, mst.id[s])
      BY <1>1, <1>3, <3>7, CountUpGains
    <3>8. ASSUME ~Has(mst, s), ~IdTaken(mst, sid)
          PROVE  Gains(mst, Insert(mst, s, sid), s, sid, sid)
      BY <1>1, <1>3, <3>8, InsertGains
    <3>9. ASSUME ~Has(mst, s), ~IdTaken(mst, mst.next)
          PROVE  Gains(mst, [Insert(mst, s, mst.next) EXCEPT !.next = @ + 1], s, sid,
             mst.next)
      BY <1>1, <1>3, <3>6, <3>9, InsertGains
    <3> HIDE DEF s, sid, mst
    <3> QED  BY <3>4, <3>5, <3>7, <3>8, <3>9
  <2>2. CASE MergeCopy(s)
    <3> DEFINE lost == CountDown(src, s)
               c == src.count[s]
               got == IF Has(mst, s) THEN CountUp(mst, s) ELSE AddCopy(mst, s, c)
    <3>1. src.count[s] > 1 /\ Loses(src, lost, s)
      BY <1>1, <1>3, <2>2, CountDownLoses DEF MergeCopy
    <3>2. Gains(mst, got, s, sid, got.id[s])
      <4>1. CASE Has(mst, s)
        <5>1. Gains(mst, CountUp(mst, s), s, sid, mst.id[s])
          BY <1>1, <1>3, <4>1, CountUpGains
        <5> QED  BY <4>1, <5>1 DEF Gains
      <4>2. CASE ~Has(mst, s)
        <5>1. Gains(mst, AddCopy(mst, s, c), s, sid, mst.next)
          BY <1>1, <1>3, <4>2, AddCopyGains
        <5> QED  BY <4>2, <5>1 DEF Gains
      <4> QED  BY <4>1, <4>2
    <3>3. /\ stset' = [[stset EXCEPT ![Master] = got] EXCEPT ![cur] = CountDown(@, s)]
          /\ Drain(got.id[s])
      BY <2>2 DEF MergeCopy
    <3>4. stset' = [stset EXCEPT ![cur] = lost, ![Master] = got]
      <4> HIDE DEF got
      <4> QED  BY <1>3, <3>3, cur # Master
    <3>5. Moved(s, sid, got.id[s]) /\ got.id[s] \in Nat \ {0}
      <4> HIDE DEF got, lost
      <4> QED  BY <3>1, <3>2, <3>3, <3>4, <1>4
    <3> HIDE DEF got
    <3> QED  BY <1>1, <1>3, <3>5
  <2>3. CASE MergeNoMemory(s) \/ Abort
    BY <2>3 DEF MergeNoMemory
  <2> QED  BY <1>2, <2>1, <2>2, <2>3
<1>5. lost \in StackSets /\ got \in StackSets /\ x \in Nat \ {0}
  BY <1>4 DEF Loses, Gains
<1>6. /\ stset'[cur] = lost /\ stset'[Master] = got
      /\ \A q \in Profiles \ {Master, cur} : stset'[q] = stset[q]
      /\ stset' \in [Profiles -> StackSets]
  <2> HIDE DEF s, sid, src, mst
  <2> QED  BY <1>3, <1>4, <1>5, cur # Master
<1>7. QED
  <2>1. /\ Loses(stset[cur], stset'[cur], s)
        /\ Gains(stset[Master], stset'[Master], s, sid, x)
    BY <1>4, <1>6
  <2> HIDE DEF s, sid, src, mst
  <2> QED  BY <1>1, <1>3, <1>4, <1>5, <1>6, <2>1, cur # Master DEF Moved

(* A recorded stack is counted once more, or added.                        *)
LEMMA RecordStep ==
  ASSUME MInv, NEW p \in Profiles, NEW s \in AllStacks, RecordStack(p, s)
  PROVE  \E x \in Nat \ {0} : Recorded(p, s, x)
<1> DEFINE set == stset[p]
           new == AddStack(set, s)
           x == new.id[s]
<1>1. /\ phase = "record"
      /\ stset' = [stset EXCEPT ![p] = new]
      /\ list' = [list EXCEPT ![p] = Append(@, Rec(s, x))]
      /\ UNCHANGED <<hasSet, phase, cur, drained>>
  BY DEF RecordStack, CanRecord
<1>2. /\ set \in StackSets /\ stset \in [Profiles -> StackSets]
      /\ SetOK(set) /\ Exact(p, s)
  BY <1>1 DEF MInv, TypeOK, SetsInv, CountsInv, PhaseInv, Master, Profiles
<1>3. Gains(set, new, s, 0, x) /\ new.count[s] = set.count[s] + 1
  <2>1. CASE Has(set, s)
    <3>1. Gains(set, CountUp(set, s), s, 0, set.id[s])
      BY <1>2, <2>1, CountUpGains
    <3>2. new = CountUp(set, s)
      BY <2>1 DEF AddStack
    <3> HIDE DEF new, set
    <3> QED  BY <2>1, <3>1, <3>2 DEF Gains
  <2>2. CASE ~Has(set, s)
    <3>1. /\ Gains(set, AddCopy(set, s, 1), s, 0, set.next)
          /\ AddCopy(set, s, 1).count[s] = 1
      BY <1>2, <2>2, AddCopyGains
    <3>2. new = AddCopy(set, s, 1)
      BY <2>2 DEF AddStack
    <3>3. set.count[s] = 0
      <4>1. Counted(p, s) \in Nat
        <5>1. list[p] \in Seq(RecordsOf) /\ drained \in Seq(RecordsOf)
          BY DEF MInv, TypeOK
        <5> QED  BY <5>1, InstancesType DEF Counted
      <4> QED  BY <1>2, <2>2, <4>1 DEF Exact
    <3> HIDE DEF new, set
    <3> QED  BY <2>2, <3>1, <3>2, <3>3 DEF Gains
  <2> QED  BY <2>1, <2>2
<1>4. new \in StackSets /\ x \in Nat \ {0}
  BY <1>3 DEF Gains
<1>5. /\ stset'[p] = new
      /\ \A q \in Profiles \ {p} : stset'[q] = stset[q]
      /\ stset' \in [Profiles -> StackSets]
  <2> HIDE DEF new
  <2> QED  BY <1>1, <1>2, <1>4
<1>6. QED
  <2>1. Recorded(p, s, x)
    <3> HIDE DEF new
    <3> QED  BY <1>1, <1>3, <1>5 DEF Recorded
  <2> QED  BY <1>4, <2>1

(* Every step is one of these.                                             *)
LEMMA Steps ==
  ASSUME MInv, [Next]_vars
  PROVE  \/ \E p \in Profiles, s \in AllStacks, x \in Nat \ {0} : Recorded(p, s, x)
         \/ \E p \in Profiles, s \in AllStacks : Unrecorded(p, s)
         \/ Settled
         \/ \E s \in AllStacks, sid, x \in Nat \ {0} : Moved(s, sid, x)
         \/ NextProfile
         \/ Turned
         \/ UNCHANGED vars
<1>1. CASE \E p \in Profiles, s \in Stacks : RecordStack(p, s)
  BY <1>1, RecordStep DEF AllStacks
<1>2. CASE \E p \in Profiles, s \in Stacks : RecordNoMemory(p, s)
  BY <1>2 DEF RecordNoMemory, CanRecord, Unrecorded, AllStacks
<1>3. CASE \E p \in Profiles, e \in Empties : RecordEmpty(p, e)
  BY <1>3, RecordStep DEF RecordEmpty, AllStacks
<1>4. CASE Exit
  BY <1>4 DEF Exit, Turned
<1>5. CASE MergeNoStack
  BY <1>5 DEF MergeNoStack, Settled
<1>6. CASE MergeStack
  <2>1. CASE Abort
    BY <2>1 DEF Abort, Turned
  <2> QED  BY <1>6, <2>1, MasterStep, OtherStep
<1>7. CASE NextProfile
  BY <1>7
<1>8. CASE Finish
  BY <1>8 DEF Finish, Turned, MInv, TypeOK
<1>9. CASE Terminated
  BY <1>9 DEF Terminated
<1>10. CASE UNCHANGED vars
  BY <1>10
<1>11. QED
  BY <1>1, <1>2, <1>3, <1>4, <1>5, <1>6, <1>7, <1>8, <1>9, <1>10 DEF Next

-----------------------------------------------------------------------------
(* What the invariant says of one set, when the set gains or loses.        *)

LEMMA GainsOK ==
  ASSUME NEW set \in StackSets, NEW new, NEW s \in AllStacks, NEW wanted, NEW x,
         SetOK(set), Gains(set, new, s, wanted, x)
  PROVE  SetOK(new)
<1>1. new \in StackSets /\ set.next \in Nat \ {0} /\ new.id[s] = x /\ x \in Nat \ {0}
  BY DEF SetOK, Gains, StackSets
<1>2. new.next > 0
  BY <1>1 DEF Gains
<1>3. ASSUME NEW r \in new.byId PROVE Has(new, r)
  BY <1>1, <1>3 DEF Gains, SameElsewhere, SetOK, Has, StackSets
<1>4. ASSUME NEW r \in new.byId, NEW t \in new.byId, new.id[r] = new.id[t]
      PROVE  r = t
  <2>1. r \in AllStacks /\ t \in AllStacks
    BY <1>1, <1>4 DEF StackSets
  <2>2. CASE s \in set.byId
    <3>1. Has(set, s)
      BY <2>2 DEF SetOK
    <3>2. r \in set.byId /\ t \in set.byId /\ set.id[r] = set.id[t]
      BY <1>1, <1>4, <2>1, <2>2, <3>1 DEF Gains, SameElsewhere
    <3> QED  BY <3>2 DEF SetOK
  <2>3. CASE s \notin set.byId
    <3>1. s \in new.byId => ~IdTaken(set, x)
      BY <2>3 DEF Gains
    <3>2. CASE r # s /\ t # s
      BY <1>4, <2>1, <3>2 DEF Gains, SameElsewhere, SetOK
    <3>3. CASE r = s /\ t # s
      BY <1>1, <1>4, <2>1, <3>1, <3>3 DEF Gains, SameElsewhere, IdTaken
    <3>4. CASE r # s /\ t = s
      BY <1>1, <1>4, <2>1, <3>1, <3>4 DEF Gains, SameElsewhere, IdTaken
    <3> QED  BY <3>2, <3>3, <3>4
  <2> QED  BY <2>2, <2>3
<1>5. QED
  BY <1>2, <1>3, <1>4 DEF SetOK

LEMMA GainsUnmerged ==
  ASSUME NEW set \in StackSets, NEW new, NEW s \in AllStacks, NEW x,
         SetOK(set), Unmerged(set), Gains(set, new, s, 0, x)
  PROVE  Unmerged(new) /\ Refers(new, Rec(s, x))
<1>1. new \in StackSets /\ set.next \in Nat \ {0} /\ new.id[s] = x /\ x \in Nat \ {0}
  BY DEF SetOK, Gains, StackSets
<1>2. s \in new.byId /\ x < new.next /\ set.next <= new.next
  <2>1. CASE Has(set, s)
    <3>1. x = set.id[s] /\ new.next = set.next /\ s \in set.byId /\ s \in new.byId
      BY <2>1 DEF Gains, Unmerged
    <3> QED  BY <1>1, <2>1, <3>1 DEF Unmerged
  <2>2. CASE ~Has(set, s)
    <3>1. x = set.next /\ new.next = set.next + 1 /\ (s \in new.byId <=> ~IdTaken(set, x))
      BY <1>1, <2>2 DEF Gains
    <3>2. ASSUME NEW r \in set.byId, set.id[r] = set.next PROVE FALSE
      BY <1>1, <3>2 DEF Unmerged, SetOK, StackSets
    <3> QED  BY <1>1, <3>1, <3>2 DEF IdTaken
  <2> QED  BY <2>1, <2>2
<1>3. ASSUME NEW r \in AllStacks, Has(new, r) PROVE r \in new.byId /\ new.id[r] < new.next
  <2>1. CASE r = s
    BY <1>1, <1>2, <2>1
  <2>2. CASE r # s
    <3>1. /\ new.id[r] = set.id[r] /\ (r \in new.byId <=> r \in set.byId)
      BY <2>2 DEF Gains, SameElsewhere
    <3>2. r \in set.byId /\ set.id[r] < set.next
      BY <1>3, <3>1 DEF Unmerged, Has
    <3>3. set.id[r] \in Nat /\ new.next \in Nat
      BY <1>1 DEF StackSets
    <3> QED  BY <1>1, <1>2, <3>1, <3>2, <3>3
  <2> QED  BY <2>1, <2>2
<1>4. Refers(new, Rec(s, x))
  BY <1>1, <1>2 DEF Refers, Rec
<1>5. QED
  BY <1>3, <1>4 DEF Unmerged

LEMMA GainsRecords ==
  ASSUME NEW set \in StackSets, NEW new, NEW s \in AllStacks, NEW wanted, NEW x,
         SetOK(set), Gains(set, new, s, wanted, x), NEW rec \in RecordsOf
  PROVE  /\ Refers(set, rec) => Refers(new, rec)
         /\ Keeps(set, rec) => Keeps(new, rec)
         /\ Keeps(new, Rec(s, x))
<1>1. new.id[s] = x /\ x # 0
  BY DEF Gains
<1>2. Keeps(new, Rec(s, x))
  BY <1>1 DEF Keeps, Rec, Has
<1>3. rec.stack \in AllStacks
  BY DEF RecordsOf
<1>4. Has(set, rec.stack) =>
        /\ new.id[rec.stack] = set.id[rec.stack]
        /\ rec.stack \in new.byId <=> rec.stack \in set.byId
  BY <1>3 DEF Gains, SameElsewhere
<1>5. rec.stack \in set.byId => Has(set, rec.stack)
  BY DEF SetOK
<1>6. QED
  BY <1>2, <1>4, <1>5 DEF Refers, Keeps, Has

LEMMA LosesOK ==
  ASSUME NEW set \in StackSets, NEW new, NEW s \in AllStacks,
         SetOK(set), Unmerged(set), Loses(set, new, s)
  PROVE  SetOK(new) /\ Unmerged(new)
<1>1. new \in StackSets /\ new.next = set.next
  BY DEF Loses
<1>2. \A r \in AllStacks : r \in new.byId => r \in set.byId /\ new.id[r] = set.id[r]
  BY DEF Loses, SameElsewhere
<1>3. new.byId \subseteq AllStacks
  BY <1>1 DEF StackSets
<1>4. \A r \in AllStacks : Has(new, r) => /\ new.id[r] = set.id[r]
                                          /\ r \in new.byId <=> r \in set.byId
  BY DEF Loses, SameElsewhere, Has
<1>5. SetOK(new)
  BY <1>1, <1>2, <1>3 DEF SetOK, Has
<1>6. Unmerged(new)
  BY <1>1, <1>4 DEF Unmerged, Has
<1>7. QED
  BY <1>5, <1>6

LEMMA LosesRefers ==
  ASSUME NEW set, NEW new, NEW s \in AllStacks, Loses(set, new, s),
         NEW rec \in RecordsOf, Refers(set, rec), IsOf(rec, s) => new.count[s] > 0
  PROVE  Refers(new, rec)
<1>1. rec.stack \in AllStacks
  BY DEF RecordsOf
<1>2. CASE rec.sid = 0
  BY <1>2 DEF Refers
<1>3. CASE rec.sid # 0 /\ rec.stack # s
  BY <1>1, <1>3 DEF Refers, Loses, SameElsewhere
<1>4. CASE rec.sid # 0 /\ rec.stack = s
  <2>1. new.id[s] = set.id[s] /\ (s \in new.byId <=> s \in set.byId)
    BY <1>4 DEF Loses, IsOf
  <2> QED  BY <1>4, <2>1 DEF Refers
<1>5. QED
  BY <1>2, <1>3, <1>4

-----------------------------------------------------------------------------
(* The invariant is inductive.                                             *)

LEMMA ProfilesFacts ==
  /\ Master \in Profiles
  /\ Profiles \subseteq Nat \ {0}
  /\ \A p \in Profiles : p >= Master
  /\ NumProfiles \in Nat \ {0}
BY BoundsAssumption DEF Profiles, Master

LEMMA CountedType ==
  ASSUME TypeOK, NEW p \in Profiles, NEW s
  PROVE  /\ Counted(p, s) \in Nat
         /\ Instances(list[p], s) \in Nat
         /\ Instances(drained, s) \in Nat
<1>1. list[p] \in Seq(RecordsOf) /\ drained \in Seq(RecordsOf)
  BY DEF TypeOK
<1>2. QED
  BY <1>1, InstancesType DEF Counted

\* A record goes to the end of a list.
Appends(p, rec) == list' = [list EXCEPT ![p] = Append(@, rec)] /\ UNCHANGED drained

LEMMA ListGrows ==
  ASSUME TypeOK, NEW p \in Profiles, NEW rec \in RecordsOf, Appends(p, rec)
  PROVE  /\ list' \in [Profiles -> Seq(RecordsOf)]
         /\ list'[p] = Append(list[p], rec)
         /\ \A q \in Profiles \ {p} : list'[q] = list[q]
         /\ \A q \in Profiles, s \in AllStacks :
               Counted(q, s)' = Counted(q, s) + (IF q = p THEN Weight(rec, s) ELSE 0)
         /\ \A q \in Profiles : \A i \in DOMAIN list'[q] :
               \/ i \in DOMAIN list[q] /\ list'[q][i] = list[q][i]
               \/ q = p /\ list'[q][i] = rec
<1>1. /\ list \in [Profiles -> Seq(RecordsOf)]
      /\ list[p] \in Seq(RecordsOf)
  BY DEF TypeOK
<1>2. Append(list[p], rec) \in Seq(RecordsOf)
  BY <1>1
<1>3. /\ list' \in [Profiles -> Seq(RecordsOf)]
      /\ list'[p] = Append(list[p], rec)
      /\ \A q \in Profiles \ {p} : list'[q] = list[q]
      /\ drained' = drained
  BY <1>1, <1>2 DEF Appends
<1>4. ASSUME NEW q \in Profiles, NEW s \in AllStacks
      PROVE  Counted(q, s)' = Counted(q, s) + (IF q = p THEN Weight(rec, s) ELSE 0)
  <2>1. CASE q = p
    <3>1. Instances(list'[q], s) = Instances(list[q], s) + Weight(rec, s)
      BY <1>1, <1>3, <2>1, InstancesAppend
    <3>2. Instances(list[q], s) \in Nat /\ Instances(drained, s) \in Nat
      BY CountedType
    <3>3. Weight(rec, s) \in Nat
      BY DEF Weight
    <3> QED  BY <1>3, <2>1, <3>1, <3>2, <3>3 DEF Counted
  <2>2. CASE q # p
    <3>1. Counted(q, s)' = Counted(q, s)
      BY <1>3, <2>2 DEF Counted
    <3>2. Counted(q, s) \in Nat
      BY CountedType
    <3> QED  BY <2>2, <3>1, <3>2
  <2> QED  BY <2>1, <2>2
<1>5. \A i \in DOMAIN Append(list[p], rec) :
         \/ i \in DOMAIN list[p] /\ Append(list[p], rec)[i] = list[p][i]
         \/ Append(list[p], rec)[i] = rec
  BY <1>1
<1>6. \A q \in Profiles : \A i \in DOMAIN list'[q] :
               \/ i \in DOMAIN list[q] /\ list'[q][i] = list[q][i]
               \/ q = p /\ list'[q][i] = rec
  BY <1>3, <1>5
<1>7. QED
  BY <1>3, <1>4, <1>6

LEMMA RecordedKeepsInv ==
  ASSUME MInv, NEW p \in Profiles, NEW s \in AllStacks, NEW x \in Nat \ {0},
         Recorded(p, s, x)
  PROVE  MInv'
<1> DEFINE rec == Rec(s, x)
<1>1. /\ phase = "record" /\ cur = Master /\ drained = <<>>
      /\ hasSet' = hasSet /\ phase' = phase /\ cur' = cur /\ drained' = drained
      /\ TypeOK
  BY DEF Recorded, MInv, PhaseInv
<1>2. /\ rec \in RecordsOf
      /\ Appends(p, rec)
      /\ rec.stack = s /\ rec.sid = x
  BY DEF Recorded, Rec, RecordsOf, Appends
<1>3. /\ list' \in [Profiles -> Seq(RecordsOf)]
      /\ \A q \in Profiles, r \in AllStacks :
            Counted(q, r)' = Counted(q, r) + (IF q = p THEN Weight(rec, r) ELSE 0)
      /\ \A q \in Profiles : \A i \in DOMAIN list'[q] :
            \/ i \in DOMAIN list[q] /\ list'[q][i] = list[q][i]
            \/ q = p /\ list'[q][i] = rec
  <2> HIDE DEF rec
  <2> QED  BY <1>1, <1>2, ListGrows
<1>4. /\ stset' \in [Profiles -> StackSets]
      /\ Gains(stset[p], stset'[p], s, 0, x)
      /\ stset'[p].count[s] = stset[p].count[s] + 1
      /\ \A q \in Profiles \ {p} : stset'[q] = stset[q]
  BY DEF Recorded
<1>5. \A q \in Profiles : /\ stset[q] \in StackSets
                          /\ SetOK(stset[q]) /\ Unmerged(stset[q])
                          /\ \A r \in AllStacks : Exact(q, r)
  BY <1>1, ProfilesFacts DEF MInv, TypeOK, SetsInv, CountsInv
<1>6. TypeOK'
  <2> HIDE DEF rec
  <2> QED  BY <1>1, <1>3, <1>4 DEF TypeOK
<1>7. /\ SetOK(stset'[p]) /\ Unmerged(stset'[p]) /\ Refers(stset'[p], rec)
  BY <1>4, <1>5, GainsOK, GainsUnmerged
<1>8. SetsInv'
  <2>1. \A q \in Profiles : SetOK(stset'[q]) /\ Unmerged(stset'[q])
    BY <1>4, <1>5, <1>7
  <2> QED  BY <2>1 DEF SetsInv
<1>9. RecordsInv'
  <2>1. ASSUME NEW q \in Profiles, NEW i \in DOMAIN list'[q]
        PROVE  Refers(stset'[q], list'[q][i])
    <3>1. CASE i \in DOMAIN list[q] /\ list'[q][i] = list[q][i]
      <4>1. list[q][i] \in RecordsOf
        <5>1. list[q] \in Seq(RecordsOf)
          BY <1>1 DEF TypeOK
        <5> QED  BY <3>1, <5>1
      <4>2. Refers(stset[q], list[q][i])
        BY <3>1 DEF MInv, RecordsInv
      <4> QED  BY <1>4, <1>5, <3>1, <4>1, <4>2, GainsRecords
    <3>2. CASE q = p /\ list'[q][i] = rec
      BY <1>7, <3>2
    <3> QED  BY <1>3, <3>1, <3>2
  <2>2. DOMAIN drained' = {}
    BY <1>1
  <2> QED  BY <2>1, <2>2 DEF RecordsInv
<1>10. CountsInv'
  <2>1. ASSUME NEW q \in Profiles, NEW r \in AllStacks
        PROVE  Exact(q, r)'
    <3>1. Exact(q, r) /\ Counted(q, r) \in Nat
      BY <1>1, <1>5, CountedType
    <3>2. CASE q = p /\ r = s
      <4>1. Counted(q, r)' = Counted(q, r) + 1
        <5>1. Weight(rec, r) = 1
          BY <1>2, <3>2 DEF Weight, IsOf
        <5> QED  BY <1>3, <3>2, <5>1
      <4>2. Has(stset'[q], r)
        BY <1>4, <3>2 DEF Gains, Has
      <4> QED  BY <1>4, <3>1, <3>2, <4>1, <4>2 DEF Exact
    <3>3. CASE ~(q = p /\ r = s)
      <4>1. Counted(q, r)' = Counted(q, r)
        <5>1. r # s => Weight(rec, r) = 0
          BY <1>2 DEF Weight, IsOf
        <5> QED  BY <1>3, <3>1, <3>3, <5>1
      <4>2. stset'[q].count[r] = stset[q].count[r] /\ stset'[q].id[r] = stset[q].id[r]
        BY <1>4, <3>3 DEF Gains, SameElsewhere
      <4> QED  BY <3>1, <4>1, <4>2 DEF Exact, Has
    <3> QED  BY <3>2, <3>3
  <2> QED  BY <1>1, <2>1 DEF CountsInv
<1>11. PhaseInv'
  <2>1. \A q \in Profiles : ~(q < cur)
    BY <1>1, ProfilesFacts DEF Master
  <2> QED  BY <1>1, <2>1 DEF PhaseInv
<1>12. QED
  BY <1>6, <1>8, <1>9, <1>10, <1>11 DEF MInv

LEMMA UnrecordedKeepsInv ==
  ASSUME MInv, NEW p \in Profiles, NEW s \in AllStacks, Unrecorded(p, s)
  PROVE  MInv'
<1> DEFINE rec == Rec(s, 0)
<1>1. /\ phase = "record" /\ cur = Master /\ drained = <<>> /\ TypeOK
      /\ UNCHANGED <<hasSet, stset, phase, cur, drained>>
  BY DEF Unrecorded, MInv, PhaseInv
<1>2. /\ rec \in RecordsOf
      /\ Appends(p, rec)
      /\ rec.sid = 0
  BY DEF Unrecorded, Rec, RecordsOf, Appends
<1> HIDE DEF rec
<1>3. /\ list' \in [Profiles -> Seq(RecordsOf)]
      /\ \A q \in Profiles, r \in AllStacks :
            Counted(q, r)' = Counted(q, r) + (IF q = p THEN Weight(rec, r) ELSE 0)
      /\ \A q \in Profiles : \A i \in DOMAIN list'[q] :
            \/ i \in DOMAIN list[q] /\ list'[q][i] = list[q][i]
            \/ q = p /\ list'[q][i] = rec
  BY <1>1, <1>2, ListGrows
<1>4. TypeOK'
  BY <1>1, <1>3 DEF TypeOK
<1>5. SetsInv'
  BY <1>1 DEF MInv, SetsInv
<1>6. RecordsInv'
  <2>1. ASSUME NEW q \in Profiles, NEW i \in DOMAIN list'[q]
        PROVE  Refers(stset[q], list'[q][i])
    <3>1. CASE i \in DOMAIN list[q] /\ list'[q][i] = list[q][i]
      BY <3>1 DEF MInv, RecordsInv
    <3>2. CASE list'[q][i] = rec
      BY <1>2, <3>2 DEF Refers
    <3> QED  BY <1>3, <3>1, <3>2
  <2> QED  BY <1>1, <2>1 DEF RecordsInv
<1>7. CountsInv'
  <2>1. ASSUME NEW q \in Profiles, NEW r \in AllStacks
        PROVE  Counted(q, r)' = Counted(q, r)
    <3>1. Weight(rec, r) = 0
      BY <1>2 DEF Weight, IsOf
    <3> QED  BY <1>1, <1>3, <3>1, CountedType
  <2> QED  BY <1>1, <2>1 DEF MInv, CountsInv, Exact
<1>8. PhaseInv'
  <2>1. \A q \in Profiles : ~(q < cur)
    BY <1>1, ProfilesFacts DEF Master
  <2> QED  BY <1>1, <2>1 DEF PhaseInv
<1>9. QED
  BY <1>4, <1>5, <1>6, <1>7, <1>8 DEF MInv

\* What draining a record does: rec leaves its list, out joins the drained ones.
Draining(rec, out) ==
  /\ rec \in RecordsOf /\ out \in RecordsOf
  /\ list' \in [Profiles -> Seq(RecordsOf)]
  /\ list'[cur] = Tail(list[cur])
  /\ \A q \in Profiles \ {cur} : list'[q] = list[q]
  /\ drained' = Append(drained, out) /\ drained' \in Seq(RecordsOf)
  /\ hasSet' = hasSet /\ phase' = phase /\ cur' = cur
  /\ \A s \in AllStacks :
        /\ Instances(list[cur], s) = Instances(list'[cur], s) + Weight(rec, s)
        /\ Instances(list'[cur], s) \in Nat
        /\ Instances(drained', s) = Instances(drained, s) + Weight(out, s)
  /\ \A q \in Profiles : \A i \in DOMAIN list'[q] :
        \E j \in DOMAIN list[q] : list'[q][i] = list[q][j]
  /\ \A i \in DOMAIN drained' :
        (i \in DOMAIN drained /\ drained'[i] = drained[i]) \/ drained'[i] = out

\* The first record of the list goes to the sorter.
LEMMA Drains ==
  ASSUME TypeOK, AtRecord, NEW rec, rec = Head(list[cur]), NEW x \in Nat, Drain(x),
         NEW out, out = Rec(rec.stack, x)
  PROVE  Draining(rec, out)
<1>1. /\ list \in [Profiles -> Seq(RecordsOf)] /\ drained \in Seq(RecordsOf)
      /\ cur \in Profiles /\ list[cur] # <<>>
  BY DEF TypeOK, AtRecord
<1>2. rec \in RecordsOf
  <2>1. list[cur] \in Seq(RecordsOf)
    BY <1>1
  <2> QED  BY <1>1, <2>1
<1>3. out \in RecordsOf
  BY <1>2 DEF RecordsOf, Rec
<1>4. /\ list' = [list EXCEPT ![cur] = Tail(@)]
      /\ drained' = Append(drained, out)
      /\ hasSet' = hasSet /\ phase' = phase /\ cur' = cur
  BY DEF Drain
<1>5. Tail(list[cur]) \in Seq(RecordsOf)
  <2>1. list[cur] \in Seq(RecordsOf)
    BY <1>1
  <2> QED  BY <1>1, <2>1
<1>6. /\ list' \in [Profiles -> Seq(RecordsOf)]
      /\ list'[cur] = Tail(list[cur])
      /\ \A q \in Profiles \ {cur} : list'[q] = list[q]
  BY <1>1, <1>4, <1>5
<1>7. drained' \in Seq(RecordsOf)
  BY <1>1, <1>3, <1>4
<1>8. ASSUME NEW s \in AllStacks
      PROVE  /\ Instances(list[cur], s) = Instances(list'[cur], s) + Weight(rec, s)
             /\ Instances(list'[cur], s) \in Nat
             /\ Instances(drained', s) = Instances(drained, s) + Weight(out, s)
  <2>1. Instances(list[cur], s)
          = Instances(Tail(list[cur]), s) + Weight(Head(list[cur]), s)
    <3>1. list[cur] \in Seq(RecordsOf)
      BY <1>1
    <3> QED  BY <1>1, <3>1, InstancesTail
  <2>2. Instances(Tail(list[cur]), s) \in Nat
    BY <1>5, InstancesType
  <2>3. Instances(Append(drained, out), s) = Instances(drained, s) + Weight(out, s)
    BY <1>1, <1>3, InstancesAppend
  <2> QED  BY <1>4, <1>6, <2>1, <2>2, <2>3
<1>9. ASSUME NEW q \in Profiles, NEW i \in DOMAIN list'[q]
      PROVE  \E j \in DOMAIN list[q] : list'[q][i] = list[q][j]
  <2>1. CASE q = cur
    <3>1. list[cur] \in Seq(RecordsOf) /\ i \in DOMAIN Tail(list[cur])
      BY <1>1, <1>6, <1>9, <2>1
    <3>2. i + 1 \in DOMAIN list[cur] /\ Tail(list[cur])[i] = list[cur][i + 1]
      BY <1>1, <3>1
    <3> QED  BY <1>6, <2>1, <3>2
  <2>2. CASE q # cur
    BY <1>6, <1>9, <2>2
  <2> QED  BY <2>1, <2>2
<1>10. ASSUME NEW i \in DOMAIN drained'
       PROVE  (i \in DOMAIN drained /\ drained'[i] = drained[i]) \/ drained'[i] = out
  BY <1>1, <1>3, <1>4, <1>10
<1>11. QED
  BY <1>2, <1>3, <1>4, <1>6, <1>7, <1>8, <1>9, <1>10 DEF Draining

LEMMA SettledKeepsInv ==
  ASSUME MInv, Settled
  PROVE  MInv'
<1> DEFINE rec == Head(list[cur])
<1>1. /\ TypeOK /\ AtRecord
      /\ rec \in RecordsOf /\ rec = Rec(rec.stack, rec.sid) /\ rec.sid \in Nat
      /\ cur \in Profiles /\ Master \in Profiles
      /\ Refers(stset[cur], rec)
      /\ rec.sid # 0 => cur = Master
      /\ Drain(rec.sid) /\ UNCHANGED stset
      /\ phase = "merge"
  BY AtHand DEF Settled, MInv, RecordsOf, AtRecord
<1> HIDE DEF rec
<1>2. /\ list' \in [Profiles -> Seq(RecordsOf)]
      /\ \A q \in Profiles \ {cur} : list'[q] = list[q]
      /\ drained' \in Seq(RecordsOf)
      /\ hasSet' = hasSet /\ phase' = phase /\ cur' = cur
      /\ \A s \in AllStacks :
            /\ Instances(list[cur], s) = Instances(list'[cur], s) + Weight(rec, s)
            /\ Instances(list'[cur], s) \in Nat
            /\ Instances(drained', s) = Instances(drained, s) + Weight(rec, s)
      /\ \A q \in Profiles : \A i \in DOMAIN list'[q] :
            \E j \in DOMAIN list[q] : list'[q][i] = list[q][j]
      /\ \A i \in DOMAIN drained' :
            (i \in DOMAIN drained /\ drained'[i] = drained[i]) \/ drained'[i] = rec
  <2>1. Draining(rec, rec)
    BY <1>1, Drains DEF rec
  <2> QED  BY <2>1 DEF Draining
<1>3. TypeOK'
  BY <1>1, <1>2 DEF TypeOK
<1>4. SetsInv'
  BY <1>1, <1>2 DEF MInv, SetsInv
<1>5. RecordsInv'
  <2>1. Keeps(stset[Master], rec)
    BY <1>1 DEF Refers, Keeps, Has
  <2>2. ASSUME NEW q \in Profiles, NEW i \in DOMAIN list'[q]
        PROVE  Refers(stset[q], list'[q][i])
    BY <1>2, <2>2 DEF MInv, RecordsInv
  <2>3. ASSUME NEW i \in DOMAIN drained'
        PROVE  Keeps(stset[Master], drained'[i])
    BY <1>2, <2>1, <2>3 DEF MInv, RecordsInv
  <2> QED  BY <1>1, <2>2, <2>3 DEF RecordsInv
<1>6. CountsInv'
  <2>1. ASSUME NEW q \in Profiles, NEW s \in AllStacks
        PROVE  /\ Counted(q, s)' = Counted(q, s)
               /\ cur # Master => Instances(drained', s) = Instances(drained, s)
    <3>1. /\ Instances(list[q], s) \in Nat /\ Instances(drained, s) \in Nat
          /\ Weight(rec, s) \in Nat
          /\ rec.sid = 0 => Weight(rec, s) = 0
      BY <1>1, CountedType DEF Weight, IsOf
    <3>2. CASE q = cur
      BY <1>1, <1>2, <3>1, <3>2 DEF Counted
    <3>3. CASE q # cur
      <4>1. q = Master => Weight(rec, s) = 0
        BY <1>1, <3>1, <3>3
      <4> QED  BY <1>1, <1>2, <3>1, <3>3, <4>1 DEF Counted
    <3> QED  BY <3>2, <3>3
  <2>2. \A q \in Profiles, s \in AllStacks : Exact(q, s) => Exact(q, s)'
    BY <1>1, <2>1 DEF Exact
  <2>3. ASSUME cur # Master, NEW s \in AllStacks PROVE Ample(s) => Ample(s)'
    BY <1>1, <2>1, <2>3 DEF Ample
  <2> QED  BY <1>2, <2>2, <2>3 DEF MInv, CountsInv
<1>7. PhaseInv'
  <2>1. \A q \in Profiles : q < cur => list'[q] = list[q]
    BY <1>1, <1>2, ProfilesFacts
  <2> QED  BY <1>1, <1>2, <2>1 DEF MInv, PhaseInv
<1>8. QED
  BY <1>3, <1>4, <1>5, <1>6, <1>7 DEF MInv

LEMMA MovedKeepsInv ==
  ASSUME MInv, NEW s \in AllStacks, NEW sid \in Nat \ {0}, NEW x \in Nat \ {0},
         Moved(s, sid, x)
  PROVE  MInv'
<1> DEFINE rec == Rec(s, sid)
           out == Rec(s, x)
<1>1. /\ TypeOK /\ AtRecord /\ phase = "merge"
      /\ cur \in Profiles /\ Master \in Profiles /\ cur # Master /\ cur > Master
      /\ rec = Head(list[cur])
      /\ rec.stack = s /\ rec.sid = sid /\ out.stack = s /\ out.sid = x
      /\ out = Rec(rec.stack, x) /\ Drain(x)
  BY AtHand, ProfilesFacts DEF Moved, MInv, AtRecord, Rec, Master
<1>2. /\ stset' \in [Profiles -> StackSets]
      /\ Loses(stset[cur], stset'[cur], s)
      /\ Gains(stset[Master], stset'[Master], s, sid, x)
      /\ \A q \in Profiles \ {Master, cur} : stset'[q] = stset[q]
  BY DEF Moved
<1> HIDE DEF rec, out
<1>3. /\ list' \in [Profiles -> Seq(RecordsOf)]
      /\ \A q \in Profiles \ {cur} : list'[q] = list[q]
      /\ drained' \in Seq(RecordsOf)
      /\ hasSet' = hasSet /\ phase' = phase /\ cur' = cur
      /\ \A r \in AllStacks :
            /\ Instances(list[cur], r) = Instances(list'[cur], r) + Weight(rec, r)
            /\ Instances(list'[cur], r) \in Nat
            /\ Instances(drained', r) = Instances(drained, r) + Weight(out, r)
      /\ \A q \in Profiles : \A i \in DOMAIN list'[q] :
            \E j \in DOMAIN list[q] : list'[q][i] = list[q][j]
      /\ \A i \in DOMAIN drained' :
            (i \in DOMAIN drained /\ drained'[i] = drained[i]) \/ drained'[i] = out
  <2>1. Draining(rec, out)
    <3>1. x \in Nat
      OBVIOUS
    <3> QED  BY <1>1, <3>1, Drains
  <2> QED  BY <2>1 DEF Draining
<1>4. TypeOK'
  BY <1>1, <1>2, <1>3 DEF TypeOK
<1>5. /\ stset[Master] \in StackSets /\ stset[cur] \in StackSets
      /\ SetOK(stset[Master]) /\ SetOK(stset[cur]) /\ Unmerged(stset[cur])
      /\ \A r \in AllStacks : Exact(cur, r) /\ Ample(r)
  BY <1>1, ProfilesFacts DEF MInv, TypeOK, SetsInv, CountsInv
<1>6. SetsInv'
  <2>1. SetOK(stset'[Master])
    BY <1>2, <1>5, GainsOK
  <2>2. SetOK(stset'[cur]) /\ Unmerged(stset'[cur])
    BY <1>2, <1>5, LosesOK
  <2>3. ASSUME NEW q \in Profiles
        PROVE  SetOK(stset'[q]) /\ (q >= cur => Unmerged(stset'[q]))
    <3>1. CASE q = Master
      BY <1>1, <2>1, <3>1 DEF Master
    <3>2. CASE q = cur
      BY <2>2, <3>2
    <3>3. CASE q # Master /\ q # cur
      BY <1>2, <3>3 DEF MInv, SetsInv
    <3> QED  BY <3>1, <3>2, <3>3
  <2> QED  BY <1>3, <2>3 DEF SetsInv
<1>7. \A r \in AllStacks : Weight(rec, r) = (IF r = s THEN 1 ELSE 0)
                        /\ Weight(out, r) = (IF r = s THEN 1 ELSE 0)
  BY <1>1 DEF Weight, IsOf
<1>8. ASSUME NEW r \in AllStacks PROVE Exact(cur, r)'
  <2>1. /\ Counted(cur, r)' = Instances(list'[cur], r)
        /\ Counted(cur, r) = Instances(list[cur], r)
        /\ Instances(list[cur], r) \in Nat /\ Instances(list'[cur], r) \in Nat
    BY <1>1, <1>3, CountedType DEF Counted
  <2>2. Exact(cur, r)
    BY <1>5
  <2>3. CASE r = s
    <3>1. Instances(list'[cur], r) = Instances(list[cur], r) - 1
      BY <1>3, <1>7, <2>1, <2>3
    <3>2. stset'[cur].count[r] = Instances(list'[cur], r)
      BY <1>2, <2>1, <2>2, <2>3, <3>1 DEF Loses, Exact
    <3>3. Has(stset'[cur], r) <=> Instances(list'[cur], r) > 0
      <4>1. Has(stset[cur], r)
        BY <2>1, <2>2, <3>1 DEF Exact
      <4> QED  BY <1>2, <2>1, <2>3, <3>2, <4>1 DEF Loses, Has
    <3> QED  BY <1>3, <2>1, <3>2, <3>3 DEF Exact
  <2>4. CASE r # s
    <3>1. Instances(list'[cur], r) = Instances(list[cur], r)
      BY <1>3, <1>7, <2>1, <2>4
    <3>2. /\ stset'[cur].count[r] = stset[cur].count[r]
          /\ stset'[cur].id[r] = stset[cur].id[r]
      BY <1>2, <2>4 DEF Loses, SameElsewhere
    <3> QED  BY <1>3, <2>1, <2>2, <3>1, <3>2 DEF Exact, Has
  <2> QED  BY <2>3, <2>4
<1>9. RecordsInv'
  <2>1. ASSUME NEW q \in Profiles, NEW i \in DOMAIN list'[q]
        PROVE  Refers(stset'[q], list'[q][i])
    <3>1. list'[q][i] \in RecordsOf
      <4>1. list'[q] \in Seq(RecordsOf)
        BY <1>3
      <4> QED  BY <2>1, <4>1
    <3>2. Refers(stset[q], list'[q][i])
      BY <1>3, <2>1 DEF MInv, RecordsInv
    <3>3. CASE q = Master
      BY <1>2, <1>5, <3>1, <3>2, <3>3, GainsRecords
    <3>4. CASE q = cur
      <4>1. IsOf(list'[q][i], s) => stset'[cur].count[s] > 0
        <5>1. list'[cur] \in Seq(RecordsOf)
          BY <1>1, <1>3
        <5>2. IsOf(list'[q][i], s) => Instances(list'[cur], s) > 0
          BY <2>1, <3>4, <5>1, InstancesType
        <5>3. stset'[cur].count[s] = Instances(list'[cur], s)
          BY <1>1, <1>3, <1>8, CountedType DEF Exact, Counted
        <5> QED  BY <5>2, <5>3
      <4> QED  BY <1>2, <3>1, <3>2, <3>4, <4>1, LosesRefers
    <3>5. CASE q # Master /\ q # cur
      BY <1>2, <3>2, <3>5
    <3> QED  BY <3>3, <3>4, <3>5
  <2>2. ASSUME NEW i \in DOMAIN drained'
        PROVE  Keeps(stset'[Master], drained'[i])
    <3>1. CASE i \in DOMAIN drained /\ drained'[i] = drained[i]
      <4>1. drained[i] \in RecordsOf
        BY <1>1, <3>1 DEF TypeOK
      <4>2. Keeps(stset[Master], drained[i])
        BY <3>1 DEF MInv, RecordsInv
      <4> QED  BY <1>2, <1>5, <3>1, <4>1, <4>2, GainsRecords
    <3>2. CASE drained'[i] = out
      <4>1. rec \in RecordsOf
        BY <1>1, AtHand
      <4>2. Keeps(stset'[Master], Rec(s, x))
        BY <1>2, <1>5, <4>1, GainsRecords
      <4> QED  BY <1>1, <3>2, <4>2
    <3> QED  BY <1>3, <2>2, <3>1, <3>2
  <2> QED  BY <2>1, <2>2 DEF RecordsInv
<1>10. ASSUME NEW r \in AllStacks PROVE Ample(r)'
  <2>1. /\ Ample(r) /\ Instances(drained, r) \in Nat
        /\ stset[Master].count[r] \in Nat /\ stset'[Master].count[r] \in Nat
    BY <1>1, <1>2, <1>5, CountedType DEF StackSets
  <2>2. CASE r = s
    <3>1. Instances(drained', r) = Instances(drained, r) + 1
      BY <1>3, <1>7, <2>2
    <3>2. ~Has(stset[Master], r) => Instances(drained, r) = 0
      <4>1. drained \in Seq(RecordsOf)
        BY <1>1 DEF TypeOK
      <4>2. ASSUME NEW i \in DOMAIN drained, IsOf(drained[i], r)
            PROVE  Has(stset[Master], r)
        BY <4>2 DEF MInv, RecordsInv, Keeps, IsOf
      <4> QED  BY <2>1, <4>1, <4>2, InstancesType
    <3>3. stset'[Master].count[r] >= Instances(drained', r)
      <4>1. CASE Has(stset[Master], s)
        <5>1. stset'[Master].count[s] = stset[Master].count[s] + 1
          BY <1>2, <4>1 DEF Gains
        <5> QED  BY <2>1, <2>2, <3>1, <5>1 DEF Ample
      <4>2. CASE ~Has(stset[Master], s)
        <5>1. stset'[Master].count[s] > 0
          BY <1>2, <4>2 DEF Gains
        <5> QED  BY <2>1, <2>2, <3>1, <3>2, <4>2, <5>1
      <4> QED  BY <4>1, <4>2
    <3> QED  BY <2>1, <3>1, <3>3 DEF Ample
  <2>3. CASE r # s
    <3>1. /\ Instances(drained', r) = Instances(drained, r)
          /\ stset'[Master].count[r] = stset[Master].count[r]
          /\ stset'[Master].id[r] = stset[Master].id[r]
      BY <1>2, <1>3, <1>7, <2>1, <2>3 DEF Gains, SameElsewhere
    <3> QED  BY <2>1, <3>1 DEF Ample, Has
  <2> QED  BY <2>2, <2>3
<1>11. CountsInv'
  <2>1. ASSUME NEW q \in Profiles, q >= cur, NEW r \in AllStacks PROVE Exact(q, r)'
    <3>1. CASE q = cur
      BY <1>3, <1>8, <3>1 DEF Exact, Counted
    <3>2. CASE q # cur
      <4>1. q # Master
        BY <1>1, <2>1, ProfilesFacts DEF Master
      <4>2. stset'[q] = stset[q] /\ Counted(q, r)' = Counted(q, r)
        BY <1>2, <1>3, <3>2, <4>1 DEF Counted
      <4>3. Exact(q, r)
        BY <2>1 DEF MInv, CountsInv
      <4> QED  BY <4>2, <4>3 DEF Exact
    <3> QED  BY <3>1, <3>2
  <2> QED  BY <1>3, <1>10, <2>1 DEF CountsInv
<1>12. PhaseInv'
  <2>1. \A q \in Profiles : q < cur => /\ list'[q] = list[q]
                                       /\ q # Master => stset'[q] = stset[q]
    BY <1>1, <1>2, <1>3, ProfilesFacts
  <2> QED  BY <1>1, <1>3, <2>1 DEF MInv, PhaseInv
<1>13. QED
  BY <1>4, <1>6, <1>9, <1>11, <1>12 DEF MInv

LEMMA EmptySetOK ==
  /\ EmptySet \in StackSets
  /\ SetOK(EmptySet) /\ Unmerged(EmptySet)
  /\ \A s \in AllStacks : ~Has(EmptySet, s) /\ EmptySet.count[s] = 0
BY DEF EmptySet, StackSets, SetOK, Unmerged, Has

LEMMA NextProfileKeepsInv ==
  ASSUME MInv, NextProfile
  PROVE  MInv'
<1>1. /\ phase = "merge" /\ cur \in Profiles /\ list[cur] = <<>>
      /\ stset' = IF cur = Master THEN stset ELSE [stset EXCEPT ![cur] = EmptySet]
      /\ cur' = cur + 1
      /\ UNCHANGED <<hasSet, list, phase, drained>>
      /\ TypeOK
  BY DEF NextProfile, MInv
<1>2. /\ stset' \in [Profiles -> StackSets]
      /\ \A q \in Profiles \ {cur} : stset'[q] = stset[q]
      /\ stset'[Master] = stset[Master]
      /\ cur # Master => stset'[cur] = EmptySet
  <2>1. stset \in [Profiles -> StackSets] /\ Master \in Profiles
    BY <1>1, ProfilesFacts DEF TypeOK
  <2>2. CASE cur = Master
    BY <1>1, <2>1, <2>2
  <2>3. CASE cur # Master
    <3>1. stset' = [stset EXCEPT ![cur] = EmptySet]
      BY <1>1, <2>3
    <3> QED  BY <1>1, <2>1, <2>3, <3>1, EmptySetOK
  <2> QED  BY <2>2, <2>3
<1>3. cur \in Nat \ {0} /\ cur' \in 1..(NumProfiles + 1) /\ cur' # Master
  BY <1>1, BoundsAssumption DEF Profiles, Master
<1>4. \A q \in Profiles : /\ q >= cur' => q >= cur /\ q # cur /\ q # Master
                          /\ q < cur' => q < cur \/ q = cur
  BY <1>1, <1>3, ProfilesFacts DEF Master
<1>5. TypeOK'
  BY <1>1, <1>2, <1>3 DEF TypeOK
<1>6. SetsInv'
  <2>1. \A q \in Profiles : SetOK(stset'[q])
    BY <1>2, EmptySetOK DEF MInv, SetsInv
  <2>2. \A q \in Profiles : q >= cur' => Unmerged(stset'[q])
    BY <1>2, <1>4 DEF MInv, SetsInv
  <2> QED  BY <2>1, <2>2 DEF SetsInv
<1>7. RecordsInv'
  <2>1. ASSUME NEW q \in Profiles, NEW i \in DOMAIN list[q]
        PROVE  Refers(stset'[q], list[q][i])
    <3>1. q # cur
      BY <1>1, <2>1
    <3> QED  BY <1>2, <2>1, <3>1 DEF MInv, RecordsInv
  <2> QED  BY <1>1, <1>2, <2>1 DEF MInv, RecordsInv
<1>8. CountsInv'
  <2>1. ASSUME NEW q \in Profiles, q >= cur', NEW s \in AllStacks PROVE Exact(q, s)'
    <3>1. Exact(q, s) /\ stset'[q] = stset[q]
      BY <1>2, <1>4, <2>1 DEF MInv, CountsInv
    <3> QED  BY <1>1, <3>1 DEF Exact, Counted
  <2>2. ASSUME NEW s \in AllStacks PROVE Ample(s)'
    <3>1. Ample(s)
      <4>1. CASE cur = Master
        <5>1. Exact(Master, s)
          BY <1>1, <4>1, ProfilesFacts DEF MInv, CountsInv
        <5>2. Counted(Master, s) = Instances(drained, s)
          BY <1>1, <4>1, InstancesEmpty, CountedType DEF Counted
        <5>3. Instances(drained, s) \in Nat
          BY <1>1, CountedType
        <5> QED  BY <5>1, <5>2, <5>3 DEF Exact, Ample
      <4>2. CASE cur # Master
        BY <4>2 DEF MInv, CountsInv
      <4> QED  BY <4>1, <4>2
    <3> QED  BY <1>1, <1>2, <3>1 DEF Ample
  <2> QED  BY <2>1, <2>2 DEF CountsInv
<1>9. PhaseInv'
  <2>1. ASSUME NEW q \in Profiles, q < cur'
        PROVE  list[q] = <<>> /\ (q # Master => stset'[q] = EmptySet)
    <3>1. CASE q = cur
      BY <1>1, <1>2, <3>1
    <3>2. CASE q # cur
      BY <1>2, <1>4, <2>1, <3>2 DEF MInv, PhaseInv
    <3> QED  BY <3>1, <3>2
  <2> QED  BY <1>1, <2>1 DEF PhaseInv
<1>10. QED
  BY <1>5, <1>6, <1>7, <1>8, <1>9 DEF MInv

LEMMA TurnedKeepsInv ==
  ASSUME MInv, Turned
  PROVE  MInv'
<1>1. TypeOK' /\ SetsInv' /\ RecordsInv'
  BY DEF MInv, Turned, TypeOK, SetsInv, RecordsInv
<1>2. CountsInv'
  BY DEF MInv, Turned, CountsInv, Exact, Ample, Counted
<1>3. PhaseInv'
  BY DEF MInv, Turned, PhaseInv
<1>4. QED
  BY <1>1, <1>2, <1>3 DEF MInv

LEMMA InvInit ==
  ASSUME Init
  PROVE  MInv
<1>1. /\ hasSet \subseteq Profiles
      /\ stset = [p \in Profiles |-> EmptySet]
      /\ list = [p \in Profiles |-> <<>>]
      /\ phase = "record" /\ cur = Master /\ drained = <<>>
  BY DEF Init
<1>2. TypeOK
  BY <1>1, EmptySetOK, BoundsAssumption DEF TypeOK, Master, Profiles
<1>3. SetsInv
  BY <1>1, EmptySetOK DEF SetsInv
<1>4. RecordsInv
  BY <1>1 DEF RecordsInv
<1>5. CountsInv
  <2>1. ASSUME NEW p \in Profiles, NEW s \in AllStacks PROVE Exact(p, s)
    <3>1. Counted(p, s) = 0
      BY <1>1, InstancesEmpty DEF Counted
    <3> QED  BY <1>1, <3>1, EmptySetOK DEF Exact
  <2> QED  BY <1>1, <2>1 DEF CountsInv
<1>6. PhaseInv
  BY <1>1, ProfilesFacts DEF PhaseInv, Master
<1>7. QED
  BY <1>2, <1>3, <1>4, <1>5, <1>6 DEF MInv

LEMMA InvNext ==
  ASSUME MInv, [Next]_vars
  PROVE  MInv'
<1>1. CASE UNCHANGED vars
  <2>1. UNCHANGED <<hasSet, stset, list, phase, cur, drained>>
    BY <1>1 DEF vars
  <2>2. TypeOK' /\ SetsInv' /\ RecordsInv' /\ PhaseInv'
    BY <2>1 DEF MInv, TypeOK, SetsInv, RecordsInv, PhaseInv
  <2>3. CountsInv'
    BY <2>1 DEF MInv, CountsInv, Exact, Ample, Counted
  <2> QED  BY <2>2, <2>3 DEF MInv
<1>2. QED
  BY <1>1, Steps, RecordedKeepsInv, UnrecordedKeepsInv, SettledKeepsInv, MovedKeepsInv,
     NextProfileKeepsInv, TurnedKeepsInv

(* The invariant of the merge.                                             *)
THEOREM Invariance == Spec => []MInv
<1>1. Init => MInv
  BY InvInit
<1>2. MInv /\ [Next]_vars => MInv'
  BY InvNext
<1>3. QED
  BY <1>1, <1>2, PTL DEF Spec

(* The variables keep their types: stack.c gives no id and no count that   *)
(* is not a number, and cur does not run past the profiles.                *)
THEOREM TypeCorrect == Spec => []TypeOK
<1>1. MInv => TypeOK
  BY DEF MInv
<1>2. QED
  BY <1>1, Invariance, PTL

(* A record waiting to be merged finds its stack, and the count of a stack *)
(* is the number of the records left: mprofile_merge_stack() finds every   *)
(* stack, and leaves none behind.                                          *)
THEOREM CountsAreRecords == Spec => []SourceCountsRecords
<1>1. MInv => SourceCountsRecords
  <2> SUFFICES ASSUME MInv PROVE SourceCountsRecords
    OBVIOUS
  <2>1. ASSUME NEW p \in Profiles, NEW i \in DOMAIN list[p], list[p][i].sid # 0
        PROVE  {s \in stset[p].byId : stset[p].id[s] = list[p][i].sid} = {list[p][i].stack}
    <3>1. Refers(stset[p], list[p][i]) /\ SetOK(stset[p])
      BY <2>1 DEF MInv, RecordsInv, SetsInv
    <3> QED  BY <2>1, <3>1 DEF Refers, SetOK
  <2>2. ASSUME NEW p \in Profiles \ {Master}, NEW s \in AllStacks
        PROVE  /\ stset[p].count[s] = Instances(list[p], s)
               /\ Has(stset[p], s) <=> Instances(list[p], s) > 0
    <3>1. Counted(p, s) = Instances(list[p], s)
      BY CountedType DEF Counted, MInv
    <3>2. CASE p >= cur
      BY <3>1, <3>2 DEF MInv, CountsInv, Exact
    <3>3. CASE p < cur
      BY <3>3, EmptySetOK, InstancesEmpty DEF MInv, PhaseInv
    <3> QED  BY <3>2, <3>3, ProfilesFacts DEF MInv, TypeOK
  <2> QED  BY <2>1, <2>2 DEF SourceCountsRecords
<1>2. QED
  BY <1>1, Invariance, PTL

(* A merged record has the id of its stack in the master, every stack of   *)
(* the master has a record, and no count is below the number of records.   *)
THEOREM MergeKeepsStacks == Spec => []RecordsKeepStacks
<1>1. MInv => RecordsKeepStacks
  <2> SUFFICES ASSUME MInv PROVE RecordsKeepStacks
    OBVIOUS
  <2>1. phase = "done" => cur # Master
    BY BoundsAssumption DEF MInv, PhaseInv, Master, TypeOK
  <2> QED  BY <2>1 DEF MInv, RecordsInv, CountsInv, Ample, Keeps, RecordsKeepStacks
<1>2. QED
  BY <1>1, Invariance, PTL

(* Merging the master into itself changes neither an id nor a count.       *)
THEOREM MasterIsKept == Spec => MasterKeepsStacks
<1>1. MInv /\ [Next]_vars =>
        [cur = Master /\ phase = "merge" => stset'[Master] = stset[Master]]_vars
  <2> SUFFICES ASSUME MInv, [Next]_vars, cur = Master, phase = "merge"
               PROVE  stset'[Master] = stset[Master]
    OBVIOUS
  <2> QED  BY Steps DEF Recorded, Unrecorded, Settled, Moved, NextProfile, Turned, vars
<1>2. QED
  BY <1>1, Invariance, PTL DEF Spec, MasterKeepsStacks

-----------------------------------------------------------------------------
(* The reader finds every stack at the position of its id because the ids  *)
(* of the master have no hole.  An id moved in is one more than the last   *)
(* of the master at most: the records of a profile are merged in the order *)
(* in which their stacks got their ids, so the stacks with the smaller ids *)
(* are in the master by then, where no two have the same id.               *)

Distinct(set) == \A r, s \in AllStacks :
    Has(set, r) /\ Has(set, s) /\ set.id[r] = set.id[s] => r = s

\* The ids are 1..n, and the next one is not beyond the first free one.
Dense(set, n) ==
    /\ \A s \in AllStacks : Has(set, s) => s \in set.byId /\ set.id[s] \in 1..n
    /\ \A k \in 1..n : \E s \in set.byId : set.id[s] = k
    /\ set.next <= n + 1

\* F[k] is the stack that got the id k in a set.
Numbering(set, F) ==
    /\ F \in [1..(set.next - 1) -> AllStacks]
    /\ \A j, k \in 1..(set.next - 1) : F[j] = F[k] => j = k
    /\ \A s \in AllStacks : Has(set, s) => F[set.id[s]] = s

\* It is still there, or has left it for the master.
Kept(recording, set, master, F) ==
    \A k \in 1..(set.next - 1) : Has(set, F[k]) \/ (~recording /\ Has(master, F[k]))

\* The records refer to the ids in the order in which they were given out.
InOrder(master, records, F) ==
    \A i \in DOMAIN records : \A k \in 1..(records[i].sid - 1) :
       Has(master, F[k]) \/ \E j \in 1..(i - 1) : records[j].sid = k

DenseInv == Distinct(stset[Master]) => \E n \in Nat : Dense(stset[Master], n)

OrderInv ==
    \A p \in Profiles : p >= cur => \E F :
       /\ Numbering(stset[p], F)
       /\ Kept(phase = "record", stset[p], stset[Master], F)
       /\ InOrder(stset[Master], list[p], F)

LEMMA GainsHas ==
  ASSUME NEW set, NEW new, NEW s \in AllStacks, NEW wanted, NEW x,
         Gains(set, new, s, wanted, x)
  PROVE  /\ \A r \in AllStacks : Has(set, r) => Has(new, r) /\ new.id[r] = set.id[r]
         /\ \A r \in AllStacks : Has(new, r) => Has(set, r) \/ r = s
         /\ Has(new, s)
         /\ Distinct(new) => Distinct(set)
<1>1. \A r \in AllStacks : Has(set, r) => Has(new, r) /\ new.id[r] = set.id[r]
  BY DEF Gains, SameElsewhere, Has
<1>2. /\ \A r \in AllStacks : Has(new, r) => Has(set, r) \/ r = s
      /\ Has(new, s)
  BY DEF Gains, SameElsewhere, Has
<1>3. Distinct(new) => Distinct(set)
  BY <1>1 DEF Distinct
<1>4. QED
  BY <1>1, <1>2, <1>3

\* A set without a hole gets none when the id of a new stack is at most one
\* more than the last.
LEMMA GainsDense ==
  ASSUME NEW set \in StackSets, NEW new, NEW s \in AllStacks, NEW wanted, NEW x,
         Gains(set, new, s, wanted, x), SetOK(set), Distinct(new),
         NEW n \in Nat, Dense(set, n),
         ~Has(set, s) => x <= n + 1
  PROVE  \E m \in Nat : Dense(new, m)
<1>1. /\ new \in StackSets /\ new.id[s] = x /\ x \in Nat \ {0} /\ Has(new, s)
      /\ set.byId \subseteq AllStacks /\ new.byId \subseteq AllStacks
      /\ set.next \in Nat
      /\ \A r \in AllStacks : Has(set, r) => Has(new, r) /\ new.id[r] = set.id[r]
      /\ \A r \in AllStacks : Has(new, r) => Has(set, r) \/ r = s
      /\ \A r \in set.byId : Has(set, r)
      /\ SameElsewhere(set, new, s)
  BY GainsHas DEF Gains, StackSets, SetOK
<1>2. CASE Has(set, s)
  <2>1. new.next = set.next /\ (s \in new.byId <=> s \in set.byId)
    BY <1>2 DEF Gains
  <2>2. \A r \in AllStacks : r \in new.byId <=> r \in set.byId
    BY <1>1, <2>1 DEF SameElsewhere
  <2>3. Dense(new, n)
    BY <1>1, <1>2, <2>1, <2>2 DEF Dense
  <2> QED  BY <2>3
<1>3. CASE ~Has(set, s)
  <2>1. x = n + 1
    <3>1. ASSUME x <= n PROVE FALSE
      <4>1. PICK r \in set.byId : set.id[r] = x
        BY <1>1, <3>1 DEF Dense
      <4>2. r \in AllStacks /\ Has(set, r) /\ Has(new, r) /\ new.id[r] = x
        BY <1>1, <4>1
      <4>3. r = s
        BY <1>1, <4>2 DEF Distinct
      <4> QED  BY <1>3, <4>2, <4>3
    <3> QED  BY <1>1, <1>3, <3>1
  <2>2. ~IdTaken(set, x)
    <3>1. ASSUME NEW r \in set.byId, set.id[r] = x PROVE FALSE
      BY <1>1, <2>1, <3>1 DEF Dense
    <3> QED  BY <3>1 DEF IdTaken
  <2>3. /\ s \in new.byId
        /\ \/ new.next = set.next
           \/ x = set.next /\ new.next = set.next + 1
    BY <1>3, <2>2 DEF Gains
  <2>4. \A r \in AllStacks \ {s} : r \in new.byId <=> r \in set.byId
    BY <1>1 DEF SameElsewhere
  <2>5. ASSUME NEW r \in AllStacks, Has(new, r)
        PROVE  r \in new.byId /\ new.id[r] \in 1..(n + 1)
    <3>1. CASE r = s
      BY <1>1, <2>1, <2>3, <3>1
    <3>2. CASE r # s
      <4>1. Has(set, r) /\ new.id[r] = set.id[r] /\ r \in set.byId /\ set.id[r] \in 1..n
        BY <1>1, <2>5, <3>2 DEF Dense
      <4> QED  BY <2>4, <3>2, <4>1
    <3> QED  BY <3>1, <3>2
  <2>6. ASSUME NEW k \in 1..(n + 1)
        PROVE  \E r \in new.byId : new.id[r] = k
    <3>1. CASE k = x
      BY <1>1, <2>3, <3>1
    <3>2. CASE k # x
      <4>1. PICK r \in set.byId : set.id[r] = k
        BY <2>1, <3>2 DEF Dense
      <4>2. r \in AllStacks /\ r # s /\ new.id[r] = k
        BY <1>1, <1>3, <4>1
      <4> QED  BY <2>4, <4>1, <4>2
    <3> QED  BY <3>1, <3>2
  <2>7. new.next <= n + 1 + 1
    BY <1>1, <2>1, <2>3 DEF Dense
  <2>8. Dense(new, n + 1)
    BY <2>5, <2>6, <2>7 DEF Dense
  <2> QED  BY <2>8
<1>4. QED
  BY <1>2, <1>3

\* A stack that waits to be moved is the next one at most: those with the
\* smaller ids are in the master.
LEMMA WaitingIsNext ==
  ASSUME NEW src \in StackSets, NEW mst \in StackSets, NEW F, NEW n \in Nat,
     NEW s \in AllStacks,
         Numbering(src, F), Unmerged(src), Has(src, s),
         \A k \in 1..(src.id[s] - 1) : Has(mst, F[k]),
         Distinct(mst), Dense(mst, n)
  PROVE  src.id[s] <= n + 1
<1> DEFINE low == 1..(src.id[s] - 1)
           f == [k \in low |-> mst.id[F[k]]]
<1>1. src.id[s] \in Nat \ {0} /\ src.id[s] < src.next /\ src.next \in Nat
  BY DEF Has, Unmerged, StackSets
<1>2. \A k \in low : k \in 1..(src.next - 1) /\ F[k] \in AllStacks /\ Has(mst, F[k])
  BY <1>1 DEF Numbering
<1>3. f \in [low -> 1..n]
  BY <1>2 DEF Dense
<1>4. ASSUME NEW j \in low, NEW k \in low, f[j] = f[k] PROVE j = k
  <2>1. F[j] = F[k]
    BY <1>2, <1>4 DEF Distinct
  <2> QED  BY <1>2, <2>1 DEF Numbering
<1>5. f \in Injection(low, 1..n)
  <2> HIDE DEF f, low
  <2> QED  BY <1>3, <1>4 DEF Injection, IsInjective
<1>6. IsFiniteSet(1..n) /\ Cardinality(1..n) = n
  BY FS_Interval
<1>7. Cardinality(low) = src.id[s] - 1
  <2>1. \A m \in Nat : Cardinality(1..m) = m
    BY FS_Interval
  <2>2. src.id[s] - 1 \in Nat
    BY <1>1
  <2> QED  BY <2>1, <2>2
<1>8. Cardinality(low) <= n
  <2> HIDE DEF f, low
  <2> QED  BY <1>5, <1>6, FS_Injection
<1>9. QED
  BY <1>1, <1>7, <1>8

\* No stack has left the set.
Whole(set, F) == \A k \in 1..(set.next - 1) : Has(set, F[k])

Extends(set, F, G) == \A k \in 1..(set.next - 1) : G[k] = F[k]

\* A new stack is the next in the numbering.
LEMMA GainsNumbering ==
  ASSUME NEW set \in StackSets, NEW new, NEW s \in AllStacks, NEW x, NEW F,
         SetOK(set), Unmerged(set), Gains(set, new, s, 0, x), Numbering(set, F),
         Whole(set, F)
  PROVE  \E G : Numbering(new, G) /\ Whole(new, G) /\ Extends(set, F, G)
<1>1. /\ new \in StackSets /\ new.id[s] = x /\ x \in Nat \ {0} /\ Has(new, s)
      /\ set.next \in Nat \ {0}
      /\ \A r \in AllStacks : Has(set, r) => Has(new, r) /\ new.id[r] = set.id[r]
      /\ \A r \in AllStacks : Has(new, r) => Has(set, r) \/ r = s
      /\ \A r \in AllStacks : set.id[r] \in Nat
  BY GainsHas DEF Gains, StackSets, SetOK
<1>2. \A r \in AllStacks : Has(set, r) => set.id[r] \in 1..(set.next - 1)
  BY <1>1 DEF Unmerged, Has
<1>3. \A k \in 1..(set.next - 1) : F[k] \in AllStacks
  BY DEF Numbering
<1>4. CASE Has(set, s)
  <2>1. new.next = set.next
    BY <1>4 DEF Gains
  <2>2. Numbering(new, F)
    BY <1>1, <1>4, <2>1 DEF Numbering
  <2>3. \A k \in 1..(new.next - 1) : Has(new, F[k])
    BY <1>1, <1>3, <2>1 DEF Whole
  <2> QED  BY <2>2, <2>3 DEF Whole, Extends
<1>5. CASE ~Has(set, s)
  <2> DEFINE G == [k \in 1..set.next |-> IF k = set.next THEN s ELSE F[k]]
  <2>1. new.next = set.next + 1 /\ x = set.next /\ new.next - 1 = set.next
    BY <1>1, <1>5 DEF Gains
  <2>2. /\ G \in [1..set.next -> AllStacks]
        /\ \A k \in 1..(set.next - 1) : G[k] = F[k]
        /\ G[set.next] = s
    BY <1>1, <1>3
  <2> HIDE DEF G
  <2>3. ASSUME NEW j \in 1..set.next, NEW k \in 1..set.next, G[j] = G[k]
        PROVE  j = k
    <3>1. CASE j # set.next /\ k # set.next
      <4>1. /\ j \in 1..(set.next - 1) /\ k \in 1..(set.next - 1)
        BY <1>1, <3>1
      <4> QED  BY <2>2, <2>3, <4>1 DEF Numbering
    <3>2. CASE j = set.next /\ k # set.next
      <4>1. k \in 1..(set.next - 1)
        BY <1>1, <3>2
      <4> QED  BY <1>5, <2>2, <2>3, <3>2, <4>1 DEF Whole
    <3>3. CASE j # set.next /\ k = set.next
      <4>1. j \in 1..(set.next - 1)
        BY <1>1, <3>3
      <4> QED  BY <1>5, <2>2, <2>3, <3>3, <4>1 DEF Whole
    <3> QED  BY <3>1, <3>2, <3>3
  <2>4. ASSUME NEW r \in AllStacks, Has(new, r) PROVE G[new.id[r]] = r
    <3>1. CASE r = s
      BY <1>1, <2>1, <2>2, <3>1
    <3>2. CASE r # s
      <4>1. Has(set, r) /\ new.id[r] = set.id[r] /\ set.id[r] \in 1..(set.next - 1)
        BY <1>1, <1>2, <2>4, <3>2
      <4> QED  BY <2>2, <4>1 DEF Numbering
    <3> QED  BY <3>1, <3>2
  <2>5. Numbering(new, G)
    BY <2>1, <2>2, <2>3, <2>4 DEF Numbering
  <2>6. ASSUME NEW k \in 1..set.next PROVE Has(new, G[k])
    <3>1. CASE k = set.next
      BY <1>1, <2>2, <3>1
    <3>2. CASE k # set.next
      <4>1. k \in 1..(set.next - 1)
        BY <1>1, <3>2
      <4> QED  BY <1>1, <1>3, <2>2, <4>1 DEF Whole
    <3> QED  BY <3>1, <3>2
  <2> QED  BY <2>1, <2>2, <2>5, <2>6 DEF Whole, Extends
<1>6. QED
  BY <1>4, <1>5

\* The head of the list has gone to the master.
LEMMA InOrderTail ==
  ASSUME NEW records \in Seq(RecordsOf), records # <<>>, NEW F, NEW master, NEW newMaster,
         InOrder(master, records, F),
         \A k : Has(master, F[k]) => Has(newMaster, F[k]),
         Head(records).sid # 0 => Has(newMaster, F[Head(records).sid])
  PROVE  InOrder(newMaster, Tail(records), F)
<1>1. /\ Len(records) \in Nat \ {0} /\ DOMAIN records = 1..Len(records)
      /\ DOMAIN Tail(records) = 1..(Len(records) - 1)
      /\ \A i \in DOMAIN Tail(records) : Tail(records)[i] = records[i + 1]
      /\ records[1] = Head(records)
      /\ \A i \in DOMAIN records : records[i].sid \in Nat
  <2>1. \A i \in DOMAIN records : records[i] \in RecordsOf
    OBVIOUS
  <2>2. \A i \in DOMAIN records : records[i].sid \in Nat
    BY <2>1 DEF RecordsOf
  <2> QED  BY <2>2
<1>2. ASSUME NEW i \in DOMAIN Tail(records), NEW k \in 1..(Tail(records)[i].sid - 1),
             ~Has(newMaster, F[k])
      PROVE  \E j \in 1..(i - 1) : Tail(records)[j].sid = k
  <2>1. i \in Nat /\ i + 1 \in DOMAIN records /\ k \in 1..(records[i + 1].sid - 1) /\ k # 0
    BY <1>1, <1>2
  <2>2. PICK j \in 1..i : records[j].sid = k
    <3>1. Has(master, F[k]) \/ \E j \in 1..((i + 1) - 1) : records[j].sid = k
      BY <2>1 DEF InOrder
    <3> QED  BY <1>2, <2>1, <3>1
  <2>3. j # 1
    BY <1>1, <1>2, <2>1, <2>2
  <2>4. j - 1 \in 1..(i - 1) /\ Tail(records)[j - 1].sid = k
    BY <1>1, <1>2, <2>1, <2>2, <2>3
  <2> QED  BY <2>4
<1>3. QED
  BY <1>2 DEF InOrder

\* A record goes to the end of the list: the stacks with a smaller id have
\* records before it.
LEMMA InOrderAppend ==
  ASSUME NEW records \in Seq(RecordsOf), NEW rec \in RecordsOf, NEW F, NEW G,
         NEW master, NEW newMaster,
         InOrder(master, records, F),
         \A i \in DOMAIN records : \A k \in 1..(records[i].sid - 1) :
            Has(master, F[k]) => Has(newMaster, G[k]),
         \A k \in 1..(rec.sid - 1) : \E j \in DOMAIN records : records[j].sid = k
  PROVE  InOrder(newMaster, Append(records, rec), G)
<1> DEFINE more == Append(records, rec)
<1>1. /\ Len(records) \in Nat /\ DOMAIN records = 1..Len(records)
      /\ DOMAIN more = 1..(Len(records) + 1)
      /\ \A i \in DOMAIN records : more[i] = records[i]
      /\ more[Len(records) + 1] = rec
      /\ \A i \in DOMAIN records : records[i].sid \in Nat
  <2>1. \A i \in DOMAIN records : records[i] \in RecordsOf
    OBVIOUS
  <2>2. \A i \in DOMAIN records : records[i].sid \in Nat
    BY <2>1 DEF RecordsOf
  <2> QED  BY <2>2
<1> HIDE DEF more
<1>2. ASSUME NEW i \in DOMAIN more, NEW k \in 1..(more[i].sid - 1), ~Has(newMaster, G[k])
      PROVE  \E j \in 1..(i - 1) : more[j].sid = k
  <2>1. CASE i \in DOMAIN records
    <3>1. k \in 1..(records[i].sid - 1)
      BY <1>1, <1>2, <2>1
    <3>2. PICK j \in 1..(i - 1) : records[j].sid = k
      BY <1>2, <2>1, <3>1 DEF InOrder
    <3>3. j \in DOMAIN records
      BY <1>1, <2>1
    <3> QED  BY <1>1, <3>2, <3>3
  <2>2. CASE i = Len(records) + 1
    <3>1. PICK j \in DOMAIN records : records[j].sid = k
      BY <1>1, <1>2, <2>2
    <3>2. j \in 1..(i - 1)
      BY <1>1, <2>2
    <3> QED  BY <1>1, <3>1, <3>2
  <2> QED  BY <1>1, <2>1, <2>2
<1>3. QED
  BY <1>2 DEF InOrder, more

NInv == MInv /\ DenseInv /\ OrderInv

\* An id in the master stays, and only the merge and the first profile add one.
MasterGrows ==
    \A r \in AllStacks : Has(stset[Master], r) => Has(stset'[Master], r)

LEMMA SmallerIds ==
  ASSUME MInv, NEW q \in Profiles, q >= cur, NEW i \in DOMAIN list[q],
         NEW k \in 1..(list[q][i].sid - 1)
  PROVE  k \in 1..(stset[q].next - 1)
<1>1. /\ Refers(stset[q], list[q][i]) /\ Unmerged(stset[q]) /\ SetOK(stset[q])
      /\ stset[q] \in StackSets /\ list[q] \in Seq(RecordsOf)
  BY DEF MInv, TypeOK, RecordsInv, SetsInv
<1>2. list[q][i] \in RecordsOf
  BY <1>1
<1>3. list[q][i].sid # 0
  OBVIOUS
<1>4. list[q][i].sid < stset[q].next
  BY <1>1, <1>2, <1>3 DEF Refers, Unmerged, SetOK, RecordsOf
<1>5. QED
  BY <1>1, <1>2, <1>4 DEF RecordsOf, StackSets

LEMMA RecordedKeepsOrder ==
  ASSUME NInv, NEW p \in Profiles, NEW s \in AllStacks, NEW x \in Nat \ {0},
         Recorded(p, s, x)
  PROVE  OrderInv'
<1>1. /\ MInv /\ TypeOK
      /\ phase = "record" /\ cur = Master /\ drained = <<>>
      /\ phase' = phase /\ cur' = cur
      /\ Gains(stset[p], stset'[p], s, 0, x)
      /\ \A q \in Profiles \ {p} : stset'[q] = stset[q]
  BY DEF NInv, Recorded, MInv, PhaseInv
<1>2. /\ Rec(s, x) \in RecordsOf /\ Rec(s, x).sid = x
      /\ list'[p] = Append(list[p], Rec(s, x))
      /\ \A q \in Profiles \ {p} : list'[q] = list[q]
  <2>1. Rec(s, x) \in RecordsOf /\ Rec(s, x).sid = x /\ Appends(p, Rec(s, x))
    BY DEF Rec, RecordsOf, Recorded, Appends
  <2> QED  BY <1>1, <2>1, ListGrows
<1>3. /\ stset[p] \in StackSets /\ SetOK(stset[p]) /\ Unmerged(stset[p])
      /\ stset'[p] \in StackSets
      /\ list[p] \in Seq(RecordsOf)
  BY <1>1, ProfilesFacts DEF MInv, TypeOK, SetsInv, Gains
<1>4. /\ \A r \in AllStacks : Has(stset[p], r) => Has(stset'[p], r)
      /\ MasterGrows
  <2>1. \A r \in AllStacks : Has(stset[p], r) => Has(stset'[p], r)
    BY <1>1, GainsHas
  <2> QED  BY <1>1, <2>1, ProfilesFacts DEF MasterGrows
<1>5. PICK F : /\ Numbering(stset[p], F)
               /\ Kept(TRUE, stset[p], stset[Master], F)
               /\ InOrder(stset[Master], list[p], F)
  <2>1. \E F : /\ Numbering(stset[p], F)
               /\ Kept(phase = "record", stset[p], stset[Master], F)
               /\ InOrder(stset[Master], list[p], F)
    BY <1>1, ProfilesFacts DEF NInv, OrderInv
  <2>2. (phase = "record") = TRUE
    BY <1>1
  <2> QED  BY <2>1, <2>2 DEF Kept
<1>6. \A k \in 1..(stset[p].next - 1) : F[k] \in AllStacks /\ Has(stset[p], F[k])
  BY <1>5 DEF Kept, Numbering
<1>7. PICK G : /\ Numbering(stset'[p], G)
               /\ Whole(stset'[p], G)
               /\ Extends(stset[p], F, G)
  <2>1. Whole(stset[p], F)
    BY <1>6 DEF Whole
  <2> QED  BY <1>1, <1>3, <1>5, <2>1, GainsNumbering
<1> DEFINE n == stset[p].next - 1
<1>8. n \in Nat
  BY <1>3 DEF SetOK, StackSets
<1>9. \A r \in AllStacks : Has(stset[p], r) => stset[p].id[r] \in 1..n
  <2>1. stset[p].id \in [AllStacks -> Nat] /\ stset[p].next \in Nat
    BY <1>3 DEF StackSets
  <2> QED  BY <1>3, <2>1 DEF Unmerged, Has
<1>10. \A i \in DOMAIN list[p] : list[p][i] \in RecordsOf /\ Refers(stset[p], list[p][i])
  BY <1>1, <1>3 DEF MInv, RecordsInv
<1>11. \A i \in DOMAIN list[p] : \A k \in 1..(list[p][i].sid - 1) : k \in 1..n
  BY <1>1, ProfilesFacts, SmallerIds
<1>12. ASSUME NEW k \in 1..(x - 1)
       PROVE  k \in 1..n /\ \E j \in DOMAIN list[p] : list[p][j].sid = k
  <2>1. k \in 1..n
    <3>1. CASE Has(stset[p], s)
      <4>1. x \in 1..n
        BY <1>1, <1>9, <3>1 DEF Gains
      <4> QED  BY <1>8, <1>12, <4>1
    <3>2. CASE ~Has(stset[p], s)
      <4>1. x = n + 1
        BY <1>1, <1>3, <3>2 DEF Gains, StackSets
      <4> QED  BY <1>8, <1>12, <4>1
    <3> QED  BY <3>1, <3>2
  <2>2. F[k] \in AllStacks /\ Has(stset[p], F[k])
    BY <1>6, <2>1
  <2>3. stset[p].id[F[k]] = k
    <3>1. stset[p].id[F[k]] \in 1..n /\ F[stset[p].id[F[k]]] = F[k]
      BY <1>5, <1>9, <2>2 DEF Numbering
    <3> QED  BY <1>5, <2>1, <3>1 DEF Numbering
  <2>4. Counted(p, F[k]) > 0
    BY <1>1, <2>2, ProfilesFacts DEF MInv, CountsInv, Exact
  <2>5. Instances(list[p], F[k]) > 0
    BY <1>1, <2>4, InstancesEmpty, CountedType DEF Counted
  <2>6. PICK j \in DOMAIN list[p] : IsOf(list[p][j], F[k])
    BY <1>3, <2>5, InstancesType
  <2>7. list[p][j].sid = k
    BY <1>10, <2>3, <2>6 DEF Refers, IsOf
  <2> QED  BY <2>1, <2>7
<1>13. InOrder(stset'[Master], list'[p], G)
  <2>1. \A i \in DOMAIN list[p] : \A k \in 1..(list[p][i].sid - 1) :
           Has(stset[Master], F[k]) => Has(stset'[Master], G[k])
    BY <1>4, <1>6, <1>7, <1>11 DEF MasterGrows, Extends
  <2>2. \A k \in 1..(Rec(s, x).sid - 1) : \E j \in DOMAIN list[p] : list[p][j].sid = k
    BY <1>2, <1>12
  <2> HIDE DEF n
  <2> QED  BY <1>2, <1>3, <1>5, <2>1, <2>2, InOrderAppend
<1>14. ASSUME NEW q \in Profiles \ {p}
       PROVE  \E H : /\ Numbering(stset'[q], H)
                     /\ Kept(TRUE, stset'[q], stset'[Master], H)
                     /\ InOrder(stset'[Master], list'[q], H)
  <2>1. PICK H : /\ Numbering(stset[q], H)
                 /\ Kept(phase = "record", stset[q], stset[Master], H)
                 /\ InOrder(stset[Master], list[q], H)
    BY <1>1, ProfilesFacts DEF NInv, OrderInv
  <2>2. Kept(TRUE, stset'[q], stset'[Master], H)
    BY <1>1, <2>1 DEF Kept
  <2>3. InOrder(stset'[Master], list'[q], H)
    <3>1. ASSUME NEW i \in DOMAIN list[q], NEW k \in 1..(list[q][i].sid - 1),
                 Has(stset[Master], H[k])
          PROVE  Has(stset'[Master], H[k])
      <4>1. k \in 1..(stset[q].next - 1)
        BY <1>1, <3>1, ProfilesFacts, SmallerIds
      <4>2. H[k] \in AllStacks
        BY <2>1, <4>1 DEF Numbering
      <4> QED  BY <1>4, <3>1, <4>2 DEF MasterGrows
    <3> QED  BY <1>2, <2>1, <3>1 DEF InOrder
  <2> QED  BY <1>1, <2>1, <2>2, <2>3
<1>15. ASSUME NEW q \in Profiles
       PROVE  \E H : /\ Numbering(stset'[q], H)
                     /\ Kept(TRUE, stset'[q], stset'[Master], H)
                     /\ InOrder(stset'[Master], list'[q], H)
  <2>1. CASE q = p
    <3>1. Kept(TRUE, stset'[p], stset'[Master], G)
      BY <1>7 DEF Kept, Whole
    <3> QED  BY <1>7, <1>13, <2>1, <3>1
  <2>2. CASE q # p
    BY <1>14, <2>2
  <2> QED  BY <2>1, <2>2
<1>16. (phase' = "record") = TRUE
  BY <1>1
<1>17. QED
  BY <1>15, <1>16 DEF OrderInv

\* In the merge only the set being drained and the master change.
LEMMA MovedKeepsOrder ==
  ASSUME NInv, NEW s \in AllStacks, NEW sid \in Nat \ {0}, NEW x \in Nat \ {0},
         Moved(s, sid, x)
  PROVE  OrderInv'
<1>1. /\ MInv /\ TypeOK /\ AtRecord /\ phase = "merge" /\ phase' = phase /\ cur' = cur
      /\ cur \in Profiles /\ Master \in Profiles /\ cur # Master
      /\ Head(list[cur]).stack = s /\ Head(list[cur]).sid = sid
      /\ Loses(stset[cur], stset'[cur], s)
      /\ Gains(stset[Master], stset'[Master], s, sid, x)
      /\ \A q \in Profiles \ {Master, cur} : stset'[q] = stset[q]
      /\ Drain(x)
  BY AtHand DEF NInv, Moved, MInv, AtRecord, Drain, Rec
<1>2. /\ list'[cur] = Tail(list[cur])
      /\ \A q \in Profiles \ {cur} : list'[q] = list[q]
      /\ list[cur] \in Seq(RecordsOf) /\ list[cur] # <<>>
  BY <1>1 DEF Drain, TypeOK, AtRecord
<1>3. /\ \A r \in AllStacks : Has(stset[Master], r) => Has(stset'[Master], r)
      /\ Has(stset'[Master], s)
  <2>1. Gains(stset[Master], stset'[Master], s, sid, x)
    BY <1>1
  <2> QED  BY <2>1, GainsHas
<1>4. Has(stset'[Master], s)
  BY <1>3
<1>5. /\ stset[cur].id[s] = sid /\ Has(stset[cur], s) /\ Unmerged(stset[cur])
      /\ stset'[cur].next = stset[cur].next
      /\ \A r \in AllStacks : Has(stset'[cur], r) =>
            Has(stset[cur], r) /\ stset'[cur].id[r] = stset[cur].id[r]
      /\ \A r \in AllStacks : Has(stset[cur], r) => Has(stset'[cur], r) \/ r = s
  <2>1. stset[cur].id[s] = sid /\ Has(stset[cur], s)
    BY <1>1, OldIsStack
  <2>2. Unmerged(stset[cur])
    BY <1>1, ProfilesFacts DEF MInv, SetsInv
  <2> QED  BY <1>1, <2>1, <2>2 DEF Loses, SameElsewhere, Has
<1>6. ASSUME NEW q \in Profiles, q >= cur
      PROVE  \E F : /\ Numbering(stset'[q], F)
                    /\ Kept(FALSE, stset'[q], stset'[Master], F)
                    /\ InOrder(stset'[Master], list'[q], F)
  <2>1. PICK F : /\ Numbering(stset[q], F)
                 /\ Kept(phase = "record", stset[q], stset[Master], F)
                 /\ InOrder(stset[Master], list[q], F)
    BY <1>6 DEF NInv, OrderInv
  <2>2. q # Master
    BY <1>1, <1>6, ProfilesFacts DEF Master
  <2>3. \A k \in 1..(stset[q].next - 1) :
           /\ F[k] \in AllStacks
           /\ Has(stset[q], F[k]) \/ Has(stset[Master], F[k])
    BY <2>1 DEF Numbering, Kept
  <2>4. CASE q = cur
    <3>1. Numbering(stset'[cur], F)
      BY <1>5, <2>1, <2>4 DEF Numbering
    <3>2. Kept(FALSE, stset'[cur], stset'[Master], F)
      BY <1>3, <1>4, <1>5, <2>3, <2>4 DEF Kept
    <3>3. InOrder(stset'[Master], Tail(list[cur]), F)
      <4>1. F[sid] = s
        BY <1>5, <2>1, <2>4 DEF Numbering
      <4>2. ASSUME NEW i \in DOMAIN list[cur], NEW k \in 1..(list[cur][i].sid - 1)
            PROVE  F[k] \in AllStacks
        <5>1. k \in 1..(stset[cur].next - 1)
          BY <1>1, <4>2, ProfilesFacts, SmallerIds
        <5> QED  BY <2>3, <2>4, <5>1
      <4>3. InOrder(stset'[Master], list[cur], F)
        BY <1>3, <2>1, <2>4, <4>2 DEF InOrder
      <4>4. Head(list[cur]).sid # 0 => Has(stset'[Master], F[Head(list[cur]).sid])
        BY <1>1, <1>4, <4>1
      <4> QED  BY <1>2, <4>3, <4>4, InOrderTail
    <3> QED  BY <1>2, <2>4, <3>1, <3>2, <3>3
  <2>5. CASE q # cur
    <3>1. stset'[q] = stset[q] /\ list'[q] = list[q]
      BY <1>1, <1>2, <2>2, <2>5
    <3>2. Kept(FALSE, stset'[q], stset'[Master], F)
      BY <1>3, <2>3, <3>1 DEF Kept
    <3>3. InOrder(stset'[Master], list'[q], F)
      <4>1. ASSUME NEW i \in DOMAIN list[q], NEW k \in 1..(list[q][i].sid - 1)
            PROVE  F[k] \in AllStacks
        <5>1. k \in 1..(stset[q].next - 1)
          BY <1>1, <1>6, <4>1, SmallerIds
        <5> QED  BY <2>3, <5>1
      <4> QED  BY <1>3, <2>1, <3>1, <4>1 DEF InOrder
    <3> QED  BY <2>1, <3>1, <3>2, <3>3
  <2> QED  BY <2>4, <2>5
<1>7. (phase' = "record") = FALSE
  BY <1>1
<1>8. QED
  BY <1>1, <1>6, <1>7 DEF OrderInv

LEMMA UnrecordedKeepsOrder ==
  ASSUME NInv, NEW p \in Profiles, NEW s \in AllStacks, Unrecorded(p, s)
  PROVE  OrderInv'
<1>1. /\ TypeOK /\ UNCHANGED <<hasSet, stset, phase, cur, drained>>
      /\ Rec(s, 0) \in RecordsOf /\ Rec(s, 0).sid = 0 /\ Appends(p, Rec(s, 0))
  BY DEF NInv, MInv, Unrecorded, Rec, RecordsOf, Appends
<1>2. /\ list'[p] = Append(list[p], Rec(s, 0))
      /\ \A q \in Profiles \ {p} : list'[q] = list[q]
  BY <1>1, ListGrows
<1>3. ASSUME NEW q \in Profiles, NEW F, InOrder(stset[Master], list[q], F)
      PROVE  InOrder(stset[Master], list'[q], F)
  <2>1. CASE q = p
    <3>1. list[p] \in Seq(RecordsOf)
      BY <1>1 DEF TypeOK
    <3>2. \A k \in 1..(Rec(s, 0).sid - 1) : FALSE
      BY <1>1
    <3>3. InOrder(stset[Master], Append(list[p], Rec(s, 0)), F)
      BY <1>1, <1>3, <2>1, <3>1, <3>2, InOrderAppend
    <3> QED  BY <1>2, <2>1, <3>3
  <2>2. CASE q # p
    BY <1>2, <1>3, <2>2
  <2> QED  BY <2>1, <2>2
<1>4. QED
  BY <1>1, <1>3 DEF NInv, OrderInv

LEMMA SettledKeepsOrder ==
  ASSUME NInv, Settled
  PROVE  OrderInv'
<1> DEFINE rec == Head(list[cur])
<1>1. /\ MInv /\ AtRecord /\ UNCHANGED <<stset, phase, cur>>
      /\ list'[cur] = Tail(list[cur])
      /\ \A q \in Profiles \ {cur} : list'[q] = list[q]
      /\ list[cur] \in Seq(RecordsOf) /\ list[cur] # <<>>
      /\ rec.sid # 0 => cur = Master
  BY DEF NInv, MInv, Settled, Drain, AtRecord, TypeOK
<1>2. ASSUME NEW q \in Profiles, q >= cur, NEW F, Numbering(stset[q], F),
             InOrder(stset[Master], list[q], F)
      PROVE  InOrder(stset[Master], list'[q], F)
  <2>1. CASE q = cur
    <3>1. rec.sid # 0 => Has(stset[Master], F[rec.sid])
      <4>1. ASSUME rec.sid # 0
            PROVE  Has(stset[Master], F[rec.sid])
        <5>1. /\ cur = Master /\ rec.stack \in AllStacks
              /\ stset[Master].id[rec.stack] = rec.sid /\ Has(stset[Master], rec.stack)
          BY <1>1, <4>1, OldIsStack
        <5>2. F[rec.sid] = rec.stack
          BY <1>2, <2>1, <5>1 DEF Numbering
        <5> QED  BY <5>1, <5>2
      <4> QED  BY <4>1
    <3>2. InOrder(stset[Master], Tail(list[cur]), F)
      BY <1>1, <1>2, <2>1, <3>1, InOrderTail
    <3> QED  BY <1>1, <2>1, <3>2
  <2>2. CASE q # cur
    BY <1>1, <1>2, <2>2
  <2> QED  BY <2>1, <2>2
<1>3. QED
  BY <1>1, <1>2 DEF NInv, OrderInv

LEMMA NextProfileKeepsOrder ==
  ASSUME NInv, NextProfile
  PROVE  OrderInv'
<1>1. /\ cur \in Profiles /\ cur' = cur + 1 /\ UNCHANGED <<list, phase>>
      /\ stset' = IF cur = Master THEN stset ELSE [stset EXCEPT ![cur] = EmptySet]
      /\ stset \in [Profiles -> StackSets]
  BY DEF NInv, MInv, TypeOK, NextProfile
<1>2. stset'[Master] = stset[Master] /\ \A q \in Profiles : q >= cur' => stset'[q] = stset[q]
  BY <1>1, ProfilesFacts
<1>3. \A q \in Profiles : q >= cur' => q >= cur
  BY <1>1, ProfilesFacts
<1>4. QED
  BY <1>1, <1>2, <1>3 DEF NInv, OrderInv

LEMMA TurnedKeepsOrder ==
  ASSUME NInv, Turned
  PROVE  OrderInv'
<1>1. UNCHANGED <<stset, list, cur>> /\ (phase' = "record") = FALSE
  BY DEF Turned
<1>2. \A q \in Profiles : \A F : Kept(phase = "record", stset[q], stset[Master], F)
                               => Kept(FALSE, stset[q], stset[Master], F)
  BY DEF Kept
<1>3. QED
  BY <1>1, <1>2 DEF NInv, OrderInv

\* The first profile numbers its stacks without a hole.
LEMMA RecordedKeepsDense ==
  ASSUME NInv, NEW p \in Profiles, NEW s \in AllStacks, NEW x \in Nat \ {0},
         Recorded(p, s, x)
  PROVE  DenseInv'
<1>1. /\ Gains(stset[p], stset'[p], s, 0, x)
      /\ \A q \in Profiles \ {p} : stset'[q] = stset[q]
      /\ Master \in Profiles
      /\ stset[p] \in StackSets /\ SetOK(stset[p])
  BY ProfilesFacts DEF NInv, MInv, Recorded, TypeOK, SetsInv
<1>2. CASE p = Master
  <2> SUFFICES ASSUME Distinct(stset'[Master])
               PROVE  \E n \in Nat : Dense(stset'[Master], n)
    BY DEF DenseInv
  <2>1. Gains(stset[Master], stset'[Master], s, 0, x)
    BY <1>1, <1>2
  <2>2. Distinct(stset[Master])
    BY <2>1, GainsHas
  <2>3. PICK n \in Nat : Dense(stset[Master], n)
    BY <2>2 DEF NInv, DenseInv
  <2>4. ~Has(stset[Master], s) => x <= n + 1
    <3>1. ~Has(stset[Master], s) => x = stset[Master].next
      BY <2>1 DEF Gains
    <3> QED  BY <2>3, <3>1 DEF Dense
  <2> QED  BY <1>1, <1>2, <2>1, <2>3, <2>4, GainsDense
<1>3. CASE p # Master
  BY <1>1, <1>3 DEF NInv, DenseInv
<1>4. QED
  BY <1>2, <1>3

\* A stack that is moved into the master makes no hole either.
LEMMA MovedKeepsDense ==
  ASSUME NInv, NEW s \in AllStacks, NEW sid \in Nat \ {0}, NEW x \in Nat \ {0},
         Moved(s, sid, x)
  PROVE  DenseInv'
<1>1. /\ MInv /\ AtRecord /\ cur \in Profiles /\ Master \in Profiles /\ phase = "merge"
      /\ list[cur] \in Seq(RecordsOf) /\ list[cur] # <<>>
      /\ Head(list[cur]).stack = s /\ Head(list[cur]).sid = sid
      /\ Gains(stset[Master], stset'[Master], s, sid, x)
      /\ stset[cur] \in StackSets /\ Unmerged(stset[cur])
      /\ stset[Master] \in StackSets /\ SetOK(stset[Master])
  BY AtHand, ProfilesFacts DEF NInv, MInv, Moved, AtRecord, TypeOK, SetsInv, Rec
<1>2. stset[cur].id[s] = sid /\ Has(stset[cur], s)
  BY <1>1, OldIsStack
<1> SUFFICES ASSUME Distinct(stset'[Master])
             PROVE  \E n \in Nat : Dense(stset'[Master], n)
  BY DEF DenseInv
<1>3. Distinct(stset[Master])
  <2>1. Gains(stset[Master], stset'[Master], s, sid, x)
    BY <1>1
  <2> QED  BY <2>1, GainsHas
<1>4. PICK n \in Nat : Dense(stset[Master], n)
  BY <1>3 DEF NInv, DenseInv
<1>5. PICK F : Numbering(stset[cur], F) /\ InOrder(stset[Master], list[cur], F)
  BY <1>1, ProfilesFacts DEF NInv, OrderInv
<1>6. \A k \in 1..(sid - 1) : Has(stset[Master], F[k])
  <2>1. 1 \in DOMAIN list[cur] /\ list[cur][1].sid = sid
    BY <1>1
  <2> QED  BY <1>5, <2>1 DEF InOrder
<1>7. sid <= n + 1
  BY <1>1, <1>2, <1>3, <1>4, <1>5, <1>6, WaitingIsNext
<1>8. ~Has(stset[Master], s) => x <= n + 1
  <2>1. ~Has(stset[Master], s) => x = sid \/ x = stset[Master].next
    BY <1>1 DEF Gains
  <2> QED  BY <1>4, <1>7, <2>1 DEF Dense
<1>9. QED
  <2>1. Gains(stset[Master], stset'[Master], s, sid, x)
    BY <1>1
  <2> QED  BY <1>1, <1>4, <1>8, <2>1, GainsDense

LEMMA NumbersInit ==
  ASSUME Init
  PROVE  NInv
<1>1. /\ stset = [p \in Profiles |-> EmptySet]
      /\ list = [p \in Profiles |-> <<>>]
      /\ \A p \in Profiles : stset[p] = EmptySet /\ list[p] = <<>>
      /\ stset[Master] = EmptySet
  BY ProfilesFacts DEF Init
<1>2. EmptySet.next = 1 /\ EmptySet.byId = {}
  BY DEF EmptySet
<1>3. DenseInv
  <2>1. Dense(EmptySet, 0)
    BY <1>2, EmptySetOK DEF Dense
  <2> QED  BY <1>1, <2>1 DEF DenseInv
<1>4. OrderInv
  <2> DEFINE F == [k \in 1..0 |-> k]
  <2>1. Numbering(EmptySet, F)
    BY <1>2, EmptySetOK DEF Numbering
  <2>2. Kept(phase = "record", EmptySet, EmptySet, F)
    BY <1>2 DEF Kept
  <2>3. InOrder(EmptySet, <<>>, F)
    BY DEF InOrder
  <2> HIDE DEF F
  <2> QED  BY <1>1, <2>1, <2>2, <2>3 DEF OrderInv
<1>5. QED
  BY <1>3, <1>4, InvInit DEF NInv

LEMMA NumbersNext ==
  ASSUME NInv, [Next]_vars
  PROVE  NInv'
<1>1. MInv'
  BY InvNext DEF NInv
<1>2. OrderInv'
  <2>1. CASE UNCHANGED vars
    <3>1. UNCHANGED <<stset, list, phase, cur>>
      BY <2>1 DEF vars
    <3> QED  BY <3>1 DEF NInv, OrderInv
  <2> QED  BY <2>1, Steps, RecordedKeepsOrder, UnrecordedKeepsOrder, SettledKeepsOrder,
              MovedKeepsOrder, NextProfileKeepsOrder, TurnedKeepsOrder DEF NInv
<1>3. DenseInv'
  <2>1. CASE stset'[Master] = stset[Master]
    BY <2>1 DEF NInv, DenseInv
  <2>2. ASSUME NextProfile PROVE stset'[Master] = stset[Master]
    <3>1. /\ stset' = IF cur = Master THEN stset ELSE [stset EXCEPT ![cur] = EmptySet]
          /\ stset \in [Profiles -> StackSets]
      BY <2>2 DEF NextProfile, NInv, MInv, TypeOK
    <3> QED  BY <3>1, ProfilesFacts
  <2> QED  BY <2>1, <2>2, Steps, RecordedKeepsDense, MovedKeepsDense
           DEF Unrecorded, Settled, Turned, vars, NInv
<1>4. QED
  BY <1>1, <1>2, <1>3 DEF NInv

\* In a set without a hole and without a shared id, a stack stands in the order
\* of the ids where its id says.
LEMMA Position ==
  ASSUME NEW set \in StackSets, NEW n \in Nat, SetOK(set), Distinct(set), Dense(set, n),
         NEW s \in AllStacks, Has(set, s)
  PROVE  Cardinality({r \in {t \in AllStacks : Has(set, t)} : set.id[r] < set.id[s]})
           = set.id[s] - 1
<1> DEFINE before == {r \in {t \in AllStacks : Has(set, t)} : set.id[r] < set.id[s]}
           low == 1..(set.id[s] - 1)
           g == [k \in low |-> CHOOSE r \in before : set.id[r] = k]
<1>1. set.id[s] \in 1..n /\ \A r \in AllStacks : set.id[r] \in Nat
  BY DEF Dense, StackSets
<1>2. \A k \in low : \E r \in before : set.id[r] = k
  <2>1. ASSUME NEW k \in low PROVE \E r \in before : set.id[r] = k
    <3>1. PICK r \in set.byId : set.id[r] = k
      BY <1>1 DEF Dense
    <3>2. r \in AllStacks /\ Has(set, r)
      BY <3>1 DEF SetOK, StackSets
    <3>3. set.id[r] < set.id[s]
      BY <1>1, <3>1
    <3> QED  BY <3>1, <3>2, <3>3
  <2> QED  BY <2>1
<1>3. \A r \in before : r \in AllStacks /\ Has(set, r) /\ set.id[r] \in low
  <2>1. ASSUME NEW r \in before PROVE set.id[r] \in low
    <3>1. set.id[r] \in 1..n /\ set.id[r] < set.id[s]
      BY DEF Dense
    <3> QED  BY <1>1, <3>1
  <2> QED  BY <2>1
<1> HIDE DEF before
<1>4. \A k \in low : g[k] \in before /\ set.id[g[k]] = k
  BY <1>2
<1> HIDE DEF g
<1>5. g \in [low -> before]
  BY <1>4 DEF g
<1>6. \A j, k \in low : g[j] = g[k] => j = k
  BY <1>4
<1>7. \A r \in before : \E k \in low : g[k] = r
  <2>1. ASSUME NEW r \in before PROVE g[set.id[r]] = r
    <3>1. /\ g[set.id[r]] \in before /\ set.id[g[set.id[r]]] = set.id[r]
      BY <1>3, <1>4
    <3> QED  BY <1>3, <3>1 DEF Distinct
  <2> QED  BY <1>3, <2>1
<1>8. g \in Bijection(low, before)
  BY <1>5, <1>6, <1>7 DEF Bijection, Injection, Surjection, IsInjective
<1>9. IsFiniteSet(low) /\ Cardinality(low) = set.id[s] - 1
  <2>1. \A m \in Nat : IsFiniteSet(1..m) /\ Cardinality(1..m) = m
    BY FS_Interval
  <2>2. set.id[s] - 1 \in Nat
    BY <1>1
  <2> QED  BY <2>1, <2>2
<1>10. Cardinality(before) = set.id[s] - 1
  <2> HIDE DEF low
  <2> QED  BY <1>8, <1>9, FS_Bijection DEF ExistsBijection
<1>11. QED
  BY <1>10 DEF before

(* mprofile.py takes the stack at the position of the id.  It is the stack *)
(* of the record whenever no two stacks of the merged profile share an id: *)
(* whatever was moved or copied, the ids then have no hole.                *)
THEOREM ReaderIsRight == Spec => []ReaderFindsStacks
<1>1. NInv => ReaderFindsStacks
  <2> SUFFICES ASSUME NInv, phase = "done",
                      \A r, s \in Printed : PrintedId(r) = PrintedId(s) => r = s,
                      NEW i \in DOMAIN drained, drained[i].sid # 0
               PROVE  GetStack(drained[i].sid) = {drained[i].stack}
    BY DEF ReaderFindsStacks
  <2> DEFINE m == stset[Master]
             sid == drained[i].sid
             stack == drained[i].stack
  <2>1. /\ m \in StackSets /\ SetOK(m)
        /\ Keeps(m, drained[i]) /\ drained[i] \in RecordsOf
    BY ProfilesFacts DEF NInv, MInv, TypeOK, SetsInv, RecordsInv
  <2>2. stack \in AllStacks /\ Has(m, stack) /\ m.id[stack] = sid
    BY <2>1 DEF Keeps, RecordsOf
  <2>3. Distinct(m)
    BY DEF Printed, PrintedId, Distinct
  <2>4. PICK n \in Nat : Dense(m, n)
    BY <2>3 DEF NInv, DenseInv
  <2>5. \A s \in Printed : Cardinality({r \in Printed : PrintedId(r) < PrintedId(s)}) = m.id[s] - 1
    <3>1. ASSUME NEW s \in AllStacks, Has(m, s)
          PROVE  Cardinality({r \in {t \in AllStacks : Has(m, t)} : m.id[r] < m.id[s]})
                   = m.id[s] - 1
      <4> HIDE DEF m
      <4> QED  BY <2>1, <2>3, <2>4, <3>1, Position
    <3> QED  BY <3>1 DEF Printed, PrintedId
  <2>6. \A s \in Printed : s \in AllStacks /\ Has(m, s) /\ m.id[s] \in Nat
    BY <2>1 DEF Printed, StackSets
  <2>7. GetStack(sid) = {s \in Printed : m.id[s] - 1 = sid - 1}
    <3> HIDE DEF m, sid
    <3> QED  BY <2>5 DEF GetStack
  <2>8. \A s \in Printed : m.id[s] - 1 = sid - 1 <=> s = stack
    <3>1. sid \in Nat
      BY <2>1 DEF RecordsOf
    <3>2. ASSUME NEW s \in Printed, m.id[s] = sid PROVE s = stack
      BY <2>2, <2>3, <2>6, <3>2 DEF Distinct
    <3> HIDE DEF m, sid, stack
    <3> QED  BY <2>2, <2>6, <3>1, <3>2
  <2>9. stack \in Printed
    BY <2>2 DEF Printed
  <2>10. QED
    BY <2>7, <2>8, <2>9
<1>2. Init => NInv
  BY NumbersInit
<1>3. NInv /\ [Next]_vars => NInv'
  BY NumbersNext
<1>4. QED
  BY <1>1, <1>2, <1>3, PTL DEF Spec
=============================================================================
