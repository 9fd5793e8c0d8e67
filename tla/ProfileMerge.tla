---------------------------- MODULE ProfileMerge ----------------------------
(***************************************************************************)
(* The call stacks of modes 3 and 5: mprofile/stack.c, where it is called  *)
(* from the recording functions and from mprofile_save() in                *)
(* mprofile/record.c.                                                      *)
(*                                                                         *)
(* A thread keeps each distinct call stack once, with the number of its    *)
(* records that have it, in the stack set of its profile.  A set is two    *)
(* red-black trees over the same stacks, one ordered by the frames, one by *)
(* the id.  At exit the set of every profile is merged into that of the    *)
(* first one, the master, record by record.                                *)
(*                                                                         *)
(* Threads do not share a set, and the merge starts when they are joined   *)
(* (TraceSave has the races), so the grain is a record at a time.          *)
(***************************************************************************)
EXTENDS Integers, Sequences, FiniteSets

CONSTANTS
    Stacks,      \* call stacks, equal when stack_compare() says so
    Empties,     \* empty stacks: each is a stack of its own, see RecordEmpty
    NumProfiles, \* profiles, numbered in the order they were created
    MaxRecords,  \* bound on the records made
    NoMemory     \* may the allocation of a stack set or of a stack's copy fail?

ASSUME StacksAssumption == Stacks \cap Empties = {}
ASSUME BoundsAssumption == NumProfiles \in Nat \ {0} /\ MaxRecords \in Nat
ASSUME MemoryAssumption == NoMemory \in BOOLEAN

VARIABLES
    hasSet,   \* the profiles whose stack set could be allocated
    stset,    \* the stack set of each profile, without stacks if there is none
    list,     \* the records of each profile, here just their stacks
    phase,    \* "record", "merge", "done", or "aborted"
    cur,      \* the profile being drained
    drained   \* the records moved to the sorter

vars == <<hasSet, stset, list, phase, cur, drained>>

Profiles == 1..NumProfiles
Master == 1
AllStacks == Stacks \cup Empties

\* id and count of the stacks in the tree ordered by frames, the stacks in the
\* tree ordered by id, and stset_id.
EmptySet == [id |-> [s \in AllStacks |-> 0], count |-> [s \in AllStacks |-> 0],
             byId |-> {}, next |-> 1]

Has(set, s) == set.id[s] # 0
IdTaken(set, id) == \E s \in set.byId : set.id[s] = id

Init ==
    /\ hasSet \in IF NoMemory THEN SUBSET Profiles ELSE {Profiles}
    /\ stset = [p \in Profiles |-> EmptySet]
    /\ list = [p \in Profiles |-> <<>>]
    /\ phase = "record"
    /\ cur = Master
    /\ drained = <<>>

-----------------------------------------------------------------------------
(* The operations of stack.c on one set.                                   *)

\* Variant: the counter is raised before the id is taken from it.
AddCopyRaised(set, s, count) ==
    [id    |-> [set.id EXCEPT ![s] = set.next + 1],
     count |-> [set.count EXCEPT ![s] = count],
     byId  |-> IF IdTaken(set, set.next + 1) THEN set.byId ELSE set.byId \cup {s},
     next  |-> set.next + 1]

\* mprofile_add_stack() of a stack the set does not have, with the count that
\* mprofile_copy_stack() gives the copy.  The insertion by id is not checked:
\* it fails silently when the id is taken.
AddCopy(set, s, count) ==
    [id    |-> [set.id EXCEPT ![s] = set.next],
     count |-> [set.count EXCEPT ![s] = count],
     byId  |-> IF IdTaken(set, set.next) THEN set.byId ELSE set.byId \cup {s},
     next  |-> set.next + 1]

CountUp(set, s) == [set EXCEPT !.count[s] = @ + 1]
CountDown(set, s) == [set EXCEPT !.count[s] = @ - 1]

\* Variant: a stack the set has already is not counted.
AddStackOnce(set, s) == IF Has(set, s) THEN set ELSE AddCopy(set, s, 1)

AddStack(set, s) == IF Has(set, s) THEN CountUp(set, s) ELSE AddCopy(set, s, 1)

\* Out of both trees, and into both trees with a given id.
Remove(set, s) ==
    [set EXCEPT !.id[s] = 0, !.count[s] = 0, !.byId = @ \ {s}]

Insert(set, s, id) ==
    [set EXCEPT !.id[s] = id, !.count[s] = 1, !.byId = @ \cup {s}]

-----------------------------------------------------------------------------
(* Recording: mprofile_record_alloc(), _free() and _realloc().             *)

TotalRecords ==
    LET upTo[p \in 0..NumProfiles] == IF p = 0 THEN 0 ELSE upTo[p - 1] + Len(list[p])
    IN  upTo[NumProfiles]

\* A profile is created for the first call of a thread, after those before it.
Created(p) == \A q \in 1..(p - 1) : list[q] # <<>>

CanRecord(p) == phase = "record" /\ TotalRecords < MaxRecords /\ Created(p)

Rec(s, sid) == [stack |-> s, sid |-> sid]

RecordStack(p, s) ==
    /\ CanRecord(p)
    /\ p \in hasSet
    /\ LET set == AddStack(stset[p], s)
       IN  /\ stset' = [stset EXCEPT ![p] = set]
           /\ list' = [list EXCEPT ![p] = Append(@, Rec(s, set.id[s]))]
    /\ UNCHANGED <<hasSet, phase, cur, drained>>

\* realloc(b, 0) is recorded before the backtrace is collected.  Of stacks
\* without frames stack_compare() compares the word before the frames, which
\* is the pointer to them: two empty stacks are never equal.
RecordEmpty(p, e) ==
    /\ \A q \in Profiles : \A i \in DOMAIN list[q] : list[q][i].stack # e
    /\ RecordStack(p, e)

\* Variant: the missing stack has the id -1.
RecordNoMemoryMinusOne(p, s) ==
    /\ NoMemory
    /\ CanRecord(p)
    /\ ~Has(stset[p], s)
    /\ list' = [list EXCEPT ![p] = Append(@, Rec(s, -1))]
    /\ UNCHANGED <<hasSet, stset, phase, cur, drained>>

\* There is no set, or no copy could be made: the record has no stack.
RecordNoMemory(p, s) ==
    /\ NoMemory
    /\ CanRecord(p)
    /\ ~Has(stset[p], s)
    /\ list' = [list EXCEPT ![p] = Append(@, Rec(s, 0))]
    /\ UNCHANGED <<hasSet, stset, phase, cur, drained>>

\* There is a master when there was a call (TraceSave has the other case).
Exit ==
    /\ phase = "record"
    /\ list[Master] # <<>>
    /\ phase' = "merge"
    /\ UNCHANGED <<hasSet, stset, list, cur, drained>>

-----------------------------------------------------------------------------
(* mprofile_save() draining profile cur, and mprofile_merge_stack().       *)

Drain(sid) ==
    /\ list' = [list EXCEPT ![cur] = Tail(@)]
    /\ drained' = Append(drained, Rec(Head(list[cur]).stack, sid))
    /\ UNCHANGED <<hasSet, phase, cur>>

Abort ==
    /\ phase' = "aborted"
    /\ UNCHANGED <<hasSet, stset, list, cur, drained>>

AtRecord == phase = "merge" /\ cur \in Profiles /\ list[cur] # <<>>

\* The stack the id tree of the source knows under the id of the record.
Old == {s \in stset[cur].byId : stset[cur].id[s] = Head(list[cur]).sid}

MergeNoStack ==
    /\ AtRecord
    /\ Head(list[cur]).sid = 0
    /\ Drain(0)
    /\ UNCHANGED stset

\* The destination once the stack left the source, which may be the same set.
Taken(s) == [stset EXCEPT ![cur] = Remove(@, s)]

\* Variant: the record keeps the id that its stack had in the source.
MergeMoveOldId(s) ==
    LET dst == Taken(s)[Master]
        id == stset[cur].id[s]
    IN  /\ stset[cur].count[s] = 1
        /\ Drain(id)
        /\ stset' = [Taken(s) EXCEPT ![Master] =
                        IF Has(dst, s) THEN CountUp(dst, s)
                        ELSE IF IdTaken(dst, id)
                             THEN [Insert(dst, s, dst.next) EXCEPT !.next = @ + 1]
                             ELSE Insert(dst, s, id)]

\* The last record with this stack: move it, unless the destination has it.
MergeMove(s) ==
    LET dst == Taken(s)[Master]
        id == stset[cur].id[s]
    IN  /\ stset[cur].count[s] = 1
        /\ \/ /\ Has(dst, s)
              /\ stset' = [Taken(s) EXCEPT ![Master] = CountUp(dst, s)]
              /\ Drain(dst.id[s])
           \/ /\ ~Has(dst, s) /\ ~IdTaken(dst, id)
              /\ stset' = [Taken(s) EXCEPT ![Master] = Insert(dst, s, id)]
              /\ Drain(id)
           \/ /\ ~Has(dst, s) /\ IdTaken(dst, id) /\ ~IdTaken(dst, dst.next)
              /\ stset' = [Taken(s) EXCEPT
                             ![Master] = [Insert(dst, s, dst.next) EXCEPT !.next = @ + 1]]
              /\ Drain(dst.next)
           \/ /\ ~Has(dst, s) /\ IdTaken(dst, id) /\ IdTaken(dst, dst.next)
              /\ Abort   \* assert(chk_mps_id == NULL)

\* Variant: the count of the source is left alone.
MergeCopyKeepsCount(s) ==
    LET dst == stset[Master]
        new == IF Has(dst, s) THEN CountUp(dst, s)
                              ELSE AddCopy(dst, s, stset[cur].count[s])
    IN  /\ stset[cur].count[s] > 1
        /\ stset' = [stset EXCEPT ![Master] = new]
        /\ Drain(new.id[s])

\* More records have this stack: put a copy into the destination, which takes
\* over the count, or count once more what is there already.
MergeCopy(s) ==
    LET dst == stset[Master]
        new == IF Has(dst, s) THEN CountUp(dst, s)
                              ELSE AddCopy(dst, s, stset[cur].count[s])
        merged == [stset EXCEPT ![Master] = new]
    IN  /\ stset[cur].count[s] > 1
        /\ stset' = [merged EXCEPT ![cur] = CountDown(@, s)]
        /\ Drain(new.id[s])

MergeNoMemory(s) ==
    /\ NoMemory
    /\ stset[cur].count[s] > 1 /\ ~Has(stset[Master], s)
    /\ Abort

\* assert(old_mps != NULL); a set that is not there is looked up by its NULL.
MergeStack ==
    /\ AtRecord
    /\ Head(list[cur]).sid # 0
    /\ IF Old = {} \/ Master \notin hasSet
       THEN Abort
       ELSE \E s \in Old : MergeMove(s) \/ MergeCopy(s) \/ MergeNoMemory(s)

\* The profile is drained, and destroyed when it is not the master.
NextProfile ==
    /\ phase = "merge" /\ cur \in Profiles /\ list[cur] = <<>>
    /\ stset' = IF cur = Master THEN stset ELSE [stset EXCEPT ![cur] = EmptySet]
    /\ cur' = cur + 1
    /\ UNCHANGED <<hasSet, list, phase, drained>>

Finish ==
    /\ phase = "merge" /\ cur > NumProfiles
    /\ phase' = "done"
    /\ UNCHANGED <<hasSet, stset, list, cur, drained>>

Terminated == phase \in {"done", "aborted"} /\ UNCHANGED vars

Next ==
    \/ \E p \in Profiles, s \in Stacks : RecordStack(p, s) \/ RecordNoMemory(p, s)
    \/ \E p \in Profiles, e \in Empties : RecordEmpty(p, e)
    \/ Exit
    \/ MergeNoStack \/ MergeStack
    \/ NextProfile \/ Finish
    \/ Terminated

Spec == Init /\ [][Next]_vars
-----------------------------------------------------------------------------
(* Properties.                                                             *)

StackSets == [id : [AllStacks -> Nat], count : [AllStacks -> Nat],
              byId : SUBSET AllStacks, next : Nat]
RecordsOf == [stack : AllStacks, sid : Nat]

(* Types of the variables.                                                 *)
TypeOK ==
    /\ hasSet \subseteq Profiles
    /\ stset \in [Profiles -> StackSets]
    /\ list \in [Profiles -> Seq(RecordsOf)]
    /\ phase \in {"record", "merge", "done", "aborted"}
    /\ cur \in 1..(NumProfiles + 1)
    /\ drained \in Seq(RecordsOf)

Instances(records, s) ==
    Cardinality({i \in DOMAIN records : records[i].stack = s /\ records[i].sid # 0})

(* A record waiting to be merged finds its own stack under its id, so      *)
(* assert(old_mps # NULL) holds; and in a profile that is not the master   *)
(* the count of a stack is the number of records that still refer to it:   *)
(* no stack leaves the set before its last record, and every stack has     *)
(* left it when the profile is destroyed (mprofile_merge_stack).           *)
SourceCountsRecords ==
    /\ \A p \in Profiles : \A i \in DOMAIN list[p] :
          LET rec == list[p][i]
          IN  rec.sid # 0 =>
                 {s \in stset[p].byId : stset[p].id[s] = rec.sid} = {rec.stack}
    /\ \A p \in Profiles \ {Master}, s \in AllStacks :
          /\ stset[p].count[s] = Instances(list[p], s)
          /\ Has(stset[p], s) <=> Instances(list[p], s) > 0

(* The master is merged into itself first.  That takes its stacks out one  *)
(* by one and puts them back, or counts them up and down, and must change  *)
(* neither an id nor a count.                                              *)
MasterKeepsStacks ==
    [][cur = Master /\ phase = "merge" => stset'[Master] = stset[Master]]_vars

(* A merged record has the id under which the master prints its stack; and *)
(* every stack of the master is the stack of a record, and is counted at   *)
(* least as often as there are records of it.                              *)
RecordsKeepStacks ==
    /\ \A i \in DOMAIN drained :
          LET rec == drained[i]
          IN  rec.sid # 0 => Has(stset[Master], rec.stack)
                             /\ stset[Master].id[rec.stack] = rec.sid
    /\ phase = "done" =>
          \A s \in AllStacks :
             /\ Has(stset[Master], s) => Instances(drained, s) > 0
             /\ stset[Master].count[s] >= Instances(drained, s)

(* stack.c:321-324: a moved stack gets an id which is unique for the       *)
(* destination set, as assert(chk_mps_id == NULL) in stack.c:319 checks.   *)
(* But stset_id of the destination is not raised when a stack brings its   *)
(* id along.                                                               *)
MoveNeverAborts == phase # "aborted"

Printed == {s \in AllStacks : Has(stset[Master], s)}
PrintedId(s) == stset[Master].id[s]

\* mprofile.py sorts the stacks by id, and get_stack() takes the one at the
\* position of the id, whatever its id is.
GetStack(sid) ==
    {s \in Printed : Cardinality({r \in Printed : PrintedId(r) < PrintedId(s)}) = sid - 1}

(* The reader finds the stack of every record: as long as no two stacks    *)
(* were given the same id, the ids of the merged set have no hole, though  *)
(* some were moved in from other sets and others generated.                *)
ReaderFindsStacks ==
    phase = "done" /\ (\A r, s \in Printed : PrintedId(r) = PrintedId(s) => r = s) =>
        \A i \in DOMAIN drained :
            drained[i].sid # 0 => GetStack(drained[i].sid) = {drained[i].stack}
=============================================================================
