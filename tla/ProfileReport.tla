---------------------------- MODULE ProfileReport ----------------------------
(***************************************************************************)
(* mprofile/scripts/mprofile.py, class MProfile, over the logs that        *)
(* AllocHistory allows: what the reader computes from a file, compared     *)
(* with the heap the file is the history of.                               *)
(*                                                                         *)
(* The reader changes nothing, so it is given by operators; the behaviours *)
(* are those of AllocHistory, and every log is one a file may hold.  The   *)
(* position of a record in the file is its id (OutputIsHistory in          *)
(* TraceSave), so a log is the list _mem_records.                          *)
(***************************************************************************)
EXTENDS AllocHistory, Functions

CONSTANT MaxSamples    \* largest argument of --samples

ASSUME MaxSamplesAssumption == MaxSamples \in Nat
ASSUME FiniteAssumption == IsFiniteSet(Addrs)

VARIABLE linked    \* the file has chains (modes 4 and 5)

reportVars == <<histVars, linked>>

ReportInit == HistInit /\ linked \in BOOLEAN
ReportNext == HistNext /\ UNCHANGED linked

ReportSpec == ReportInit /\ [][ReportNext]_reportVars

-----------------------------------------------------------------------------
Records == DOMAIN log

\* Variant: the next record at the same address, whatever block it is of.
GetNextByAddress(i) ==
    IF linked /\ \E j \in Records : j > i /\ log[j].mem = log[i].mem
    THEN CHOOSE j \in Records :
            /\ j > i /\ log[j].mem = log[i].mem
            /\ \A k \in (i + 1)..(j - 1) : log[k].mem # log[i].mem
    ELSE 0

\* get_next(): None is 0.  Without chains every next-id is 0.
GetNext(i) ==
    IF linked /\ Continued(i) THEN CHOOSE j \in Records : log[j].prev = i ELSE 0

\* __calc_current()
Current[i \in 0..Len(log)] == IF i = 0 THEN 0 ELSE Current[i - 1] + log[i].delta

\* The loop of is_leak(), and that of get_chain(), along the next-ids.
LastOf[i \in Records] == IF GetNext(i) = 0 THEN i ELSE LastOf[GetNext(i)]

\* Variant: a reallocated block is looked for in the record of the realloc, too.
IsLeakAnyStart(i) == log[i].state # "FREE" /\ log[LastOf[i]].state # "FREE"

IsLeak(i) == log[i].state = "ALLOC" /\ log[LastOf[i]].state # "FREE"

Leaks == {i \in Records : IsLeak(i)}

GetChain[i \in Records] ==
    <<i>> \o (IF GetNext(i) = 0 THEN <<>> ELSE GetChain[GetNext(i)])

GetLeakSz[i \in Records] ==
    log[i].delta + (IF GetNext(i) = 0 THEN 0 ELSE GetLeakSz[GetNext(i)])

\* Variant: a chain has the size it began with.
LostBytesAtFirst == SumFunctionOnSet([i \in Records |-> log[i].delta], Leaks)

\* report_leaks(), report_to_html()
LostBytes == SumFunctionOnSet(GetLeakSz, Leaks)

Grow(i) == IF log[i].delta < 0 THEN 0 ELSE log[i].delta

GetTotalMem == SumFunction([i \in Records |-> Grow(i)])

\* max() with a key returns the first of the largest.
MaxBy(I) ==
    CHOOSE i \in I : \A j \in I :
        Current[j] < Current[i] \/ (Current[j] = Current[i] /\ i <= j)

GetMemPeak == MaxBy(Records)

SliceSize(count) == Len(log) \div count

\* Variant: the records behind the last full slice are left out.
SlicesFull(count) ==
    [s \in 1 .. Len(log) \div SliceSize(count) |->
        (s - 1) * SliceSize(count) + 1 .. s * SliceSize(count)]

\* Consecutive slices of that size; the last one may be shorter.
Slices(count) ==
    LET size == SliceSize(count)
    IN  [s \in 1 .. (Len(log) + size - 1) \div size |->
            ((s - 1) * size + 1 .. s * size) \cap Records]

Samples(count) == [s \in DOMAIN Slices(count) |-> MaxBy(Slices(count)[s])]

\* all_ops(): the samples, or all records if there are too few.
AllOps(count) ==
    IF count = 0 \/ SliceSize(count) = 0 THEN [i \in Records |-> i] ELSE Samples(count)

-----------------------------------------------------------------------------
(* Properties.                                                             *)

OpenBlocks == {a \in Addrs : open[a] # 0}
Freed == {i \in Records : log[i].state = "FREE" /\ log[i].mem # NULL}

(* With chains the leaks of the report are the blocks that were not freed: *)
(* one leak for each, found from its first record, with the size the block *)
(* has at the end, however often it was moved and resized and its address  *)
(* used before (is_leak(), get_leak_sz()).  In modes without chains the    *)
(* report counts every freed block as well, since is_leak() cannot see its *)
(* FREE.                                                                   *)
LeaksAreBlocks ==
    /\ linked => /\ {LastOf[i] : i \in Leaks} = {open[a] : a \in OpenBlocks}
                 /\ \A i \in Leaks : GetLeakSz[i] = bytes[log[LastOf[i]].mem]
    /\ Cardinality(Leaks)
         = Cardinality(OpenBlocks) + IF linked THEN 0 ELSE Cardinality(Freed)

(* The figures of the report agree with the heap and with each other: the  *)
(* plotted curve ends at the bytes in open blocks, which are the bytes     *)
(* reported as lost, and never exceeds the total that was allocated nor    *)
(* falls below nothing, whatever the reallocs in between.                  *)
FiguresAgree ==
    /\ Current[Len(log)] = SumFunction(bytes)
    /\ linked => LostBytes = Current[Len(log)]
    /\ \A i \in Records : Current[i] \in 0..GetTotalMem

(* The chains from the ALLOC records are a partition of the log: following *)
(* the next-ids (get_chain()) ends, and every record but a free(NULL) is   *)
(* the history of exactly one block.                                       *)
ChainsPartitionLog ==
    linked =>
        \A i \in Records : log[i].mem # NULL =>
            Cardinality({at \in Records \X Records :
                /\ log[at[1]].state = "ALLOC"
                /\ at[2] \in DOMAIN GetChain[at[1]]
                /\ GetChain[at[1]][at[2]] = i}) = 1

(* Sampling keeps the shape of the curve: whatever the number of samples   *)
(* asked for, every point of the curve has a point as high as it or higher *)
(* among the samples, less than one part in count of the log away; so the  *)
(* plot has the peak -m prints, and no local peak is lost.  The samples    *)
(* are in the order of the log, and at least as many as asked for          *)
(* (samples()).                                                            *)
SamplesKeepPeak ==
    \A count \in 1..MaxSamples :
        LET ops == AllOps(count)
        IN  /\ \A i \in Records : \E s \in DOMAIN ops :
                  /\ Current[i] <= Current[ops[s]]
                  /\ (ops[s] - i) * count < Len(log) /\ (i - ops[s]) * count < Len(log)
            /\ \A r, s \in DOMAIN ops : r < s => ops[r] < ops[s]
            /\ Len(log) >= count => Len(ops) >= count

(* The plot is made "only from 100 evenly distributed samples"             *)
(* (mprofile/ReadMe.txt:105-106, of --samples 100); a remainder of the     *)
(* division makes more slices than that, in short logs nearly twice.       *)
SamplesAsAsked ==
    \A count \in 1..MaxSamples : Len(AllOps(count)) <= count
=============================================================================
