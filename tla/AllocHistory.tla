---------------------------- MODULE AllocHistory ----------------------------
(***************************************************************************)
(* What the log of modes 2 to 5 of libmprofile.so promises its readers:    *)
(* read in the order of the record ids, it is the history of a heap.  A    *)
(* block is allocated at an address that is not in use, freed once, and    *)
(* every record but an allocation continues the chain of the record that   *)
(* last touched the same block (build_chains() in mprofile/record.c, and   *)
(* the replay in mprofile/scripts/mprofile.py, depend on it).              *)
(***************************************************************************)
EXTENDS Integers, Sequences, FiniteSetsExt

CONSTANTS
    Addrs,   \* addresses of blocks
    NULL,    \* the null pointer
    Sizes    \* sizes of blocks

ASSUME AddrAssumption == NULL \notin Addrs
ASSUME SizeAssumption == Sizes \subseteq Nat

VARIABLES
    log,     \* the records, in the order of their ids
    open,    \* id of the last record of the block at an address, 0 if none
    bytes    \* size of that block, as the deltas in the log say

histVars == <<log, open, bytes>>

HistInit ==
    /\ log = <<>>
    /\ open = [a \in Addrs |-> 0]
    /\ bytes = [a \in Addrs |-> 0]

Id == Len(log) + 1

Entry(state, mem, old, delta, prev) ==
    [state |-> state, mem |-> mem, realloc |-> old, delta |-> delta, prev |-> prev]

LogAlloc(a, sz) ==
    /\ open[a] = 0
    /\ log' = Append(log, Entry("ALLOC", a, NULL, sz, 0))
    /\ open' = [open EXCEPT ![a] = Id]
    /\ bytes' = [bytes EXCEPT ![a] = sz]

\* Variant: the block stays open.
LogFreeKeepsOpen(a) ==
    /\ open[a] # 0
    /\ log' = Append(log, Entry("FREE", a, NULL, -bytes[a], open[a]))
    /\ bytes' = [bytes EXCEPT ![a] = 0]
    /\ UNCHANGED open

LogFree(a) ==
    /\ open[a] # 0
    /\ log' = Append(log, Entry("FREE", a, NULL, -bytes[a], open[a]))
    /\ open' = [open EXCEPT ![a] = 0]
    /\ bytes' = [bytes EXCEPT ![a] = 0]

\* free(NULL) is a record of its own that belongs to no chain.
LogFreeNull ==
    /\ log' = Append(log, Entry("FREE", NULL, NULL, 0, 0))
    /\ UNCHANGED <<open, bytes>>

\* Variant: the old address stays open.
LogReallocKeepsOld(old, new, sz) ==
    /\ open[old] # 0
    /\ new # old => open[new] = 0
    /\ log' = Append(log, Entry("REALLOC", new, old, sz - bytes[old], open[old]))
    /\ open' = [open EXCEPT ![new] = Id]
    /\ bytes' = [[bytes EXCEPT ![old] = 0] EXCEPT ![new] = sz]

LogRealloc(old, new, sz) ==
    /\ open[old] # 0
    /\ new # old => open[new] = 0
    /\ log' = Append(log, Entry("REALLOC", new, old, sz - bytes[old], open[old]))
    /\ open' = [[open EXCEPT ![old] = 0] EXCEPT ![new] = Id]
    /\ bytes' = [[bytes EXCEPT ![old] = 0] EXCEPT ![new] = sz]

HistNext ==
    \/ \E a \in Addrs, sz \in Sizes : LogAlloc(a, sz)
    \/ \E a \in Addrs : LogFree(a)
    \/ LogFreeNull
    \/ \E old, new \in Addrs, sz \in Sizes : LogRealloc(old, new, sz)

HistSpec == HistInit /\ [][HistNext]_histVars

-----------------------------------------------------------------------------
(* Properties.                                                             *)

(* A chain is a list: a record continues an earlier one that left a block  *)
(* behind, at the address the record releases, and no record is continued  *)
(* twice. These are build_chains()'s assertions that mpr_next_id and       *)
(* mpr_prev_id are still unset when it links two records.                  *)
ChainsLinear ==
    \A i \in DOMAIN log : log[i].prev # 0 =>
        /\ log[i].prev \in 1..(i - 1)
        /\ log[log[i].prev].state # "FREE"
        /\ log[log[i].prev].mem
               = IF log[i].state = "REALLOC" THEN log[i].realloc ELSE log[i].mem
        /\ \A j \in DOMAIN log : log[j].prev = log[i].prev => j = i

Continued(i) == \E j \in DOMAIN log : log[j].prev = i

(* The way mprofile.py finds leaks is right: the records that are not a    *)
(* FREE and are continued by nothing are the last records of the blocks    *)
(* that are still allocated, one for each.                                 *)
LeaksAreOpen ==
    /\ \A i \in DOMAIN log :
          (log[i].state # "FREE" /\ ~Continued(i)) <=> (\E a \in Addrs : open[a] = i)
    /\ \A a, b \in Addrs : open[a] = open[b] /\ open[a] # 0 => a = b
=============================================================================
