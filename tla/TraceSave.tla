------------------------------ MODULE TraceSave ------------------------------
(***************************************************************************)
(* The exit handlers of modes 2 to 5, save_profile_trace() and             *)
(* save_profile_trace_link_chains() in mprofile/init.c: mprofile_save() in *)
(* mprofile/record.c merges the profiles of all threads into the first of  *)
(* them (`master'), sorts the records by id, links the records of a block  *)
(* to a chain when LinkChains is set, and writes the result.               *)
(*                                                                         *)
(* The handler takes no lock.  Threads that main() did not join go on      *)
(* calling the wrappers meanwhile, so this module composes the handler     *)
(* with Recorder, one TAILQ or RB operation of the handler per step.  A    *)
(* TAILQ operation is atomic here; the data races within one are not       *)
(* modelled, and little is claimed for a run whose threads were not joined.*)
(***************************************************************************)
EXTENDS Recorder

CONSTANTS
    Main,         \* the thread that returns from main() and runs atexit()
    MayRace,      \* may main() return while other threads go on?
    LinkChains    \* modes 4 and 5: link the records of a block to a chain

ASSUME MainAssumption == Main \in Threads
ASSUME SaveFlagsAssumption == {MayRace, LinkChains} \subseteq BOOLEAN

VARIABLES
    save,       \* what the exit handler does next
    joined,     \* main() joined its threads before it returned
    walk,       \* the profile to drain next, read before the current one is
    cur,        \* the profile being drained
    master,     \* the profile that collects the records, 0 if there is none
    destroyed,  \* profiles that were freed
    sorter,     \* records drained from the profiles, a tree ordered by id
    memtree,    \* build_chains(): the last record of each address
    linked,     \* build_chains(): how many records it has been through
    nextId,     \* mpr_next_id of each record
    prevId,     \* mpr_prev_id of each record
    output,     \* ids of the records written, in the order they are written
    aborted     \* assert() or abort() ended the process

merge == <<walk, cur, master, destroyed, sorter>>
chains == <<memtree, linked, nextId, prevId>>
saveVars == <<save, joined, merge, chains, output, aborted>>
allVars == <<vars, saveVars>>

Ids == 1..MaxCalls

SaveInit ==
    /\ Init
    /\ save = "run"
    /\ joined = TRUE
    /\ walk = 0 /\ cur = 0 /\ master = 0
    /\ destroyed = {} /\ sorter = {} /\ memtree = {}
    /\ linked = 0
    /\ nextId = [i \in Ids |-> 0]
    /\ prevId = [i \in Ids |-> 0]
    /\ output = <<>>
    /\ aborted = FALSE

Running == ~crashed /\ ~aborted /\ save # "done"

-----------------------------------------------------------------------------
(* The threads.                                                            *)

\* The profile a thread is about to link its record into was freed: the write
\* to freed memory ends the process or goes unnoticed.
UseAfterFree(t) ==
    /\ pc[t] = "insert" /\ req[t].mp \in destroyed
    /\ \/ crashed' = TRUE /\ UNCHANGED <<pc, req, held>>
       \/ Finish(t) /\ UNCHANGED crashed
    /\ UNCHANGED <<libc, profileVars, mprId, calls, ghosts>>

Work(t) ==
    /\ Running
    /\ joined \/ t = Main => save = "run"
    /\ \/ Call(t)
       \/ TakeId(t) \/ RecordLost(t) \/ LibcRelease(t)
       \/ InsertTail(t) /\ req[t].mp \notin destroyed
       \/ UseAfterFree(t)
    /\ UNCHANGED saveVars

-----------------------------------------------------------------------------
(* mprofile_save(): collecting the records.                                *)

FirstProfile == IF profiles = <<>> THEN 0 ELSE Head(profiles)

\* main() returned: the handler deletes the key and starts on the profiles.
Exit ==
    /\ Running /\ save = "run"
    /\ pc[Main] = "idle"
    /\ \/ joined' = TRUE /\ \A t \in Threads : pc[t] = "idle"
       \/ joined' = FALSE /\ MayRace
    /\ keyValid' = FALSE
    /\ walk' = FirstProfile
    /\ save' = "profiles"
    /\ UNCHANGED <<libc, held, tls, profiles, list, mprId, pc, req, calls, crashed, ghosts,
                   cur, master, destroyed, sorter, chains, output, aborted>>

\* Variant: the walk does not get to the next profile.
SaveTakeProfileStuck ==
    /\ Running /\ save = "profiles" /\ walk # 0
    /\ cur' = walk
    /\ master' = IF master = 0 THEN walk ELSE master
    /\ save' = "records"
    /\ UNCHANGED <<vars, walk, destroyed, sorter, joined, chains, output, aborted>>

\* The next profile leaves the list.  The one after it is determined now: a
\* profile added while the last one is drained is not found any more.
SaveTakeProfile ==
    /\ Running /\ save = "profiles" /\ walk # 0
    /\ cur' = walk
    /\ profiles' = Tail(profiles)
    /\ walk' = IF Len(profiles) > 1 THEN profiles[2] ELSE 0
    /\ master' = IF master = 0 THEN walk ELSE master
    /\ save' = "records"
    /\ UNCHANGED <<libc, held, keyValid, tls, list, mprId, pc, req, calls, crashed, ghosts,
                   destroyed, sorter, joined, chains, output, aborted>>

\* Variant: the record is not taken off the list.
SaveTakeRecordKeeps ==
    /\ Running /\ save = "records" /\ list[cur] # <<>>
    /\ LET rec == Head(list[cur])
       IN  /\ sorter' = sorter \cup {rec}
           /\ aborted' = (\E r \in sorter : r.id = rec.id)
    /\ UNCHANGED <<vars, save, walk, cur, master, destroyed, joined, chains, output>>

\* One record moves to the sorter; assert(RB_INSERT() == NULL).
SaveTakeRecord ==
    /\ Running /\ save = "records" /\ list[cur] # <<>>
    /\ LET rec == Head(list[cur])
       IN  /\ list' = [list EXCEPT ![cur] = Tail(@)]
           /\ sorter' = sorter \cup {rec}
           /\ aborted' = (\E r \in sorter : r.id = rec.id)
    /\ UNCHANGED <<libc, held, keyValid, tls, profiles, mprId, pc, req, calls, crashed,
                   ghosts, save, walk, cur, master, destroyed, joined, chains, output>>

\* Variant: the loop over the records of a profile is left too early.
SaveDropUndrained ==
    /\ Running /\ save = "records"
    /\ destroyed' = IF cur = master THEN destroyed ELSE destroyed \cup {cur}
    /\ save' = "profiles"
    /\ UNCHANGED <<vars, walk, cur, master, sorter, joined, chains, output, aborted>>

\* The profile is empty; all but the master are destroyed.
SaveDropProfile ==
    /\ Running /\ save = "records" /\ list[cur] = <<>>
    /\ destroyed' = IF cur = master THEN destroyed ELSE destroyed \cup {cur}
    /\ save' = "profiles"
    /\ UNCHANGED <<vars, walk, cur, master, sorter, joined, chains, output, aborted>>

\* No profile is left.  Without any profile there is no master, which
\* build_chains(), load_syms() and profile_save() dereference nevertheless.
SaveProfilesDone ==
    /\ Running /\ save = "profiles" /\ walk = 0
    /\ crashed' = (master = 0)
    /\ save' = "sort"
    /\ UNCHANGED <<libc, held, profileVars, mprId, pc, req, calls, ghosts, merge, joined, chains,
                   output, aborted>>

\* RB_MIN() leaves the sorter for the end of the master's list.
SaveSortRecord ==
    /\ Running /\ save = "sort"
    /\ \E rec \in sorter :
         /\ \A r \in sorter : rec.id <= r.id
         /\ sorter' = sorter \ {rec}
         /\ list' = [list EXCEPT ![master] = Append(@, rec)]
    /\ UNCHANGED <<libc, held, keyValid, tls, profiles, mprId, pc, req, calls, crashed,
                   ghosts, save, walk, cur, master, destroyed, joined, chains, output, aborted>>

SaveSortDone ==
    /\ Running /\ save = "sort" /\ sorter = {}
    /\ save' = IF LinkChains THEN "chains" ELSE "print"
    /\ UNCHANGED <<vars, merge, joined, chains, output, aborted>>

-----------------------------------------------------------------------------
(* build_chains(), one record per step.                                    *)

NextRecord == list[master][linked + 1]

LinkRecord ==
    /\ Running /\ save = "chains" /\ linked < Len(list[master])
    /\ linked' = linked + 1
    /\ UNCHANGED <<vars, save, joined, merge, output>>

\* ALLOC, and the second half of REALLOC: the record becomes the last one of
\* its address, which must not be in the tree.
TreeInsert(tree, rec) ==
    /\ memtree' = tree \cup {rec}
    /\ aborted' = (\E r \in tree : r.mem = rec.mem)

\* FREE, and the first half of REALLOC: link the record to the last one of the
\* address.  The assertions say that neither link was set before.
Link(last, rec) ==
    /\ nextId' = [nextId EXCEPT ![last.id] = rec.id]
    /\ prevId' = [prevId EXCEPT ![rec.id] = last.id]

LinksUnset(last, rec) == nextId[last.id] = 0 /\ prevId[rec.id] = 0

Last(mem) == {r \in memtree : r.mem = mem}

LinkAlloc ==
    /\ LinkRecord
    /\ NextRecord.state = "ALLOC"
    /\ TreeInsert(memtree, NextRecord)
    /\ UNCHANGED <<nextId, prevId>>

LinkFreeNull ==
    /\ LinkRecord
    /\ NextRecord.state = "FREE" /\ NextRecord.mem = NULL
    /\ UNCHANGED <<memtree, nextId, prevId, aborted>>

\* Variant: the two records are not linked.
LinkFreeUnlinked ==
    /\ LinkRecord
    /\ NextRecord.state = "FREE" /\ NextRecord.mem # NULL
    /\ \E last \in Last(NextRecord.mem) :
         /\ memtree' = memtree \ {last}
         /\ aborted' = ~LinksUnset(last, NextRecord)
    /\ UNCHANGED <<nextId, prevId>>

\* Variant: the freed address stays in the tree.
LinkFreeKeeps ==
    /\ LinkRecord
    /\ NextRecord.state = "FREE" /\ NextRecord.mem # NULL
    /\ \E last \in Last(NextRecord.mem) :
         /\ Link(last, NextRecord)
         /\ aborted' = ~LinksUnset(last, NextRecord)
    /\ UNCHANGED memtree

LinkFree ==
    /\ LinkRecord
    /\ NextRecord.state = "FREE" /\ NextRecord.mem # NULL
    /\ \E last \in Last(NextRecord.mem) :
         /\ Link(last, NextRecord)
         /\ memtree' = memtree \ {last}
         /\ aborted' = ~LinksUnset(last, NextRecord)

\* Variant: the old address stays in the tree.
LinkReallocKeeps ==
    /\ LinkRecord
    /\ NextRecord.state = "REALLOC"
    /\ \E last \in Last(NextRecord.realloc) :
         /\ Link(last, NextRecord)
         /\ IF LinksUnset(last, NextRecord)
            THEN TreeInsert(memtree, NextRecord)
            ELSE aborted' = TRUE /\ UNCHANGED memtree

LinkRealloc ==
    /\ LinkRecord
    /\ NextRecord.state = "REALLOC"
    /\ \E last \in Last(NextRecord.realloc) :
         /\ Link(last, NextRecord)
         /\ IF LinksUnset(last, NextRecord)
            THEN TreeInsert(memtree \ {last}, NextRecord)
            ELSE aborted' = TRUE /\ UNCHANGED memtree

\* "address was not allocated"
LinkUnknown ==
    /\ LinkRecord
    /\ \/ NextRecord.state = "FREE" /\ NextRecord.mem # NULL /\ Last(NextRecord.mem) = {}
       \/ NextRecord.state = "REALLOC" /\ Last(NextRecord.realloc) = {}
    /\ aborted' = TRUE
    /\ UNCHANGED <<memtree, nextId, prevId>>

LinkDone ==
    /\ Running /\ save = "chains" /\ linked = Len(list[master])
    /\ save' = "print"
    /\ UNCHANGED <<vars, merge, joined, chains, output, aborted>>

\* profile_save() writes the master, and the file is closed.
ProfileSave ==
    /\ Running /\ save = "print"
    /\ output' = [i \in DOMAIN list[master] |-> list[master][i].id]
    /\ save' = "done"
    /\ UNCHANGED <<vars, merge, joined, chains, aborted>>

-----------------------------------------------------------------------------
Save ==
    \/ SaveTakeProfile \/ SaveTakeRecord \/ SaveDropProfile \/ SaveProfilesDone
    \/ SaveSortRecord \/ SaveSortDone
    \/ LinkAlloc \/ LinkFreeNull \/ LinkFree \/ LinkRealloc \/ LinkUnknown \/ LinkDone
    \/ ProfileSave

\* The process is gone.
Terminated == ~Running /\ UNCHANGED allVars

SaveNext == (\E t \in Threads : Work(t)) \/ Exit \/ Save \/ Terminated

SaveSpec == SaveInit /\ [][SaveNext]_allVars

\* exit() is a running function: the scheduler gets to it.
FairSaveSpec == SaveSpec /\ WF_allVars(Save)
-----------------------------------------------------------------------------
(* Properties.                                                             *)

Stages == {"run", "profiles", "records", "sort", "chains", "print", "done"}

(* Types of the variables, those of the recorder included.                 *)
SaveTypeOK ==
    /\ TypeOK
    /\ save \in Stages /\ joined \in BOOLEAN
    /\ {walk, cur, master} \subseteq 0..Len(list)
    /\ destroyed \subseteq DOMAIN list
    /\ sorter \subseteq Records /\ memtree \subseteq Records
    /\ linked \in Nat
    /\ nextId \in [Ids -> 0..mprId] /\ prevId \in [Ids -> 0..mprId]
    /\ output \in Seq(1..mprId)
    /\ aborted \in BOOLEAN

Saved == save = "done" /\ joined

\* The places where the record with an id is: in a profile, in the sorter, or
\* on its way into a profile.
InLists(id) ==
    UNION {{<<"list", p, i>> : i \in {k \in DOMAIN list[p] : list[p][k].id = id}} : p \in DOMAIN list}
InSorter(id) == {<<"sorter", r.id, r>> : r \in {s \in sorter : s.id = id}}
WithThreads(id) ==
    {<<"thread", t, id>> : t \in {u \in Threads : pc[u] = "insert" /\ req[u].rec.id = id}}

Places(id) == InLists(id) \cup InSorter(id) \cup WithThreads(id)

(* Every id that was taken belongs to a record in exactly one place, from  *)
(* the call to the end of the handler, through the exit of its thread, the *)
(* draining and the sorting: no record is lost, and no two with the same   *)
(* id meet (the assertion on RB_INSERT() in mprofile_save()).  Threads     *)
(* that race with the handler cannot make it meet a record twice, either,  *)
(* but one goes missing where a profile is freed that a thread still       *)
(* writes to.                                                              *)
RecordsAccounted ==
    \A id \in 1..mprId :
        /\ \A p, q \in Places(id) : p = q
        /\ joined \/ destroyed = {} => Places(id) # {}

(* Once the threads are joined the file holds the record of every id that  *)
(* was taken, each once and in the order of the ids, whatever the profiles *)
(* they were in; so the file is the history the log promises               *)
(* (mprofile_save(): draining, destroying all profiles but the master and  *)
(* sorting lose nothing).                                                  *)
OutputIsHistory == Saved => output = [i \in 1..mprId |-> i]

(* While it goes through the records build_chains() keeps in its tree the  *)
(* record that is last for each open address of the history so far, and    *)
(* the two links of a record are the inverse of each other and what the    *)
(* history says.                                                           *)
ChainsFollowHistory ==
    ChainSafe /\ joined /\ save \in {"chains", "print", "done"} =>
        /\ \A i \in 1..linked : prevId[i] = hist[i].prev
        /\ \A i, j \in 1..linked : nextId[i] = j <=> prevId[j] = i
        /\ {r.id : r \in memtree}
             = {i \in 1..linked : hist[i].state # "FREE" /\ nextId[i] = 0}

(* The reader's way to find the leaks (ReadMe.txt:94, is_leak() in         *)
(* mprofile.py) is right: the written records that are not a FREE and have *)
(* no next record are the last records of the blocks the application still *)
(* holds, one for each block.                                              *)
LeaksAreHeld ==
    Saved /\ LinkChains /\ ChainSafe =>
        LET loose == {i \in 1..mprId : hist[i].state # "FREE" /\ nextId[i] = 0}
        IN  /\ {hist[i].mem : i \in loose} = held
            /\ Cardinality(loose) = Cardinality(held)

(* With a log that is a history, joined threads and at least one call, the *)
(* handler neither aborts nor crashes.                                     *)
SaveSucceeds ==
    ChainSafe /\ joined /\ list # <<>> => ~aborted /\ ~crashed

(* The handler comes to an end.                                            *)
SaveEnds == save # "run" ~> ~Running

(* ReadMe.txt:90 says mode 4 connects all recorded operations to chains.   *)
(* build_chains() instead aborts when the order of the ids is not one in   *)
(* which the heap changed.                                                 *)
ChainsAreBuilt == ~aborted
=============================================================================
