------------------------------ MODULE Backtrace ------------------------------
(***************************************************************************)
(* backtrace.test: a SIGTRAP handler collects the stack of the thread that *)
(* executes int3, and an exit handler prints it with the names of Ksyms.   *)
(*                                                                         *)
(* There is one buffer for all threads.  SIGTRAP is delivered to the       *)
(* thread that executed int3, so handlers of several threads can run at    *)
(* the same time, and beside the exit handler.                             *)
(***************************************************************************)
EXTENDS Ksyms

CONSTANTS
    Threads,    \* threads of the application
    Main,       \* the one that calls exit()
    Frames,     \* what _Unwind_Backtrace() passes on in each thread
    Depth,      \* MAX_STACK_DEPTH
    MaxTraps    \* bound on executions of int3

ASSUME ThreadAssumption == Main \in Threads
ASSUME FrameAssumption == Frames \in [Threads -> Seq(Pcs)]
ASSUME DepthAssumption == Depth \in Nat /\ MaxTraps \in Nat

VARIABLES
    done,       \* the handler's flag
    at,         \* where each thread is
    frame,      \* the frame the unwinder is at in each thread
    slot,       \* the thread's copy of `top' while it stores a frame
    traps,      \* int3 executed so far
    first,      \* history: the first thread that collected a stack
    overlap     \* history: two handlers, or a handler and exit(), overlapped

ghosts == <<first, overlap>>
vars == <<elf, stack, top, symVars, done, at, frame, slot, traps, ghosts>>

\* bt_init(); the buffer is zero.
Init ==
    /\ SymsInit
    /\ stack = [i \in 1..Depth |-> 0]
    /\ top = 0
    /\ done = FALSE
    /\ at = [t \in Threads |-> "run"]
    /\ frame = [t \in Threads |-> 1]
    /\ slot = [t \in Threads |-> 0]
    /\ traps = 0
    /\ first = {} /\ overlap = FALSE

Gone == phase \in {"done", "failed", "corrupt"}
Collecting(t) == at[t] \in {"reset", "store", "bump", "finish"}

Goto(t, l) == at' = [at EXCEPT ![t] = l]

-----------------------------------------------------------------------------
(* The threads.                                                            *)

Int3(t) ==
    /\ at[t] = "run" /\ (t = Main => phase = "run")
    /\ traps < MaxTraps
    /\ traps' = traps + 1
    /\ Goto(t, "check")
    /\ UNCHANGED <<elf, stack, top, symVars, done, frame, slot, ghosts>>

\* Variant: the flag is not looked at.
CheckAlways(t) ==
    /\ at[t] = "check"
    /\ Goto(t, "reset")
    /\ overlap' = (overlap \/ phase # "run" \/ \E u \in Threads : Collecting(u))
    /\ first' = IF first = {} THEN {t} ELSE first
    /\ UNCHANGED <<elf, stack, top, symVars, done, frame, slot, traps>>

\* if (done != 0) return;
Check(t) ==
    /\ at[t] = "check"
    /\ IF done
       THEN Goto(t, "run") /\ UNCHANGED ghosts
       ELSE /\ Goto(t, "reset")
            /\ overlap' = (overlap \/ phase # "run" \/ \E u \in Threads : Collecting(u))
            /\ first' = IF first = {} THEN {t} ELSE first
    /\ UNCHANGED <<elf, stack, top, symVars, done, frame, slot, traps>>

\* top = stack;
Reset(t) ==
    /\ at[t] = "reset"
    /\ top' = 0
    /\ frame' = [frame EXCEPT ![t] = 1]
    /\ Goto(t, IF Frames[t] = <<>> THEN "finish" ELSE "store")
    /\ UNCHANGED <<elf, stack, symVars, done, slot, traps, ghosts>>

\* collect_backtrace(): *top = fp;
Store(t) ==
    /\ at[t] = "store" /\ top < Depth
    /\ stack' = [stack EXCEPT ![top + 1] = Frames[t][frame[t]]]
    /\ slot' = [slot EXCEPT ![t] = top]
    /\ Goto(t, "bump")
    /\ UNCHANGED <<elf, top, symVars, done, frame, traps, ghosts>>

\* The frame is stored behind the buffer, into whatever the linker put there.
\* What the process does from here on is not modelled.
StoreOutside(t) ==
    /\ at[t] = "store" /\ top >= Depth
    /\ phase' = "corrupt"
    /\ UNCHANGED <<elf, stack, top, walk, table, search, names, done, at, frame, slot, traps,
                   ghosts>>

\* Variant: the last frame is not counted.
BumpShort(t) ==
    /\ at[t] = "bump"
    /\ frame' = [frame EXCEPT ![t] = @ + 1]
    /\ top' = IF frame[t] = Len(Frames[t]) THEN slot[t] ELSE slot[t] + 1
    /\ Goto(t, IF frame[t] = Len(Frames[t]) THEN "finish" ELSE "store")
    /\ UNCHANGED <<elf, stack, symVars, done, slot, traps, ghosts>>

\* Variant: `top' is raised twice.
BumpTwice(t) ==
    /\ at[t] = "bump"
    /\ frame' = [frame EXCEPT ![t] = @ + 1]
    /\ top' = slot[t] + 2
    /\ Goto(t, IF frame[t] = Len(Frames[t]) THEN "finish" ELSE "store")
    /\ UNCHANGED <<elf, stack, symVars, done, slot, traps, ghosts>>

\* top++; the compiler may keep `top' in a register or load it again.
Bump(t) ==
    /\ at[t] = "bump"
    /\ frame' = [frame EXCEPT ![t] = @ + 1]
    /\ top' \in {slot[t] + 1, top + 1}
    /\ Goto(t, IF frame[t] = Len(Frames[t]) THEN "finish" ELSE "store")
    /\ UNCHANGED <<elf, stack, symVars, done, slot, traps, ghosts>>

\* done = 1;
Finish(t) ==
    /\ at[t] = "finish"
    /\ done' = TRUE
    /\ Goto(t, "run")
    /\ UNCHANGED <<elf, stack, top, symVars, frame, slot, traps, ghosts>>

Handler(t) ==
    Check(t) \/ Reset(t) \/ Store(t) \/ StoreOutside(t) \/ Bump(t) \/ Finish(t)

-----------------------------------------------------------------------------
(* The exit handler: bt_print_stack(), then bt_done().                     *)

\* main() returns; syms == NULL, so the libraries are looked for first.
Exit ==
    /\ phase = "run" /\ at[Main] = "run"
    /\ phase' = "libs"
    /\ overlap' = (overlap \/ \E u \in Threads : Collecting(u))
    /\ UNCHANGED <<elf, stack, top, walk, table, search, names, done, at, frame, slot, traps,
                   first>>

collectVars == <<done, at, frame, slot, traps, ghosts>>

AddLibraries == WalkStack /\ UNCHANGED collectVars

OpenLibraries == LoadSyms /\ UNCHANGED collectVars

LookUp == (PrintFrame \/ Probe \/ Found \/ NotFound) /\ UNCHANGED collectVars

BtDone == KelfClose /\ UNCHANGED collectVars

BtPrintStack == AddLibraries \/ OpenLibraries \/ LookUp \/ BtDone

\* The process is gone.
Terminated == Gone /\ UNCHANGED vars

Next ==
    \/ ~Gone /\ \E t \in Threads : Int3(t) \/ Handler(t)
    \/ Exit
    \/ BtPrintStack
    \/ Terminated

Spec == Init /\ [][Next]_vars

\* exit() runs in a running thread.
FairSpec == Spec /\ WF_vars(BtPrintStack)
-----------------------------------------------------------------------------
(* Properties.                                                             *)

(* Types of the variables.                                                 *)
TypeOK ==
    /\ SymsTypeOK
    /\ stack \in [1..Depth -> Pcs] /\ top \in Nat
    /\ done \in BOOLEAN
    /\ at \in [Threads -> {"run", "check", "reset", "store", "bump", "finish"}]
    /\ frame \in [Threads -> Nat \ {0}]
    /\ slot \in [Threads -> Nat]
    /\ traps \in 0..MaxTraps
    /\ first \subseteq Threads /\ overlap \in BOOLEAN

Fits == \A t \in Threads : Len(Frames[t]) <= Depth

(* "The sigtrap handler collects just one stack on the first execution of  *)
(* int3" (ReadMe.txt:22-23) holds as long as no two handlers overlap and   *)
(* none overlaps with exit(): the whole stack of the first thread stays    *)
(* collected, and is what is printed.                                      *)
OneStack ==
    ~overlap /\ Fits =>
        /\ done => \E t \in first : Len(Frames[t]) = top /\ \A i \in 1..top : stack[i] = Frames[t][i]
        /\ phase = "done" => Len(names) = top /\ \A i \in 1..top : names[i].pc = stack[i]

(* Only handlers that overlap, or a stack deeper than the buffer, make     *)
(* collect_backtrace() store behind the buffer; alone `top' cannot be      *)
(* raised past the frames of one stack.  And add_shlib(), whose bound is   *)
(* tested after the element, keeps to its table.                           *)
StaysInBounds ==
    /\ phase = "corrupt" => overlap \/ ~Fits
    /\ Len(shlibs) <= MaxShlibs

AllReturned == \A t \in Threads : ~Collecting(t)

(* Once `done' is set and the handlers that did not see it have returned,  *)
(* what was collected is final: no later int3 starts a collection.         *)
CollectedIsFinal ==
    [][done /\ AllReturned => done' /\ AllReturned' /\ UNCHANGED <<stack, top>>]_vars

(* The exit handler comes to an end even while other threads collect       *)
(* frames into the buffer it prints.                                       *)
PrintEnds == phase # "run" ~> Gone
=============================================================================
