--------------------------- MODULE BacktraceProofs ---------------------------
(***************************************************************************)
(* Theorems about Ksyms and Backtrace: types, that no library is read      *)
(* twice, that the binary search of ksyms.c finds a function exactly when  *)
(* one covers the address, and that without overlapping handlers one stack *)
(* is collected, stays in its buffer and is what is printed.  They hold    *)
(* for any libraries, symbol tables, threads and stacks.                   *)
(***************************************************************************)
EXTENDS Backtrace, FiniteSetTheorems, TLAPS

(***************************************************************************)
(* Types.                                                                  *)
(***************************************************************************)
LEMMA ElfType ==
    ASSUME SymsTypeOK, NEW l \in Libs
    PROVE  /\ elf[l] \in Seq(RawSymbols)
           /\ \A k \in DOMAIN elf[l] : elf[l][k] \in RawSymbols
           /\ Base[l] \in Nat
  <1>1. elf \in [Libs -> Seq(RawSymbols)]
    BY ImageAssumption DEF SymsTypeOK
  <1>2. elf[l] \in Seq(RawSymbols) /\ Base[l] \in Nat
    BY <1>1, LibAssumption
  <1>3. QED
    BY <1>2

LEMMA SymbolType ==
    ASSUME SymsTypeOK, NEW l \in Libs, NEW k \in Kept(l)
    PROVE  Symbol(l, k) \in Symbols
  <1>1. k \in DOMAIN elf[l] /\ k \in Nat
    BY ElfType DEF SymsTypeOK, Kept
  <1>2. elf[l][k].value \in Nat /\ elf[l][k].size \in Nat
    BY <1>1, ElfType DEF RawSymbols
  <1>3. QED
    BY <1>1, <1>2, ElfType DEF Symbol, Symbols

LEMMA EntriesType ==
    ASSUME SymsTypeOK, NEW l \in Libs
    PROVE  Entries(l) \subseteq Symbols /\ IsFiniteSet(Entries(l))
  <1>0. syms \in [1..Len(syms) -> Symbols] /\ Len(syms) \in Nat
    BY DEF SymsTypeOK
  <1> DEFINE old == {syms[i] : i \in DOMAIN syms}
             new == {Symbol(l, k) : k \in Kept(l)}
             f == [k \in Kept(l) |-> Symbol(l, k)]
  <1>1. old \subseteq Symbols /\ new \subseteq Symbols
    BY <1>0, SymbolType
  <1>2. IsFiniteSet(old)
    <2>1. syms \in Surjection(1..Len(syms), old)
      BY <1>0 DEF Surjection
    <2>2. IsFiniteSet(1..Len(syms))
      BY <1>0, FS_Interval
    <2>3. QED
      BY <2>1, <2>2, FS_Surjection
  <1>3. IsFiniteSet(new)
    <2>1. f \in Surjection(Kept(l), new)
      BY DEF Surjection
    <2>2. IsFiniteSet(Kept(l))
      <3>1. Len(elf[l]) \in Nat /\ Len(syms) + 1 \in Int
        BY ElfType, <1>0
      <3>2. IsFiniteSet(Len(syms) + 1 .. Len(elf[l]))
        BY <3>1, FS_Interval
      <3>3. Kept(l) \in SUBSET (Len(syms) + 1 .. Len(elf[l]))
        BY DEF Kept
      <3>4. QED
        BY <3>2, <3>3, FS_Subset
    <2>3. QED
      BY <2>1, <2>2, FS_Surjection
  <1>4. Entries(l) = old \cup new
    BY DEF Entries
  <1> HIDE DEF old, new, f
  <1>5. QED
    BY <1>1, <1>2, <1>3, <1>4, FS_Union

LEMMA SizedType ==
    ASSUME NEW S, S \subseteq Symbols, IsFiniteSet(S), NEW t \in Sorted(S)
    PROVE  Sized(t) \in Seq(Symbols)
  <1> DEFINE n == Cardinality(S)
  <1>1. n \in Nat
    BY FS_CardinalityType
  <1>2. /\ t \in [1..n -> Symbols]
        /\ \A i, j \in 1..n : i < j => t[i].value <= t[j].value
    BY DEF Sorted
  <1> HIDE DEF n
  <1>3. \A i \in 1..n : Sized(t)[i] \in Symbols
    <2> SUFFICES ASSUME NEW i \in 1..n PROVE Sized(t)[i] \in Symbols
      OBVIOUS
    <2>0. t \in Seq(Symbols) /\ Len(t) = n /\ DOMAIN t = 1..n
      BY <1>1, <1>2
    <2>1. CASE t[i].size # 0 \/ i = n
      BY <1>2, <2>0, <2>1 DEF Sized
    <2>2. CASE ~(t[i].size # 0 \/ i = n)
      <3>1. i + 1 \in 1..n /\ i < i + 1
        BY <1>1, <2>2
      <3>2. t[i + 1].value - t[i].value \in Nat
        BY <1>2, <3>1 DEF Symbols
      <3>3. Sized(t)[i] = [t[i] EXCEPT !.size = t[i + 1].value - t[i].value]
        BY <2>0, <2>2 DEF Sized
      <3>4. QED
        BY <1>2, <3>2, <3>3 DEF Symbols
    <2>3. QED
      BY <2>1, <2>2
  <1>4. DOMAIN Sized(t) = 1..n
    BY <1>2 DEF Sized
  <1>5. Sized(t) \in [1..n -> Symbols]
    BY <1>3, <1>4 DEF Sized
  <1>6. QED
    BY <1>1, <1>5

(***************************************************************************)
(* The exit handler.  The search keeps the functions that cover the        *)
(* address inside the part that is left of the table.                      *)
(***************************************************************************)
Early == phase \in {"run", "libs", "open"} => lo = 1 /\ hi = 1 /\ names = <<>>

Window ==
    phase = "search" /\ Orderly(syms) =>
        \A i \in DOMAIN syms : Covers(syms[i], key) => lo <= i /\ i < hi

StackOK == stack \in [1..Depth -> Pcs] /\ top \in Nat

SymInv == SymsTypeOK /\ Early /\ ShlibsAreDistinct /\ Window /\ LookupIsExact

LEMMA FrameType == ASSUME StackOK PROVE FrameAt \subseteq Pcs /\ FrameAt \subseteq Nat
  BY PcAssumption DEF StackOK, FrameAt

LEMMA MidFacts ==
    ASSUME SymsTypeOK, lo < hi
    PROVE  /\ Mid \in DOMAIN syms /\ lo <= Mid /\ Mid < hi
           /\ syms[Mid] \in Symbols
  <1>1. lo \in Nat \ {0} /\ hi \in Nat /\ hi <= Len(syms) + 1 /\ Len(syms) \in Nat
    BY DEF SymsTypeOK
  <1>2. Mid \in Nat /\ lo <= Mid /\ Mid < hi
    BY <1>1 DEF Mid
  <1>3. Mid \in DOMAIN syms
    BY <1>1, <1>2 DEF SymsTypeOK
  <1>4. QED
    BY <1>2, <1>3 DEF SymsTypeOK

LEMMA WalkStackStep == ASSUME SymInv, StackOK, WalkStack PROVE SymInv'
  <1>1. /\ shlibs' \in Seq(Libs) /\ opened \in 0..Len(shlibs')
        /\ ShlibsAreDistinct'
    <2>0. /\ shlibs \in Seq(Libs) /\ Len(shlibs) \in Nat /\ opened \in 0..Len(shlibs)
          /\ Len(shlibs) <= MaxShlibs /\ MaxShlibs \in Nat
          /\ \A i, j \in DOMAIN shlibs : shlibs[i] = shlibs[j] => i = j
      BY ShlibAssumption DEF SymInv, SymsTypeOK, ShlibsAreDistinct
    <2>1. CASE UNCHANGED shlibs
      BY <2>0, <2>1 DEF ShlibsAreDistinct
    <2>2. CASE shlibs' # shlibs
      <3>1. PICK pc \in Pcs : LibAt[pc] # NoLib /\ shlibs' = AddShlib(LibAt[pc])
        BY <2>2, FrameType DEF WalkStack
      <3>2. LibAt[pc] \in Libs
        BY <3>1, LibAssumption
      <3>3. /\ shlibs' = Append(shlibs, LibAt[pc])
            /\ Len(shlibs) # MaxShlibs
            /\ \A i \in DOMAIN shlibs : shlibs[i] # LibAt[pc]
        BY <2>2, <3>1 DEF AddShlib, Listed
      <3>4. QED
        BY <2>0, <3>2, <3>3 DEF ShlibsAreDistinct
    <2>3. QED
      BY <2>1, <2>2
  <1>2. SymsTypeOK'
    BY <1>1 DEF SymInv, SymsTypeOK, WalkStack, search, Phases
  <1>3. Early' /\ Window' /\ LookupIsExact'
    BY DEF SymInv, Early, Window, LookupIsExact, WalkStack, search
  <1>4. QED
    BY <1>1, <1>2, <1>3 DEF SymInv

LEMMA LoadSymsStep == ASSUME SymInv, LoadSyms PROVE SymInv'
  <1>1. ShlibsAreDistinct' /\ Early' /\ Window' /\ LookupIsExact'
    <2>1. ShlibsAreDistinct'
      BY DEF SymInv, ShlibsAreDistinct, LoadSyms
    <2>2. names = <<>> /\ UNCHANGED <<names, lo, hi>> /\ phase' # "search" /\ lo = 1 /\ hi = 1
      BY DEF SymInv, Early, LoadSyms, KelfOpen, search
    <2>3. QED
      BY <2>1, <2>2 DEF Early, Window, LookupIsExact
  <1>2. SymsTypeOK'
    <2>1. CASE opened < Len(shlibs)
      <3> DEFINE l == shlibs[opened + 1]
      <3>1. opened + 1 \in 1..Len(shlibs) /\ l \in Libs
        BY <2>1 DEF SymInv, SymsTypeOK
      <3>2. KelfOpen(l) /\ opened' = opened + 1 /\ UNCHANGED <<walk, elf, shlibs, search, names>>
        BY <2>1 DEF LoadSyms
      <3> HIDE DEF l
      <3>3. syms' \in Seq(Symbols)
        <4>1. CASE UNCHANGED syms
          BY <4>1 DEF SymInv, SymsTypeOK
        <4>2. CASE \E t \in Sorted(Entries(l)) : syms' = Sized(t)
          BY <3>1, <4>2, EntriesType, SizedType DEF SymInv
        <4>3. QED
          BY <3>2, <4>1, <4>2 DEF KelfOpen
      <3>4. phase' \in {"open", "failed"}
        BY <3>2 DEF KelfOpen, LoadSyms
      <3>5. lo' = 1 /\ hi' = 1 /\ Len(syms') \in Nat
        BY <3>2, <3>3 DEF SymInv, Early, LoadSyms, search
      <3>6. QED
        BY <3>1, <3>2, <3>3, <3>4, <3>5 DEF SymInv, SymsTypeOK, Phases, search
    <2>2. CASE ~(opened < Len(shlibs))
      BY <2>2 DEF SymInv, SymsTypeOK, LoadSyms, search, Phases
    <2>3. QED
      BY <2>1, <2>2
  <1>3. QED
    BY <1>1, <1>2 DEF SymInv

LEMMA PrintFrameStep == ASSUME SymInv, StackOK, PrintFrame PROVE SymInv'
  <1>1. key' \in Nat
    BY FrameType DEF PrintFrame
  <1>2. syms \in Seq(Symbols) /\ Len(syms) \in Nat /\ DOMAIN syms = 1..Len(syms)
    BY DEF SymInv, SymsTypeOK
  <1>3. SymsTypeOK'
    BY <1>1, <1>2 DEF SymInv, SymsTypeOK, PrintFrame, table, Phases
  <1>4. Window'
    BY <1>2 DEF Window, PrintFrame, table
  <1>5. ShlibsAreDistinct' /\ LookupIsExact' /\ Early'
    BY DEF SymInv, ShlibsAreDistinct, LookupIsExact, Early, PrintFrame, table
  <1>6. QED
    BY <1>3, <1>4, <1>5 DEF SymInv

LEMMA ProbeStep == ASSUME SymInv, Probe PROVE SymInv'
  <1>0. /\ lo < hi /\ phase = "search" /\ UNCHANGED <<syms, key, phase>>
        /\ lo \in Nat \ {0} /\ hi \in Nat /\ hi <= Len(syms) + 1 /\ Len(syms) \in Nat
        /\ key \in Nat
        /\ syms \in [1..Len(syms) -> Symbols]
    BY DEF SymInv, SymsTypeOK, Probe, table
  <1>1. /\ Mid \in 1..Len(syms) /\ lo <= Mid /\ Mid < hi
        /\ syms[Mid] \in Symbols
    BY <1>0, MidFacts DEF SymInv
  <1>2. SymsTypeOK'
    <2>1. lo' \in Nat \ {0} /\ hi' \in Nat /\ hi' <= Len(syms) + 1
      BY <1>0, <1>1 DEF Probe
    <2>2. QED
      BY <2>1 DEF SymInv, SymsTypeOK, Probe, table
  <1>3. Window'
    <2> SUFFICES ASSUME Orderly(syms), NEW i \in 1..Len(syms), Covers(syms[i], key)
                 PROVE  lo' <= i /\ i < hi'
      BY <1>0 DEF Window
    <2>1. lo <= i /\ i < hi
      BY <1>0 DEF SymInv, Window
    <2>2. /\ syms[i].value \in Nat /\ syms[i].size \in Nat
          /\ syms[Mid].value \in Nat /\ syms[Mid].size \in Nat
      BY <1>0, <1>1 DEF Symbols
    <2>3. syms[i].value <= key /\ key < syms[i].value + syms[i].size
      BY DEF Covers
    <2>4. /\ Mid < i => syms[Mid].value <= syms[i].value
          /\ i < Mid => syms[i].value + syms[i].size <= syms[Mid].value + syms[Mid].size
      BY <1>0, <1>1 DEF Orderly
    <2>5. CASE key < syms[Mid].value /\ hi' = Mid /\ UNCHANGED lo
      BY <1>0, <1>1, <2>1, <2>2, <2>3, <2>4, <2>5
    <2>6. CASE key >= syms[Mid].value + syms[Mid].size /\ lo' = Mid + 1 /\ UNCHANGED hi
      BY <1>0, <1>1, <2>1, <2>2, <2>3, <2>4, <2>6
    <2>7. QED
      BY <2>5, <2>6 DEF Probe
  <1>4. ShlibsAreDistinct' /\ LookupIsExact' /\ Early'
    BY DEF SymInv, ShlibsAreDistinct, LookupIsExact, Early, Probe, table
  <1>5. QED
    BY <1>2, <1>3, <1>4 DEF SymInv

LEMMA NameStep ==
    ASSUME SymInv, phase = "search", NextFrame,
           NEW l \in Libs \cup {NoLib}, NEW k \in Nat, NEW off \in Nat, Name(l, k, off),
           Orderly(syms) =>
               IF l = NoLib THEN \A i \in DOMAIN syms : ~Covers(syms[i], key)
               ELSE \E i \in DOMAIN syms : /\ Covers(syms[i], key)
                                           /\ <<l, k>> = <<syms[i].lib, syms[i].at>>
    PROVE  SymInv'
  <1> DEFINE Names == [pc : Nat, lib : Libs \cup {NoLib}, at : Nat, off : Nat]
             new == [pc |-> key, lib |-> l, at |-> k, off |-> off]
  <1>0. names \in Seq(Names) /\ names' = Append(names, new) /\ new \in Names
    BY DEF SymInv, SymsTypeOK, Name
  <1>1. UNCHANGED <<elf, shlibs, opened, syms, key, lo, hi>> /\ phase' = "print"
        /\ walk' = walk + 1
    BY DEF NextFrame, table, search
  <1>2. SymsTypeOK'
    BY <1>0, <1>1 DEF SymInv, SymsTypeOK, Phases
  <1>3. LookupIsExact'
    <2> SUFFICES ASSUME Orderly(syms), NEW n \in DOMAIN names'
                 PROVE  IF names'[n].lib = NoLib
                        THEN \A i \in DOMAIN syms : ~Covers(syms[i], names'[n].pc)
                        ELSE \E i \in DOMAIN syms :
                               /\ Covers(syms[i], names'[n].pc)
                               /\ <<names'[n].lib, names'[n].at>> = <<syms[i].lib, syms[i].at>>
      BY <1>1 DEF LookupIsExact
    <2>1. CASE n \in DOMAIN names
      <3>1. names'[n] = names[n]
        BY <1>0, <2>1
      <3>2. QED
        BY <2>1, <3>1 DEF SymInv, LookupIsExact
    <2>2. CASE n \notin DOMAIN names
      <3>1. names'[n] = new
        BY <1>0, <2>2
      <3>2. QED
        BY <3>1
    <2>3. QED
      BY <2>1, <2>2
  <1>4. ShlibsAreDistinct' /\ Early' /\ Window'
    BY <1>1 DEF SymInv, ShlibsAreDistinct, Early, Window
  <1>5. QED
    BY <1>2, <1>3, <1>4 DEF SymInv

LEMMA FoundStep == ASSUME SymInv, Found PROVE SymInv'
  <1>1. Mid \in DOMAIN syms /\ syms[Mid] \in Symbols /\ key \in Nat
    BY MidFacts DEF SymInv, SymsTypeOK, Found
  <1>2. Covers(syms[Mid], key)
    BY DEF Found
  <1>3. /\ syms[Mid].lib \in Libs /\ syms[Mid].at \in Nat
        /\ key - syms[Mid].value \in Nat /\ syms[Mid].lib # NoLib
    BY <1>1, <1>2, LibAssumption DEF Symbols, Covers
  <1>4. QED
    BY <1>1, <1>2, <1>3, NameStep DEF Found

LEMMA NotFoundStep == ASSUME SymInv, NotFound PROVE SymInv'
  <1>1. /\ key \in Nat /\ lo \in Nat /\ hi \in Nat /\ lo >= hi
        /\ DOMAIN syms \subseteq Nat
    BY DEF SymInv, SymsTypeOK, NotFound
  <1>2. Orderly(syms) => \A i \in DOMAIN syms : ~Covers(syms[i], key)
    BY <1>1 DEF SymInv, Window, NotFound
  <1>3. QED
    BY <1>1, <1>2, NameStep DEF NotFound

LEMMA KelfCloseStep == ASSUME SymInv, KelfClose PROVE SymInv'
  BY DEF SymInv, SymsTypeOK, ShlibsAreDistinct, Early, Window, LookupIsExact, KelfClose,
         table, search, Phases

LEMMA SymboliseStep == ASSUME SymInv, StackOK, Symbolise PROVE SymInv'
  BY WalkStackStep, LoadSymsStep, PrintFrameStep, ProbeStep, FoundStep, NotFoundStep,
     KelfCloseStep DEF Symbolise

\* The steps of the threads, and exit(), leave the table and the search alone.
LEMMA OtherStep ==
    ASSUME SymInv, phase' \in {phase, "libs", "corrupt"}, phase' = "libs" => phase \in {"run", "libs"},
           UNCHANGED <<elf, walk, table, search, names>>
    PROVE  SymInv'
  BY DEF SymInv, SymsTypeOK, ShlibsAreDistinct, Early, Window, LookupIsExact,
         table, search, Phases

(***************************************************************************)
(* The threads.                                                            *)
(***************************************************************************)
ThreadTypeOK ==
    /\ StackOK
    /\ done \in BOOLEAN
    /\ at \in [Threads -> {"run", "check", "reset", "store", "bump", "finish"}]
    /\ frame \in [Threads -> Nat \ {0}]
    /\ slot \in [Threads -> Nat]
    /\ traps \in 0..MaxTraps
    /\ first \subseteq Threads /\ overlap \in BOOLEAN

LEMMA TypeParts == TypeOK <=> SymsTypeOK /\ ThreadTypeOK
  BY DEF TypeOK, ThreadTypeOK, StackOK

\* A thread that stores a frame has one.
Stored == \A t \in Threads :
    at[t] \in {"store", "bump"} => frame[t] \in 1..Len(Frames[t])

IInv == SymInv /\ ThreadTypeOK /\ Stored

LEMMA InitIInv == Init => IInv
  <1> SUFFICES ASSUME Init PROVE IInv
    OBVIOUS
  <1>1. SymsTypeOK
    BY DEF Init, SymsInit, SymsTypeOK, Phases
  <1>2. ShlibsAreDistinct /\ Early /\ Window /\ LookupIsExact
    BY ShlibAssumption DEF Init, SymsInit, ShlibsAreDistinct, Early, Window, LookupIsExact
  <1>3. StackOK /\ traps \in 0..MaxTraps
    BY PcAssumption, DepthAssumption DEF Init, StackOK
  <1>4. done \in BOOLEAN /\ overlap \in BOOLEAN /\ first \subseteq Threads
    BY DEF Init
  <1>5. /\ at \in [Threads -> {"run", "check", "reset", "store", "bump", "finish"}]
        /\ frame \in [Threads -> Nat \ {0}] /\ slot \in [Threads -> Nat] /\ Stored
    BY DEF Init, Stored
  <1>6. ThreadTypeOK
    BY <1>3, <1>4, <1>5 DEF ThreadTypeOK
  <1>7. QED
    BY <1>1, <1>2, <1>5, <1>6 DEF IInv, SymInv

\* What _Unwind_Backtrace() passes on is an address.
LEMMA FrameOfThread ==
    ASSUME NEW t \in Threads, NEW i \in 1..Len(Frames[t])
    PROVE  Frames[t][i] \in Pcs
  BY FrameAssumption

LEMMA HandlerTypeStep ==
    ASSUME IInv, NEW t \in Threads, Int3(t) \/ Handler(t)
    PROVE  ThreadTypeOK' /\ Stored'
  <1> USE DEF IInv, ThreadTypeOK, StackOK, Stored, Goto
  <1>1. CASE Int3(t)
    <2>1. traps' \in 0..MaxTraps
      BY <1>1, DepthAssumption DEF Int3
    <2>2. QED
      BY <1>1, <2>1 DEF Int3, ghosts
  <1>2. CASE Check(t)
    <2>1. overlap' \in BOOLEAN /\ first' \subseteq Threads
      <3>1. CASE done
        BY <1>2, <3>1 DEF Check, ghosts
      <3>2. CASE ~done
        <4>1. overlap' \in BOOLEAN
          BY <1>2, <3>2 DEF Check
        <4>2. first' \subseteq Threads
          BY <1>2, <3>2 DEF Check
        <4>3. QED
          BY <4>1, <4>2
      <3>3. QED
        BY <3>1, <3>2
    <2>2. UNCHANGED <<stack, top, done, frame, slot, traps>>
      BY <1>2 DEF Check
    <2>3. \E l \in {"run", "reset"} : at' = [at EXCEPT ![t] = l]
      BY <1>2 DEF Check
    <2>4. QED
      BY <2>1, <2>2, <2>3
  <1>3. CASE Reset(t)
    <2>1. Len(Frames[t]) \in Nat /\ (Frames[t] # <<>> => 1 <= Len(Frames[t]))
      BY FrameAssumption
    <2>2. QED
      BY <1>3, <2>1 DEF Reset, ghosts
  <1>4. CASE Store(t)
    <2>1. Frames[t][frame[t]] \in Pcs
      BY <1>4, FrameOfThread DEF Store
    <2>2. QED
      BY <1>4, <2>1 DEF Store, ghosts
  <1>5. CASE StoreOutside(t)
    BY <1>5 DEF StoreOutside, ghosts
  <1>6. CASE Bump(t)
    <2>1. Len(Frames[t]) \in Nat /\ frame[t] \in 1..Len(Frames[t]) /\ frame[t] \in Nat
      BY <1>6, FrameAssumption DEF Bump
    <2>2. top' \in Nat
      BY <1>6 DEF Bump
    <2>3. QED
      BY <1>6, <2>1, <2>2 DEF Bump, ghosts
  <1>7. CASE Finish(t)
    BY <1>7 DEF Finish, ghosts
  <1>8. QED
    BY <1>1, <1>2, <1>3, <1>4, <1>5, <1>6, <1>7 DEF Handler

LEMMA HandlerSymStep ==
    ASSUME IInv, NEW t \in Threads, Int3(t) \/ Handler(t)
    PROVE  SymInv'
  <1>1. UNCHANGED <<elf, walk, table, search, names>> /\ phase' \in {phase, "corrupt"}
    BY DEF Int3, Handler, Check, Reset, Store, StoreOutside, Bump, Finish, symVars
  <1>2. QED
    BY <1>1, OtherStep DEF IInv

LEMMA ExitStep == ASSUME IInv, Exit PROVE IInv'
  <1>1. SymInv'
    BY OtherStep DEF IInv, Exit
  <1>2. overlap' \in BOOLEAN
    BY DEF Exit
  <1>3. QED
    BY <1>1, <1>2 DEF IInv, ThreadTypeOK, StackOK, Stored, Exit

LEMMA BtPrintStackSteps ==
    ASSUME BtPrintStack
    PROVE  Symbolise /\ UNCHANGED <<stack, top, collectVars>>
  BY DEF BtPrintStack, AddLibraries, OpenLibraries, LookUp, BtDone, Symbolise,
         WalkStack, LoadSyms, PrintFrame, Probe, Found, NotFound, NextFrame, KelfClose

LEMMA BtPrintStackStep == ASSUME IInv, BtPrintStack PROVE IInv'
  <1>1. SymInv'
    BY BtPrintStackSteps, SymboliseStep DEF IInv, ThreadTypeOK
  <1>2. UNCHANGED <<stack, top, done, at, frame, slot, traps, first, overlap>>
    BY BtPrintStackSteps DEF collectVars, ghosts
  <1>3. QED
    BY <1>1, <1>2 DEF IInv, ThreadTypeOK, StackOK, Stored

LEMMA StutterStep == ASSUME IInv, UNCHANGED vars PROVE IInv'
  BY DEF IInv, SymInv, SymsTypeOK, Early, ShlibsAreDistinct, Window, LookupIsExact,
         ThreadTypeOK, StackOK, Stored, vars, symVars, table, search, ghosts

LEMMA NextIInv == IInv /\ [Next]_vars => IInv'
  <1> SUFFICES ASSUME IInv, [Next]_vars PROVE IInv'
    OBVIOUS
  <1>1. ASSUME NEW t \in Threads, Int3(t) \/ Handler(t) PROVE IInv'
    BY <1>1, HandlerTypeStep, HandlerSymStep DEF IInv
  <1>2. QED
    BY <1>1, ExitStep, BtPrintStackStep, StutterStep DEF Next, Terminated

LEMMA InvariantHolds == Spec => []IInv
  BY InitIInv, NextIInv, PTL DEF Spec

(***************************************************************************)
(* One stack.  While no handlers overlap, the thread that collects is the  *)
(* first one, and the buffer holds the part of its stack seen so far.      *)
(***************************************************************************)
Prefix(t, n) == \A i \in 1..n : stack[i] = Frames[t][i]

InProgress(t) ==
    /\ first = {t} /\ ~done /\ phase = "run"
    /\ at[t] \in {"store", "bump"} => top = frame[t] - 1
    /\ at[t] = "store" => Prefix(t, frame[t] - 1)
    /\ at[t] = "bump" => slot[t] = top /\ Prefix(t, frame[t])
    /\ at[t] = "finish" => top = Len(Frames[t]) /\ Prefix(t, Len(Frames[t]))

Complete(t) == t \in Threads /\ top = Len(Frames[t]) /\ Prefix(t, top)

Collected ==
    /\ \A t \in Threads : Collecting(t) => InProgress(t)
    /\ done => \E t \in first : Complete(t)
    /\ first = {} => top = 0 /\ ~done
    /\ first # {} /\ ~done => \E t \in Threads : Collecting(t)

PrintedSoFar ==
    /\ phase \in {"print", "search"} =>
          /\ Len(names) = walk - 1 /\ walk <= top + 1
          /\ \A i \in 1..Len(names) : names[i].pc = stack[i]
    /\ phase = "search" => walk <= top /\ key = stack[walk]
    /\ phase = "done" =>
          /\ Len(names) = top
          /\ \A i \in 1..Len(names) : names[i].pc = stack[i]

Alone == ~overlap /\ Fits => Collected /\ PrintedSoFar /\ phase # "corrupt"

LEMMA InitAlone == Init => Alone
  BY DEF Init, SymsInit, Alone, Collected, PrintedSoFar, Collecting

LEMMA TopFits ==
    ASSUME IInv, Collected, Fits, \A t \in Threads : ~Collecting(t)
    PROVE  top \in 0..Depth
  <1>0. Depth \in Nat /\ top \in Nat
    BY DepthAssumption DEF IInv, ThreadTypeOK, StackOK
  <1>1. CASE first = {}
    BY <1>0, <1>1 DEF Collected
  <1>2. CASE first # {}
    <2>1. PICK t \in first : Complete(t)
      BY <1>2 DEF Collected
    <2>2. QED
      BY <1>0, <2>1 DEF Complete, Fits
  <1>3. QED
    BY <1>1, <1>2

\* While the exit handler prints without overlap nobody collects.
LEMMA NobodyCollects ==
    ASSUME Collected, phase # "run"
    PROVE  \A t \in Threads : ~Collecting(t)
  BY DEF Collected, InProgress

LEMMA PrintAlone == ASSUME IInv, Alone, BtPrintStack PROVE Alone'
  <1> SUFFICES ASSUME ~overlap', Fits
               PROVE  Collected' /\ PrintedSoFar' /\ phase' # "corrupt"
    BY DEF Alone
  <1>1. /\ Symbolise
        /\ UNCHANGED <<stack, top, done, at, frame, slot, traps, first, overlap>>
    BY BtPrintStackSteps DEF collectVars, ghosts
  <1>2. Collected /\ PrintedSoFar
    BY <1>1 DEF Alone
  <1>3. phase # "run" /\ phase' # "run" /\ phase' # "corrupt"
    BY <1>1 DEF Symbolise, WalkStack, LoadSyms, KelfOpen, PrintFrame, Probe, Found, NotFound,
                NextFrame, KelfClose
  <1>4. \A t \in Threads : ~Collecting(t) /\ ~Collecting(t)'
    BY <1>1, <1>2, <1>3, NobodyCollects DEF Collecting
  <1>5. Collected'
    BY <1>1, <1>2, <1>4 DEF Collected, Complete, Prefix
  <1>6. top \in 0..Depth /\ DOMAIN stack = 1..Depth /\ walk \in Nat \ {0} /\ Depth \in Nat
    BY <1>2, <1>4, TopFits, DepthAssumption
    DEF IInv, SymInv, SymsTypeOK, ThreadTypeOK, StackOK
  <1>7. names \in Seq([pc : Nat, lib : Libs \cup {NoLib}, at : Nat, off : Nat])
    BY DEF IInv, SymInv, SymsTypeOK
  <1>8. PrintedSoFar'
    <2>1. CASE WalkStack
      BY <2>1 DEF WalkStack, PrintedSoFar
    <2>2. CASE LoadSyms
      <3>1. names' = <<>> /\ (phase' = "print" => walk' = 1) /\ phase' \in {"open", "failed", "print"}
        BY <2>2 DEF LoadSyms, KelfOpen, IInv, SymInv, Early
      <3>2. QED
        BY <1>1, <1>6, <3>1 DEF PrintedSoFar
    <2>3. CASE PrintFrame
      <3>1. walk \in DOMAIN stack /\ key' = stack[walk]
        BY <1>6, <2>3 DEF PrintFrame, FrameAt
      <3>2. QED
        BY <1>1, <1>2, <2>3, <3>1 DEF PrintFrame, PrintedSoFar
    <2>4. CASE Probe
      BY <1>1, <1>2, <2>4 DEF Probe, PrintedSoFar
    <2>5. CASE Found \/ NotFound
      <3>1. /\ phase = "search" /\ phase' = "print" /\ walk' = walk + 1
            /\ \E e : names' = Append(names, e) /\ e.pc = key
        BY <2>5 DEF Found, NotFound, NextFrame, Name
      <3>2. PICK e : names' = Append(names, e) /\ e.pc = key
        BY <3>1
      <3>3. /\ Len(names') = Len(names) + 1 /\ Len(names) \in Nat
            /\ names'[Len(names) + 1] = e
            /\ \A i \in 1..Len(names) : names'[i] = names[i]
        BY <1>7, <3>2
      <3>4. /\ Len(names) = walk - 1 /\ walk <= top /\ key = stack[walk]
            /\ \A i \in 1..Len(names) : names[i].pc = stack[i]
        BY <1>2, <3>1 DEF PrintedSoFar
      <3>5. \A i \in 1..Len(names') : names'[i].pc = stack[i]
        BY <1>6, <3>2, <3>3, <3>4
      <3>6. QED
        BY <1>1, <1>6, <3>1, <3>3, <3>4, <3>5 DEF PrintedSoFar
    <2>6. CASE KelfClose
      BY <1>1, <1>2, <1>6, <2>6 DEF KelfClose, PrintedSoFar
    <2>7. QED
      BY <1>1, <2>1, <2>2, <2>3, <2>4, <2>5, <2>6 DEF Symbolise
  <1>9. QED
    BY <1>3, <1>5, <1>8

\* The frames of the handler: it moves thread t only, and prints nothing.
LEMMA HandlerFrame ==
    ASSUME IInv, NEW t \in Threads, Int3(t) \/ Handler(t)
    PROVE  /\ UNCHANGED <<walk, names, key, syms>>
           /\ \A u \in Threads : u # t => at'[u] = at[u] /\ frame'[u] = frame[u] /\ slot'[u] = slot[u]
  BY DEF Int3, Handler, Check, Reset, Store, StoreOutside, Bump, Finish, Goto, IInv,
         ThreadTypeOK, symVars, table, search

LEMMA CheckAlone == ASSUME IInv, Alone, NEW t \in Threads, Check(t) PROVE Alone'
  <1> SUFFICES ASSUME ~overlap', Fits
               PROVE  Collected' /\ PrintedSoFar' /\ phase' # "corrupt"
    BY DEF Alone
  <1>0. at \in [Threads -> {"run", "check", "reset", "store", "bump", "finish"}]
    BY DEF IInv, ThreadTypeOK
  <1>1. /\ UNCHANGED <<stack, top, symVars, done, frame, slot, traps>> /\ at[t] = "check"
        /\ phase' = phase /\ names' = names /\ walk' = walk /\ key' = key
    BY DEF Check, symVars, search
  <1>2. CASE done
    <2>1. at' = [at EXCEPT ![t] = "run"] /\ UNCHANGED <<first, overlap>>
      BY <1>2 DEF Check, Goto, ghosts
    <2>2. Collected /\ PrintedSoFar /\ phase # "corrupt"
      BY <2>1 DEF Alone
    <2>3. \A u \in Threads : ~Collecting(u)
      BY <1>2, <2>2 DEF Collected, InProgress
    <2>4. \A u \in Threads : ~Collecting(u)'
      BY <1>0, <2>1, <2>3 DEF Collecting
    <2>5. Collected'
      BY <1>1, <1>2, <2>1, <2>2, <2>4 DEF Collected, Complete, Prefix
    <2>6. PrintedSoFar'
      BY <1>1, <2>2 DEF PrintedSoFar
    <2>7. QED
      BY <1>1, <2>2, <2>5, <2>6
  <1>3. CASE ~done
    <2>1. at' = [at EXCEPT ![t] = "reset"] /\ first' = (IF first = {} THEN {t} ELSE first)
      BY <1>3 DEF Check, Goto
    <2>2. ~overlap /\ phase = "run" /\ \A u \in Threads : ~Collecting(u)
      BY <1>3 DEF Check
    <2>3. Collected /\ PrintedSoFar
      BY <2>2 DEF Alone
    <2>4. first = {}
      BY <1>3, <2>2, <2>3 DEF Collected
    <2>5. at'[t] = "reset" /\ \A u \in Threads : u # t => at'[u] = at[u]
      BY <1>0, <2>1
    <2>6. InProgress(t)' /\ Collecting(t)' /\ \A u \in Threads : u # t => ~Collecting(u)'
      BY <1>1, <1>3, <2>1, <2>2, <2>4, <2>5 DEF InProgress, Collecting
    <2>7. Collected'
      BY <1>1, <1>3, <2>1, <2>4, <2>6 DEF Collected
    <2>8. PrintedSoFar'
      BY <1>1, <2>2 DEF PrintedSoFar
    <2>9. QED
      BY <1>1, <2>2, <2>7, <2>8
  <1>4. QED
    BY <1>2, <1>3

\* A step of the only thread that collects, to the next step of its own.
LEMMA CollectorAlone ==
    ASSUME IInv, Alone, NEW t \in Threads, Collecting(t),
           UNCHANGED <<phase, overlap, first, walk, names, key>>,
           \A u \in Threads : u # t => at'[u] = at[u],
           ~overlap /\ Fits /\ Collected =>
               IF Collecting(t)' THEN InProgress(t)' ELSE done' /\ Complete(t)'
    PROVE  Alone'
  <1> SUFFICES ASSUME ~overlap, Fits
               PROVE  Collected' /\ PrintedSoFar' /\ phase' # "corrupt"
    BY DEF Alone
  <1>1. Collected /\ PrintedSoFar /\ phase = "run" /\ first = {t}
    BY DEF Alone, Collected, InProgress
  <1>2. \A u \in Threads : u # t => ~Collecting(u) /\ ~Collecting(u)'
    BY <1>1 DEF Collected, InProgress, Collecting
  <1>3. Collected'
    <2>1. CASE Collecting(t)'
      BY <1>1, <1>2, <2>1 DEF Collected, InProgress
    <2>2. CASE ~Collecting(t)'
      BY <1>1, <1>2, <2>2 DEF Collected
    <2>3. QED
      BY <2>1, <2>2
  <1>4. PrintedSoFar' /\ phase' # "corrupt"
    BY <1>1 DEF PrintedSoFar
  <1>5. QED
    BY <1>3, <1>4

LEMMA HandlerAlone ==
    ASSUME IInv, Alone, NEW t \in Threads, Int3(t) \/ Handler(t) PROVE Alone'
  <1>0. /\ at \in [Threads -> {"run", "check", "reset", "store", "bump", "finish"}]
        /\ frame \in [Threads -> Nat \ {0}] /\ slot \in [Threads -> Nat]
        /\ stack \in [1..Depth -> Pcs] /\ top \in Nat /\ Depth \in Nat
        /\ Len(Frames[t]) \in Nat /\ (Frames[t] = <<>> <=> Len(Frames[t]) = 0)
    BY DepthAssumption, FrameAssumption DEF IInv, ThreadTypeOK, StackOK
  <1>1. CASE Int3(t)
    <2>1. at' = [at EXCEPT ![t] = "check"] /\ at[t] = "run"
          /\ UNCHANGED <<stack, top, phase, walk, names, key, done, frame, slot, first, overlap>>
      BY <1>1 DEF Int3, Goto, symVars, search, ghosts
    <2>2. \A u \in Threads : at'[u] = at[u] \/ (u = t /\ at'[u] = "check")
      BY <1>0, <2>1
    <2>3. \A u \in Threads : Collecting(u)' = Collecting(u)
      BY <1>0, <2>1, <2>2 DEF Collecting
    <2>4. \A u \in Threads : InProgress(u) /\ Collecting(u) => InProgress(u)'
      BY <2>1, <2>2 DEF InProgress, Prefix, Collecting
    <2>5. Collected => Collected'
      BY <2>1, <2>3, <2>4 DEF Collected, Complete, Prefix
    <2>6. QED
      BY <2>1, <2>5 DEF Alone, PrintedSoFar
  <1>2. CASE Reset(t)
    <2>1. /\ at[t] = "reset" /\ top' = 0 /\ frame'[t] = 1
          /\ at'[t] = (IF Frames[t] = <<>> THEN "finish" ELSE "store")
          /\ UNCHANGED <<stack, phase, walk, names, key, done, first, overlap>>
      BY <1>0, <1>2 DEF Reset, Goto, symVars, search, ghosts
    <2>2. ~overlap /\ Fits /\ Collected => InProgress(t)' /\ Collecting(t)'
      BY <1>0, <2>1 DEF Collected, Collecting, InProgress, Prefix
    <2>3. QED
      BY <1>2, <2>1, <2>2, HandlerFrame, CollectorAlone DEF Collecting, Handler
  <1>3. CASE Store(t)
    <2>1. /\ at[t] = "store" /\ top < Depth /\ slot'[t] = top /\ at'[t] = "bump"
          /\ stack' = [stack EXCEPT ![top + 1] = Frames[t][frame[t]]]
          /\ UNCHANGED <<top, phase, walk, names, key, done, frame, first, overlap>>
      BY <1>0, <1>3 DEF Store, Goto, symVars, search, ghosts
    <2>2. ASSUME ~overlap, Fits, Collected PROVE InProgress(t)' /\ Collecting(t)'
      <3>1. InProgress(t) /\ top = frame[t] - 1 /\ Prefix(t, frame[t] - 1) /\ frame[t] \in Nat
        BY <1>0, <2>1, <2>2 DEF Collected, Collecting, InProgress
      <3>2. Prefix(t, frame[t])'
        BY <1>0, <2>1, <3>1 DEF Prefix
      <3>3. QED
        BY <2>1, <3>1, <3>2 DEF InProgress, Collecting
    <2>3. QED
      BY <1>3, <2>1, <2>2, HandlerFrame, CollectorAlone DEF Collecting, Handler
  <1>4. CASE StoreOutside(t)
    <2>1. at[t] = "store" /\ top >= Depth /\ UNCHANGED overlap
      BY <1>4 DEF StoreOutside, ghosts
    <2>2. frame[t] \in 1..Len(Frames[t])
      BY <2>1 DEF IInv, Stored
    <2>3. ~(~overlap /\ Fits)
      BY <1>0, <2>1, <2>2 DEF Alone, Collected, Collecting, InProgress, Fits
    <2>4. QED
      BY <2>1, <2>3 DEF Alone
  <1>5. CASE Bump(t)
    <2>1. /\ at[t] = "bump" /\ frame'[t] = frame[t] + 1 /\ top' \in {slot[t] + 1, top + 1}
          /\ at'[t] = (IF frame[t] = Len(Frames[t]) THEN "finish" ELSE "store")
          /\ UNCHANGED <<stack, phase, walk, names, key, done, slot, first, overlap>>
      BY <1>0, <1>5 DEF Bump, Goto, symVars, search, ghosts
    <2>2. ASSUME ~overlap, Fits, Collected PROVE InProgress(t)' /\ Collecting(t)'
      <3>1. /\ InProgress(t) /\ top = frame[t] - 1 /\ slot[t] = top /\ Prefix(t, frame[t])
            /\ frame[t] \in Nat
        BY <1>0, <2>1, <2>2 DEF Collected, Collecting, InProgress
      <3>2. top' = frame[t] /\ frame'[t] - 1 = frame[t]
        BY <2>1, <3>1
      <3>3. \A i \in 1..frame[t] : stack'[i] = Frames[t][i]
        BY <2>1, <3>1 DEF Prefix
      <3>4. QED
        BY <2>1, <3>1, <3>2, <3>3 DEF InProgress, Collecting, Prefix
    <2>3. QED
      BY <1>5, <2>1, <2>2, HandlerFrame, CollectorAlone DEF Collecting, Handler
  <1>6. CASE Finish(t)
    <2>1. /\ at[t] = "finish" /\ done' /\ at'[t] = "run"
          /\ UNCHANGED <<stack, top, phase, walk, names, key, frame, slot, first, overlap>>
      BY <1>0, <1>6 DEF Finish, Goto, symVars, search, ghosts
    <2>2. ~overlap /\ Fits /\ Collected => Complete(t)' /\ ~Collecting(t)'
      BY <2>1 DEF Collected, Collecting, InProgress, Complete, Prefix
    <2>3. QED
      BY <1>6, <2>1, <2>2, HandlerFrame, CollectorAlone DEF Collecting, Handler
  <1>7. QED
    BY <1>1, <1>2, <1>3, <1>4, <1>5, <1>6, CheckAlone DEF Handler

LEMMA ExitAlone == ASSUME IInv, Alone, Exit PROVE Alone'
  <1> SUFFICES ASSUME ~overlap', Fits
               PROVE  Collected' /\ PrintedSoFar' /\ phase' # "corrupt"
    BY DEF Alone
  <1>1. ~overlap /\ \A u \in Threads : ~Collecting(u)
    BY DEF Exit
  <1>2. UNCHANGED <<stack, top, done, at, frame, slot, first>> /\ phase' = "libs"
    BY DEF Exit
  <1>3. Collected
    BY <1>1 DEF Alone
  <1>4. Collected'
    BY <1>1, <1>2, <1>3 DEF Collected, Collecting, Complete, Prefix
  <1>5. QED
    BY <1>2, <1>4 DEF PrintedSoFar

LEMMA NextAlone == IInv /\ Alone /\ [Next]_vars => Alone'
  <1> SUFFICES ASSUME IInv, Alone, [Next]_vars PROVE Alone'
    OBVIOUS
  <1>1. CASE UNCHANGED vars
    <2>1. UNCHANGED <<stack, top, phase, walk, names, key, done, at, frame, slot, first, overlap>>
      BY <1>1 DEF vars, symVars, search, ghosts
    <2>2. QED
      BY <2>1 DEF Alone, Collected, PrintedSoFar, InProgress, Complete, Prefix, Collecting
  <1>2. QED
    BY <1>1, HandlerAlone, ExitAlone, PrintAlone DEF Next, Terminated

LEMMA AloneHolds == Spec => [](IInv /\ Alone)
  BY InitIInv, NextIInv, InitAlone, NextAlone, PTL DEF Spec

(***************************************************************************)
(* Names.  The functions of a library come into the table together, so a   *)
(* size that is filled in ends before any larger one of the same library,  *)
(* however many libraries are read before and after.                       *)
(***************************************************************************)
\* The function of a symbol table that the entry stands for.
FromElf(e) ==
    /\ e.lib \in Libs /\ e.at \in DOMAIN elf[e.lib] /\ elf[e.lib][e.at].func
    /\ e.value = elf[e.lib][e.at].value + Base[e.lib]
    /\ ~Unsized(e) => e.size = elf[e.lib][e.at].size

Origin == \A i \in DOMAIN syms :
    FromElf(syms[i]) /\ \E m \in 1..opened : shlibs[m] = syms[i].lib

EndsBefore(e, g) == e.lib = g.lib /\ e.value < g.value => e.value + e.size <= g.value

Filled == \A i, j \in DOMAIN syms : Unsized(syms[i]) => EndsBefore(syms[i], syms[j])

Named ==
    /\ phase = "search" => key \in Pcs
    /\ \A n \in DOMAIN names : names[n].lib # NoLib =>
          /\ names[n].pc \in Pcs
          /\ \E i \in DOMAIN syms : syms[i].lib = names[n].lib /\ Covers(syms[i], names[n].pc)

LocalInv == Origin /\ Filled /\ Named

LEMMA SizedFacts ==
    ASSUME NEW S, S \subseteq Symbols, IsFiniteSet(S), NEW t \in Sorted(S)
    PROVE  /\ DOMAIN t \subseteq Nat /\ DOMAIN Sized(t) = DOMAIN t
           /\ \A i \in DOMAIN t :
                 /\ t[i] \in S
                 /\ Sized(t)[i].lib = t[i].lib /\ Sized(t)[i].at = t[i].at
                 /\ Sized(t)[i].value = t[i].value
                 /\ t[i].size # 0 => Sized(t)[i].size = t[i].size
           /\ \A i, j \in DOMAIN t : t[i].size = 0 /\ t[i].value < t[j].value =>
                 Sized(t)[i].value + Sized(t)[i].size <= t[j].value
  <1> DEFINE n == Cardinality(S)
  <1>1. n \in Nat
    BY FS_CardinalityType
  <1>2. /\ t \in [1..n -> S]
        /\ \A i, j \in 1..n : i < j => t[i].value <= t[j].value
    BY DEF Sorted
  <1> HIDE DEF n
  <1>3. Len(t) = n /\ DOMAIN t = 1..n /\ DOMAIN Sized(t) = 1..n
    BY <1>1, <1>2 DEF Sized
  <1>4. \A i \in 1..n : t[i] \in S /\ t[i] \in Symbols /\ t[i].value \in Nat
    BY <1>2 DEF Symbols
  <1>5. ASSUME NEW i \in 1..n, t[i].size # 0 \/ i = n
        PROVE  Sized(t)[i] = t[i]
    BY <1>3, <1>5 DEF Sized
  <1>6. ASSUME NEW i \in 1..n, t[i].size = 0, i # n
        PROVE  /\ Sized(t)[i].lib = t[i].lib /\ Sized(t)[i].at = t[i].at
               /\ Sized(t)[i].value = t[i].value
               /\ Sized(t)[i].size = t[i + 1].value - t[i].value
    <2>1. Sized(t)[i] = [t[i] EXCEPT !.size = t[i + 1].value - t[i].value]
      BY <1>3, <1>6 DEF Sized
    <2>2. t[i] \in Symbols
      BY <1>4
    <2>3. QED
      BY <2>1, <2>2 DEF Symbols
  <1>7. ASSUME NEW i \in 1..n, NEW j \in 1..n, t[i].size = 0, t[i].value < t[j].value
        PROVE  Sized(t)[i].value + Sized(t)[i].size <= t[j].value
    <2>1. i < j
      <3>1. ASSUME j < i PROVE FALSE
        BY <1>2, <1>4, <1>7, <3>1
      <3>2. i # j
        BY <1>4, <1>7
      <3>3. QED
        BY <3>1, <3>2
    <2>2. i + 1 \in 1..n /\ i # n
      BY <1>1, <2>1
    <2>3. t[i + 1].value <= t[j].value
      <3>1. CASE i + 1 = j
        BY <1>4, <3>1
      <3>2. CASE i + 1 < j
        BY <1>2, <2>2, <3>2
      <3>3. QED
        BY <2>1, <3>1, <3>2
    <2>4. QED
      BY <1>4, <1>6, <1>7, <2>2, <2>3
  <1>8. QED
    BY <1>3, <1>4, <1>5, <1>6, <1>7

\* A library is read: the table gets all its functions at once.
LEMMA OpenLocal ==
    ASSUME SymInv, Origin, Filled, phase = "open", opened < Len(shlibs),
           KelfOpen(shlibs[opened + 1]), opened' = opened + 1, UNCHANGED <<elf, shlibs>>
    PROVE  Origin' /\ Filled'
  <1> DEFINE l == shlibs[opened + 1]
  <1>1. /\ opened + 1 \in 1..Len(shlibs) /\ l \in Libs /\ opened \in Nat
        /\ SymsTypeOK
        /\ \A m \in 1..opened : shlibs[m] # l
        /\ 1..opened \subseteq 1..(opened + 1)
    BY DEF SymInv, SymsTypeOK, ShlibsAreDistinct
  <1> HIDE DEF l
  <1>2. CASE UNCHANGED syms
    BY <1>1, <1>2 DEF Origin, Filled, FromElf, Unsized, EndsBefore
  <1>3. CASE \E t \in Sorted(Entries(l)) : syms' = Sized(t)
    <2>1. PICK t \in Sorted(Entries(l)) : syms' = Sized(t)
      BY <1>3
    <2>2. /\ DOMAIN t \subseteq Nat /\ DOMAIN syms' = DOMAIN t
          /\ \A i \in DOMAIN t :
                /\ t[i] \in Entries(l)
                /\ syms'[i].lib = t[i].lib /\ syms'[i].at = t[i].at
                /\ syms'[i].value = t[i].value
                /\ t[i].size # 0 => syms'[i].size = t[i].size
          /\ \A i, j \in DOMAIN t : t[i].size = 0 /\ t[i].value < t[j].value =>
                syms'[i].value + syms'[i].size <= t[j].value
      BY <1>1, <2>1, EntriesType, SizedFacts
    <2>3. ASSUME NEW e \in Entries(l)
          PROVE  /\ FromElf(e)
                 /\ \E m \in 1..(opened + 1) : shlibs[m] = e.lib
                 /\ e.lib = l /\ Unsized(e) => e.size = 0
                 /\ e.lib # l => \E i \in DOMAIN syms : e = syms[i]
      <3>1. ASSUME NEW i \in DOMAIN syms, e = syms[i]
            PROVE  /\ FromElf(e) /\ e.lib # l
                   /\ \E m \in 1..(opened + 1) : shlibs[m] = e.lib
        BY <1>1, <3>1 DEF Origin
      <3>2. ASSUME NEW k \in Kept(l), e = Symbol(l, k)
            PROVE  /\ FromElf(e) /\ e.lib = l /\ (Unsized(e) => e.size = 0)
                   /\ \E m \in 1..(opened + 1) : shlibs[m] = e.lib
        <4>1. k \in DOMAIN elf[l] /\ elf[l][k].func
          BY <1>1, ElfType DEF Kept, SymsTypeOK
        <4>2. e.lib = l /\ e.at = k /\ e.value = elf[l][k].value + Base[l] /\ e.size = elf[l][k].size
          BY <3>2 DEF Symbol
        <4>3. opened + 1 \in 1..(opened + 1) /\ shlibs[opened + 1] = l
          BY <1>1 DEF l
        <4>4. QED
          BY <1>1, <4>1, <4>2, <4>3 DEF FromElf, Unsized
      <3>3. QED
        BY <3>1, <3>2 DEF Entries
    <2>4. Origin'
      <3> SUFFICES ASSUME NEW i \in DOMAIN syms'
                   PROVE  FromElf(syms'[i]) /\ \E m \in 1..(opened + 1) : shlibs[m] = syms'[i].lib
        BY DEF Origin, FromElf, Unsized
      <3>1. t[i] \in Entries(l)
        BY <2>2
      <3>2. /\ FromElf(t[i])
            /\ \E m \in 1..(opened + 1) : shlibs[m] = t[i].lib
        BY <2>3, <3>1
      <3>3. /\ syms'[i].lib = t[i].lib /\ syms'[i].at = t[i].at
            /\ syms'[i].value = t[i].value
            /\ t[i].size # 0 => syms'[i].size = t[i].size
        BY <2>2
      <3>4. ~Unsized(t[i]) => t[i].size # 0
        BY <3>2 DEF FromElf, Unsized
      <3>5. QED
        BY <3>2, <3>3, <3>4 DEF FromElf, Unsized
    <2>5. Filled'
      <3> SUFFICES ASSUME NEW i \in DOMAIN syms', NEW j \in DOMAIN syms',
                          Unsized(syms'[i]), syms'[i].lib = syms'[j].lib,
                          syms'[i].value < syms'[j].value
                   PROVE  syms'[i].value + syms'[i].size <= syms'[j].value
        BY DEF Filled, EndsBefore, Unsized
      <3>1. /\ i \in DOMAIN t /\ j \in DOMAIN t
            /\ t[i] \in Entries(l) /\ t[j] \in Entries(l)
            /\ Unsized(t[i])
            /\ t[i].lib = t[j].lib /\ t[i].value < t[j].value
            /\ syms'[j].value = t[j].value /\ syms'[i].value = t[i].value
        BY <2>2 DEF Unsized
      <3>2. CASE t[i].size = 0
        BY <2>2, <3>1, <3>2
      <3>3. CASE t[i].size # 0
        <4>1. t[i].lib # l
          BY <2>3, <3>1, <3>3
        <4>2. PICK a \in DOMAIN syms : t[i] = syms[a]
          BY <2>3, <3>1, <4>1
        <4>3. PICK b \in DOMAIN syms : t[j] = syms[b]
          BY <2>3, <3>1, <4>1
        <4>4. t[i].value + t[i].size <= t[j].value
          BY <3>1, <4>2, <4>3 DEF Filled, EndsBefore
        <4>5. QED
          BY <2>2, <3>1, <3>3, <4>4
      <3>4. QED
        BY <3>2, <3>3
    <2>6. QED
      BY <2>4, <2>5
  <1>4. QED
    BY <1>2, <1>3 DEF KelfOpen, l

LEMMA KeepLocal ==
    ASSUME LocalInv, UNCHANGED <<elf, table, names>>, phase' = "search" => key' \in Pcs
    PROVE  LocalInv'
  BY DEF LocalInv, Origin, FromElf, Unsized, Filled, EndsBefore, Named, table

LEMMA WalkLocal == ASSUME SymInv, LocalInv, WalkStack PROVE LocalInv'
  <1>1. /\ UNCHANGED <<elf, syms, opened, names, key>> /\ phase' # "search"
        /\ shlibs \in Seq(Libs) /\ opened \in 0..Len(shlibs)
    BY DEF WalkStack, search, SymInv, SymsTypeOK
  <1>2. \A m \in 1..opened : shlibs'[m] = shlibs[m]
    <2>1. \E l : shlibs' \in {shlibs, Append(shlibs, l)}
      BY DEF WalkStack, AddShlib
    <2>2. PICK l : shlibs' \in {shlibs, Append(shlibs, l)}
      BY <2>1
    <2>3. QED
      BY <1>1, <2>2
  <1>3. QED
    BY <1>1, <1>2 DEF LocalInv, Origin, FromElf, Unsized, Filled, EndsBefore, Named

LEMMA LoadLocal == ASSUME SymInv, LocalInv, LoadSyms PROVE LocalInv'
  <1>1. names = <<>> /\ UNCHANGED <<elf, shlibs, names>> /\ phase = "open" /\ phase' # "search"
    BY DEF LoadSyms, KelfOpen, SymInv, Early
  <1>2. Origin' /\ Filled'
    <2>1. CASE opened < Len(shlibs)
      BY <1>1, <2>1, OpenLocal DEF LoadSyms, LocalInv
    <2>2. CASE ~(opened < Len(shlibs))
      BY <1>1, <2>2 DEF LoadSyms, LocalInv, Origin, FromElf, Unsized, Filled, EndsBefore
    <2>3. QED
      BY <2>1, <2>2
  <1>3. QED
    BY <1>1, <1>2 DEF LocalInv, Named

LEMMA NameLocal ==
    ASSUME SymInv, LocalInv, phase = "search", NextFrame,
           NEW l \in Libs \cup {NoLib}, NEW k \in Nat, NEW off \in Nat, Name(l, k, off),
           l # NoLib => \E i \in DOMAIN syms : syms[i].lib = l /\ Covers(syms[i], key)
    PROVE  LocalInv'
  <1> DEFINE new == [pc |-> key, lib |-> l, at |-> k, off |-> off]
  <1>1. /\ names \in Seq([pc : Nat, lib : Libs \cup {NoLib}, at : Nat, off : Nat])
        /\ names' = Append(names, new) /\ key \in Pcs
        /\ UNCHANGED <<elf, shlibs, opened, syms>> /\ phase' = "print"
    BY DEF SymInv, SymsTypeOK, LocalInv, Named, Name, NextFrame, table
  <1>2. ASSUME NEW n \in DOMAIN names', names'[n].lib # NoLib
        PROVE  /\ names'[n].pc \in Pcs
               /\ \E i \in DOMAIN syms :
                     syms[i].lib = names'[n].lib /\ Covers(syms[i], names'[n].pc)
    <2>1. CASE n \in DOMAIN names
      <3>1. names'[n] = names[n]
        BY <1>1, <2>1
      <3>2. QED
        BY <1>2, <2>1, <3>1 DEF LocalInv, Named
    <2>2. CASE n \notin DOMAIN names
      <3>1. names'[n] = new
        BY <1>1, <1>2, <2>2
      <3>2. names'[n].pc = key /\ names'[n].lib = l
        BY <3>1
      <3>3. \E i \in DOMAIN syms : syms[i].lib = l /\ Covers(syms[i], key)
        BY <1>2, <3>2
      <3>4. QED
        BY <1>1, <3>2, <3>3
    <2>3. QED
      BY <2>1, <2>2
  <1>3. Origin' /\ Filled'
    BY <1>1 DEF LocalInv, Origin, FromElf, Unsized, Filled, EndsBefore
  <1>4. QED
    BY <1>1, <1>2, <1>3 DEF LocalInv, Named

LEMMA PrintLocal == ASSUME IInv, LocalInv, BtPrintStack PROVE LocalInv'
  <1>1. SymInv /\ Symbolise
    BY BtPrintStackSteps DEF IInv
  <1>2. CASE PrintFrame
    BY <1>2, KeepLocal, FrameType DEF PrintFrame, IInv, ThreadTypeOK
  <1>3. CASE Probe
    BY <1>3, KeepLocal DEF Probe, LocalInv, Named
  <1>4. CASE Found
    <2>1. Mid \in DOMAIN syms /\ syms[Mid] \in Symbols /\ key \in Nat
      BY <1>1, <1>4, MidFacts DEF SymInv, SymsTypeOK, Found
    <2>2. Covers(syms[Mid], key)
      BY <1>4 DEF Found
    <2>3. /\ syms[Mid].lib \in Libs /\ syms[Mid].at \in Nat
          /\ key - syms[Mid].value \in Nat
      BY <2>1, <2>2 DEF Symbols, Covers
    <2>4. QED
      BY <1>1, <1>4, <2>1, <2>2, <2>3, NameLocal DEF Found
  <1>5. CASE NotFound
    BY <1>1, <1>5, NameLocal DEF NotFound, SymInv, SymsTypeOK
  <1>6. CASE KelfClose
    BY <1>6, KeepLocal DEF KelfClose
  <1>7. QED
    BY <1>1, <1>2, <1>3, <1>4, <1>5, <1>6, WalkLocal, LoadLocal DEF Symbolise

LEMMA NextLocal == IInv /\ LocalInv /\ [Next]_vars => LocalInv'
  <1> SUFFICES ASSUME IInv, LocalInv, [Next]_vars PROVE LocalInv'
    OBVIOUS
  <1>1. ASSUME NEW t \in Threads, Int3(t) \/ Handler(t) PROVE LocalInv'
    <2>1. UNCHANGED <<elf, table, key, names>> /\ phase' \in {phase, "corrupt"}
      BY <1>1 DEF Int3, Handler, Check, Reset, Store, StoreOutside, Bump, Finish, symVars, search
    <2>2. QED
      BY <2>1, KeepLocal DEF LocalInv, Named
  <1>2. CASE Exit
    BY <1>2, KeepLocal DEF Exit
  <1>3. CASE UNCHANGED vars
    BY <1>3, KeepLocal DEF vars, symVars, search, LocalInv, Named
  <1>4. QED
    BY <1>1, <1>2, <1>3, PrintLocal DEF Next, Terminated

LEMMA LocalHolds == Spec => [](IInv /\ LocalInv)
  <1>1. Init => LocalInv
    BY DEF Init, SymsInit, LocalInv, Origin, Filled, Named
  <1>2. QED
    BY <1>1, InitIInv, NextIInv, NextLocal, PTL DEF Spec

(***************************************************************************)
(* The theorems.                                                           *)
(***************************************************************************)

(* Types (all of backtrace.c and ksyms.c).                                 *)
THEOREM TypeCorrect == Spec => []TypeOK
  <1>1. IInv => TypeOK
    BY TypeParts DEF IInv, SymInv
  <1>2. QED
    BY <1>1, InvariantHolds, PTL

(* add_shlib(): a library is not read twice, and not more than MAX_SHLIBS. *)
THEOREM LibrariesAreReadOnce == Spec => []ShlibsAreDistinct
  <1>1. IInv => ShlibsAreDistinct
    BY DEF IInv, SymInv
  <1>2. QED
    BY <1>1, InvariantHolds, PTL

(* kelf_snprintsym(): bsearch() is exact in a table without nested         *)
(* functions, of whatever libraries, sizes and duplicates.                 *)
THEOREM SearchIsExact == Spec => []LookupIsExact
  <1>1. IInv => LookupIsExact
    BY DEF IInv, SymInv
  <1>2. QED
    BY <1>1, InvariantHolds, PTL

(* kelf_open(): where the loader keeps the libraries apart, no frame gets  *)
(* the name of a function of another library, as long as the size of no    *)
(* function is guessed from another library.                               *)
THEOREM NamesStayLocal == Spec => []NamesAreLocal
  <1>1. IInv /\ LocalInv => NamesAreLocal
    <2> SUFFICES ASSUME IInv, LocalInv,
                        \A i \in DOMAIN syms : Unsized(syms[i]) =>
                          \E j \in DOMAIN syms : /\ syms[j].lib = syms[i].lib
                                                 /\ syms[j].value > syms[i].value,
                        NEW n \in DOMAIN names, names[n].lib # NoLib
                 PROVE  names[n].lib = LibAt[names[n].pc]
      BY DEF NamesAreLocal
    <2> DEFINE pc == names[n].pc
    <2>1. pc \in Pcs /\ pc \in Nat
      BY PcAssumption DEF LocalInv, Named
    <2>2. PICK i \in DOMAIN syms : syms[i].lib = names[n].lib /\ Covers(syms[i], pc)
      BY DEF LocalInv, Named
    <2> HIDE DEF pc
    <2> DEFINE l == syms[i].lib
    <2>3. /\ FromElf(syms[i]) /\ l \in Libs /\ elf \in Images
          /\ syms[i].at \in DOMAIN elf[l] /\ elf[l][syms[i].at].func
          /\ syms[i].value = elf[l][syms[i].at].value + Base[l]
      BY DEF LocalInv, Origin, FromElf, IInv, SymInv, SymsTypeOK
    <2>4. syms[i].value <= pc /\ pc < syms[i].value + syms[i].size
      BY <2>2 DEF Covers
    <2>5. CASE ~Unsized(syms[i])
      <3>1. syms[i].size = elf[l][syms[i].at].size
        BY <2>3, <2>5 DEF FromElf
      <3>2. QED
        BY <2>1, <2>2, <2>3, <2>4, <3>1, MappingAssumption DEF pc
    <2>6. CASE Unsized(syms[i])
      <3>1. PICK j \in DOMAIN syms : syms[j].lib = l /\ syms[j].value > syms[i].value
        BY <2>6
      <3>2. /\ syms[i].value \in Nat /\ syms[i].size \in Nat /\ syms[j].value \in Nat
        <4>1. syms \in Seq(Symbols)
          BY DEF IInv, SymInv, SymsTypeOK
        <4>2. syms[i] \in Symbols /\ syms[j] \in Symbols
          BY <4>1
        <4>3. QED
          BY <4>2 DEF Symbols
      <3>3. syms[i].value + syms[i].size <= syms[j].value
        BY <2>6, <3>1, <3>2 DEF LocalInv, Filled, EndsBefore
      <3>4. pc < syms[j].value
        BY <2>1, <2>4, <3>2, <3>3
      <3>5. /\ syms[j].at \in DOMAIN elf[l] /\ elf[l][syms[j].at].func
            /\ syms[j].value = elf[l][syms[j].at].value + Base[l]
        BY <3>1 DEF LocalInv, Origin, FromElf
      <3>6. LibAt[pc] = l
        BY <2>1, <2>3, <2>4, <3>4, <3>5, MappingAssumption
      <3>7. QED
        BY <2>2, <3>6 DEF pc
    <2>7. QED
      BY <2>5, <2>6
  <1>2. QED
    BY <1>1, LocalHolds, PTL

(* collect_backtrace() writes behind its buffer only for handlers that     *)
(* overlap, or a stack that is too deep.                                   *)
THEOREM BufferIsSafe == Spec => []StaysInBounds
  <1>1. IInv /\ Alone => StaysInBounds
    BY DEF IInv, SymInv, ShlibsAreDistinct, Alone, StaysInBounds
  <1>2. QED
    BY <1>1, InvariantHolds, AloneHolds, PTL

(* sigtrap_hndl(): without overlap exactly one whole stack is collected,   *)
(* and it is what bt_print_stack() prints.                                 *)
THEOREM OneStackIsPrinted == Spec => []OneStack
  <1>1. IInv /\ Alone => OneStack
    <2> SUFFICES ASSUME IInv, Alone, ~overlap, Fits
                 PROVE  /\ done => \E t \in first :
                               Len(Frames[t]) = top /\ \A i \in 1..top : stack[i] = Frames[t][i]
                        /\ phase = "done" =>
                               Len(names) = top /\ \A i \in 1..top : names[i].pc = stack[i]
      BY DEF OneStack
    <2>1. Collected /\ PrintedSoFar
      BY DEF Alone
    <2>2. QED
      BY <2>1 DEF Collected, Complete, Prefix, PrintedSoFar
  <1>2. QED
    BY <1>1, AloneHolds, PTL

(* sigtrap_hndl(): what was collected when the flag is set, and no handler *)
(* is left that did not see it, stays.                                     *)
THEOREM StackIsFinal == Spec => CollectedIsFinal
  <1>1. ASSUME IInv, [Next]_vars, done, AllReturned
        PROVE  done' /\ AllReturned' /\ UNCHANGED <<stack, top>>
    <2>1. \A u \in Threads : at[u] \in {"run", "check"}
      BY <1>1 DEF AllReturned, Collecting, IInv, ThreadTypeOK
    <2>2. ASSUME NEW t \in Threads, Int3(t) \/ Handler(t)
          PROVE  /\ done' = done /\ UNCHANGED <<stack, top>>
                 /\ \E l \in {"run", "check"} : at' = [at EXCEPT ![t] = l]
      BY <1>1, <2>1, <2>2 DEF Int3, Handler, Check, Reset, Store, StoreOutside, Bump, Finish, Goto
    <2>3. ASSUME NEW t \in Threads, Int3(t) \/ Handler(t)
          PROVE  done' /\ AllReturned' /\ UNCHANGED <<stack, top>>
      <3>1. \A u \in Threads : at'[u] \in {"run", "check"}
        BY <1>1, <2>1, <2>2, <2>3 DEF IInv, ThreadTypeOK
      <3>2. done' /\ UNCHANGED <<stack, top>>
        BY <1>1, <2>2, <2>3
      <3>3. QED
        BY <3>1, <3>2 DEF AllReturned, Collecting
    <2>4. CASE Exit \/ BtPrintStack \/ UNCHANGED vars
      <3>1. UNCHANGED <<done, at, stack, top>>
        BY <2>4, BtPrintStackSteps DEF Exit, vars, collectVars
      <3>2. QED
        BY <1>1, <3>1 DEF AllReturned, Collecting
    <2>5. QED
      BY <1>1, <2>3, <2>4 DEF Next, Terminated
  <1>2. QED
    BY <1>1, InvariantHolds, PTL DEF Spec, CollectedIsFinal
=============================================================================
