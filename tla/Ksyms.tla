-------------------------------- MODULE Ksyms --------------------------------
(***************************************************************************)
(* The symbol tables of ksyms.c, and their use: mprofile/record.c and      *)
(* backtrace.test/backtrace.c look for the libraries behind the collected  *)
(* frames, read the functions of each into one table, and look every frame *)
(* up in it with bsearch(), here one comparison per step.                  *)
(***************************************************************************)
EXTENDS Integers, Sequences, FiniteSets

CONSTANTS
    Pcs,        \* addresses a frame can hold
    Libs,       \* shared libraries
    NoLib,      \* dladdr() found no library, or no symbol was found
    LibAt,      \* the library that is mapped at an address
    Base,       \* dli_fbase of each library
    Images,     \* possible contents of the symbol tables of the files
    MaxShlibs   \* MAX_SHLIBS, MAX_STACK_DEPTH

RawSymbols == [func : BOOLEAN, value : Nat, size : Nat]

ASSUME PcAssumption == Pcs \subseteq Nat /\ 0 \in Pcs
ASSUME LibAssumption ==
    /\ NoLib \notin Libs /\ Base \in [Libs -> Nat]
    /\ LibAt \in [Pcs -> Libs \cup {NoLib}] /\ LibAt[0] = NoLib
ASSUME ImageAssumption == Images \subseteq [Libs -> Seq(RawSymbols)]
ASSUME ShlibAssumption == MaxShlibs \in Nat

\* The loader maps a library in one piece: an address inside one of its
\* functions, or between two of them, is in that library.
ASSUME MappingAssumption ==
    \A image \in Images, l \in Libs, pc \in Pcs : \A i, j \in DOMAIN image[l] :
        /\ image[l][i].func /\ image[l][j].func
        /\ image[l][i].value + Base[l] <= pc
        /\ \/ pc < image[l][i].value + Base[l] + image[l][i].size
           \/ pc < image[l][j].value + Base[l]
        => LibAt[pc] = l

VARIABLES
    elf,      \* .symtab of each library; empty if it has none or is not found
    stack,    \* the frames collected
    top,      \* how many of them count
    phase,    \* what the exit handler does
    walk,     \* the frame it looks at
    shlibs,   \* the libraries found
    opened,   \* how many of them were read
    syms,     \* the table, empty while syms == NULL
    key,      \* bsearch(): the address looked for,
    lo,       \*     the part of the table that is left: from here
    hi,       \*     to before this
    names     \* what was printed for each frame

table == <<shlibs, opened, syms>>
search == <<key, lo, hi>>
symVars == <<phase, walk, table, search, names>>

SymsInit ==
    /\ elf \in Images
    /\ phase = "run" /\ walk = 1
    /\ shlibs = <<>> /\ opened = 0 /\ syms = <<>>
    /\ key = 0 /\ lo = 1 /\ hi = 1
    /\ names = <<>>

-----------------------------------------------------------------------------
(* load_syms().                                                            *)

Listed(l) == \E i \in DOMAIN shlibs : shlibs[i] = l

\* Variant: a library that is already in the list is added again.
AddShlibAgain(l) == IF Len(shlibs) = MaxShlibs THEN shlibs ELSE Append(shlibs, l)

\* When the list is full the comparison that ends the loop comes after a read
\* of the element behind the last one, whose value makes no difference.
AddShlib(l) == IF Listed(l) \/ Len(shlibs) = MaxShlibs THEN shlibs ELSE Append(shlibs, l)

\* *walk; what is read behind the buffer is anything.
FrameAt == IF walk \in DOMAIN stack THEN {stack[walk]} ELSE Pcs

\* Variant: the result of dladdr() is not looked at.
WalkStackUnchecked ==
    /\ phase = "libs"
    /\ IF walk <= top
       THEN /\ \E pc \in FrameAt : shlibs' = AddShlib(LibAt[pc])
            /\ walk' = walk + 1
            /\ UNCHANGED phase
       ELSE /\ phase' = "open"
            /\ UNCHANGED <<shlibs, walk>>
    /\ UNCHANGED <<elf, stack, top, opened, syms, search, names>>

WalkStack ==
    /\ phase = "libs"
    /\ IF walk <= top
       THEN /\ \E pc \in FrameAt :
                 shlibs' = IF LibAt[pc] = NoLib THEN shlibs ELSE AddShlib(LibAt[pc])
            /\ walk' = walk + 1
            /\ UNCHANGED phase
       ELSE /\ phase' = "open"
            /\ UNCHANGED <<shlibs, walk>>
    /\ UNCHANGED <<elf, stack, top, opened, syms, search, names>>

-----------------------------------------------------------------------------
(* kelf_open().                                                            *)

\* The loop over the symbols starts at nsymb, the number of functions in the
\* table so far, and not at the first symbol of the file.
Kept(l) == {k \in Len(syms) + 1 .. Len(elf[l]) : elf[l][k].func}

\* Variant: the address where the library is mapped is not added.
SymbolUnmapped(l, k) ==
    [lib |-> l, at |-> k, value |-> elf[l][k].value, size |-> elf[l][k].size]

Symbol(l, k) ==
    [lib |-> l, at |-> k, value |-> elf[l][k].value + Base[l], size |-> elf[l][k].size]

\* The table and the symbols read from the file.
Entries(l) == {syms[i] : i \in DOMAIN syms} \cup {Symbol(l, k) : k \in Kept(l)}

\* qsort() by value: symbols with the same value are in any order.
Sorted(S) ==
    {t \in [1..Cardinality(S) -> S] :
        /\ \A e \in S : \E i \in DOMAIN t : t[i] = e
        /\ \A i, j \in DOMAIN t : i < j => t[i].value <= t[j].value}

\* A function without a size extends to the next one; the last one is left.
Sized(t) ==
    [i \in DOMAIN t |->
        IF t[i].size # 0 \/ i = Len(t) THEN t[i]
        ELSE [t[i] EXCEPT !.size = t[i + 1].value - t[i].value]]

\* A table without any function is shrunk to nothing, for which reallocarray()
\* returns NULL: err() ends the process.
KelfOpen(l) ==
    IF elf[l] = <<>> THEN UNCHANGED <<phase, syms>>
    ELSE IF Entries(l) = {} THEN phase' = "failed" /\ UNCHANGED syms
    ELSE /\ \E t \in Sorted(Entries(l)) : syms' = Sized(t)
         /\ UNCHANGED phase

LoadSyms ==
    /\ phase = "open"
    /\ IF opened < Len(shlibs)
       THEN KelfOpen(shlibs[opened + 1]) /\ opened' = opened + 1 /\ UNCHANGED walk
       ELSE phase' = "print" /\ walk' = 1 /\ UNCHANGED <<syms, opened>>
    /\ UNCHANGED <<elf, stack, top, shlibs, search, names>>

-----------------------------------------------------------------------------
(* kelf_snprintsym() for each frame.                                       *)

Name(l, k, off) == names' = Append(names, [pc |-> key, lib |-> l, at |-> k, off |-> off])

\* Without a table the address is printed.
PrintFrame ==
    /\ phase = "print" /\ walk <= top
    /\ key' \in FrameAt
    /\ lo' = 1 /\ hi' = Len(syms) + 1
    /\ phase' = "search"
    /\ UNCHANGED <<elf, stack, top, walk, table, names>>

Mid == (lo + hi) \div 2

\* Variant: the lower half ends before the element in front of the middle.
ProbeSkips ==
    /\ phase = "search" /\ lo < hi
    /\ \/ key < syms[Mid].value /\ hi' = Mid - 1 /\ UNCHANGED lo
       \/ key >= syms[Mid].value + syms[Mid].size /\ lo' = Mid + 1 /\ UNCHANGED hi
    /\ UNCHANGED <<elf, stack, top, phase, walk, table, key, names>>

\* Variant: the upper half begins with the element just compared.
ProbeStays ==
    /\ phase = "search" /\ lo < hi
    /\ \/ key < syms[Mid].value /\ hi' = Mid /\ UNCHANGED lo
       \/ key >= syms[Mid].value + syms[Mid].size /\ lo' = Mid /\ UNCHANGED hi
    /\ UNCHANGED <<elf, stack, top, phase, walk, table, key, names>>

\* sym_compare_search() sends bsearch() to the lower or the upper half ...
Probe ==
    /\ phase = "search" /\ lo < hi
    /\ \/ key < syms[Mid].value /\ hi' = Mid /\ UNCHANGED lo
       \/ key >= syms[Mid].value + syms[Mid].size /\ lo' = Mid + 1 /\ UNCHANGED hi
    /\ UNCHANGED <<elf, stack, top, phase, walk, table, key, names>>

Covers(e, pc) == e.value <= pc /\ pc < e.value + e.size

NextFrame ==
    /\ phase' = "print"
    /\ walk' = walk + 1
    /\ UNCHANGED <<elf, stack, top, table, search>>

\* ... or returns the function, which is printed with the offset into it.
Found ==
    /\ phase = "search" /\ lo < hi
    /\ Covers(syms[Mid], key)
    /\ Name(syms[Mid].lib, syms[Mid].at, key - syms[Mid].value)
    /\ NextFrame

\* No function: the address is printed.
NotFound ==
    /\ phase = "search" /\ lo >= hi
    /\ Name(NoLib, 0, key)
    /\ NextFrame

\* kelf_close()
KelfClose ==
    /\ phase = "print" /\ walk > top
    /\ phase' = "done"
    /\ UNCHANGED <<elf, stack, top, walk, table, search, names>>

Symbolise ==
    WalkStack \/ LoadSyms \/ PrintFrame \/ Probe \/ Found \/ NotFound \/ KelfClose

-----------------------------------------------------------------------------
(* Properties.                                                             *)

Symbols == [lib : Libs, at : Nat, value : Nat, size : Nat]
Phases == {"run", "libs", "open", "print", "search", "done", "failed", "corrupt"}

(* Types of the variables of this module but for the stack.                *)
SymsTypeOK ==
    /\ elf \in Images
    /\ phase \in Phases /\ walk \in Nat \ {0}
    /\ shlibs \in Seq(Libs) /\ opened \in 0..Len(shlibs)
    /\ syms \in Seq(Symbols)
    /\ key \in Nat /\ lo \in Nat \ {0} /\ hi \in Nat /\ hi <= Len(syms) + 1
    /\ names \in Seq([pc : Nat, lib : Libs \cup {NoLib}, at : Nat, off : Nat])

(* Every library is read once, and not more of them than there is room for *)
(* (add_shlib(): a second kelf_open() of one file would double its         *)
(* functions and move the start of the next library further).              *)
ShlibsAreDistinct ==
    /\ Len(shlibs) <= MaxShlibs
    /\ \A i, j \in DOMAIN shlibs : shlibs[i] = shlibs[j] => i = j

\* No function ends behind the end of one with a larger address.
Orderly(t) ==
    \A i, j \in DOMAIN t : i < j =>
        t[i].value <= t[j].value /\ t[i].value + t[i].size <= t[j].value + t[j].size

(* Where no functions are nested bsearch() with a comparison that is not   *)
(* an order finds a function whenever one covers the address, and what it  *)
(* finds does: the sizes filled in for functions without one do not hide   *)
(* others, whatever libraries they come from.                              *)
LookupIsExact ==
    Orderly(syms) => \A n \in DOMAIN names :
        IF names[n].lib = NoLib
        THEN \A i \in DOMAIN syms : ~Covers(syms[i], names[n].pc)
        ELSE \E i \in DOMAIN syms :
               /\ Covers(syms[i], names[n].pc)
               /\ <<names[n].lib, names[n].at>> = <<syms[i].lib, syms[i].at>>

Functions(l) == {Symbol(l, k) : k \in {j \in DOMAIN elf[l] : elf[l][j].func}}

Unsized(e) == elf[e.lib][e.at].size = 0

(* No frame is given the name of a function of another library, although   *)
(* the missing sizes are filled in when several libraries are in the table.*)
(* That needs every function without a size to be below another one of the *)
(* same library in the table: neither the last function of a library, nor  *)
(* one with the same address, nor one below the part that was skipped.     *)
NamesAreLocal ==
    (\A i \in DOMAIN syms : Unsized(syms[i]) =>
        \E j \in DOMAIN syms : syms[j].lib = syms[i].lib /\ syms[j].value > syms[i].value)
        => \A n \in DOMAIN names :
             names[n].lib # NoLib => names[n].lib = LibAt[names[n].pc]

(* "all shared libraries are still loaded, so we will be able to resolve   *)
(* symbols" (mprofile/init.c:192-193, backtrace.test/libmain.c:8-9): a     *)
(* frame inside a function of a symbol table is printed with a name.  The  *)
(* functions at the start of a second library are not read.                *)
FunctionsAreNamed ==
    \A n \in DOMAIN names : names[n].lib = NoLib =>
        \A i \in DOMAIN shlibs : \A e \in Functions(shlibs[i]) : ~Covers(e, names[n].pc)
=============================================================================
