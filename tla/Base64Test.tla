------------------------------ MODULE Base64Test ------------------------------
(***************************************************************************)
(* The test programs of base64.so: test.explicit loads it with dlopen(),   *)
(* test.implicit and test.static have its code linked in.  They read       *)
(* options, arm the exit handlers the options name, encode and decode a    *)
(* message, and end; OPENSSL_cleanup() runs the handlers, when             *)
(* test.explicit has closed the library already.                           *)
(*                                                                         *)
(* OpenSSL and libc are external, and differ in what calls                 *)
(* OPENSSL_cleanup() and in what they keep in memory at dlclose().         *)
(* base64.so needs a libcrypto beside it, base64-static.so contains it.    *)
(*                                                                         *)
(* A word of an option matches a name in a table if it is a part of it     *)
(* (strcasestr()), so a word is the set of the names it is a part of; the  *)
(* empty word is part of all of them.                                      *)
(***************************************************************************)
EXTENDS Integers, FiniteSets, SequencesExt

CONSTANTS
    Flags,     \* arguments of -f: lists of words, separated by `|'
    Exits,     \* arguments of -a: lists of words, separated by `,'
    Absent     \* the option is not there

FlagTable == <<"now", "lazy", "global", "local">>
ExitTable == <<"mainAtExit", "base64AtExit">>
FlagNames == ToSet(FlagTable)
ExitNames == ToSet(ExitTable)

\* The command lines of the tests (Makefile.in, ReadMe.md).
FlagsOfTests == {<<{b}, {s}>> : b \in {"now", "lazy"}, s \in {"global", "local"}}
ExitsOfTests == {<<{h}>> : h \in ExitNames}

ASSUME OptionAssumption ==
    /\ Flags \subseteq Seq(SUBSET FlagNames) \ {<<>>}
    /\ Exits \subseteq Seq(SUBSET ExitNames) \ {<<>>}
    /\ Absent \notin Flags \cup Exits \cup FlagsOfTests \cup ExitsOfTests

VARIABLES
    prog,          \* "explicit"; "implicit" is test.implicit and test.static
    cleanup,       \* what calls OPENSSL_cleanup(), see Cleanups
    keeps,         \* what OpenSSL keeps in memory at dlclose(), see Keepings
    cmd,           \* the command line
    pc,
    flag,          \* parseFlags(): the word it looks at
    mode,          \* rv of parseFlags(); RTLD_LOCAL is no bit
    atExitFuncs,   \* handlers to arm
    mapped,        \* the code that is in memory
    inited,        \* OPENSSL_init_crypto() has initialized OpenSSL
    armed,         \* handlers passed to OPENSSL_atexit()
    ran,           \* those called
    cleaned,       \* OPENSSL_cleanup() was called
    len,           \* result of base64Encode(), as a part of the message
    out,           \* what was printed
    failed         \* history: a call of a library failed

environment == <<prog, cleanup, keeps, cmd>>
options == <<flag, mode>>
handlers == <<inited, armed, ran, cleaned>>
text == <<len, out>>
vars == <<environment, pc, options, atExitFuncs, mapped, handlers, text, failed>>

\* Argument of -l: base64.so, base64-static.so.
Libs == {"none", "shared", "static"}

Commands == [known : BOOLEAN, lib : Libs, f : Flags \cup {Absent}, a : Exits \cup {Absent}]

\* The destructor of libcrypto (openssl-3.4); in openssl-3.3 and earlier an
\* exit handler that OPENSSL_init_crypto() sets, which libc runs when the
\* library it is in is closed ("dlclose"), or only at the end of the process.
Cleanups == {"destructor", "dlclose", "exit"}

\* Nothing; libcrypto, if it is a library that is linked not to be unloaded
\* (OPENSSL_USE_NODELETE); or what calls OpenSSL, libcrypto from
\* OPENSSL_init_crypto() on and the library of a handler from
\* OPENSSL_atexit() on.
Keepings == {"nothing", "crypto", "callers"}

Code == {"base64", "crypto"}

\* Variant: a local variable in test.explicit, too.
AtExitFuncsUnset(p) == SUBSET ExitNames

\* Static in explicit.c; in implicit.c a local variable that is not set.
AtExitFuncs(p) == IF p = "explicit" THEN {{}} ELSE SUBSET ExitNames

Init ==
    /\ prog \in {"explicit", "implicit"}
    /\ cleanup \in Cleanups /\ keeps \in Keepings
    /\ cmd \in Commands
    /\ pc = "options"
    /\ flag = 1 /\ mode = {}
    /\ atExitFuncs \in AtExitFuncs(prog)
    /\ mapped = IF prog = "implicit" THEN Code ELSE {}
    /\ inited = FALSE /\ armed = <<>> /\ ran = <<>> /\ cleaned = FALSE
    /\ len = "none" /\ out = "none"
    /\ failed = FALSE

-----------------------------------------------------------------------------
(* Options.                                                                *)

Unknown == "none"

\* The first entry of the table the word is a part of.
WordToFlag(table, word) ==
    LET i == SelectInSeq(table, LAMBDA name : name \in word)
    IN  IF i = 0 THEN Unknown ELSE table[i]

Goto(l) == pc' = l

\* main() of explicit.c; err(), errx() and usage() call exit(1).
GetOpt ==
    /\ pc = "options" /\ prog = "explicit"
    /\ IF cmd.known /\ cmd.lib # "none" /\ cmd.f # Absent THEN Goto("flags") ELSE Goto("exit")
    /\ UNCHANGED <<environment, options, atExitFuncs, mapped, handlers, text, failed>>

\* main() of implicit.c
ImplicitGetOpt ==
    /\ pc = "options" /\ prog = "implicit"
    /\ IF cmd.known /\ cmd.lib = "none" /\ cmd.f = Absent THEN Goto("atexit") ELSE Goto("exit")
    /\ UNCHANGED <<environment, options, atExitFuncs, mapped, handlers, text, failed>>

Bits(name) == {name} \ {"local"}

NameToFlag(i) == WordToFlag(FlagTable, cmd.f[i])

\* Variant: the next search starts at the same word.
ParseFlagStays ==
    /\ pc = "flags" /\ flag < Len(cmd.f)
    /\ IF NameToFlag(flag) = Unknown THEN Goto("exit") /\ UNCHANGED mode
       ELSE mode' = mode \cup Bits(NameToFlag(flag)) /\ UNCHANGED pc
    /\ UNCHANGED <<environment, flag, atExitFuncs, mapped, handlers, text, failed>>

\* A word that is followed by a separator.
ParseFlag ==
    /\ pc = "flags" /\ flag < Len(cmd.f)
    /\ flag' = flag + 1
    /\ IF NameToFlag(flag) = Unknown THEN Goto("exit") /\ UNCHANGED mode
       ELSE mode' = mode \cup Bits(NameToFlag(flag)) /\ UNCHANGED pc
    /\ UNCHANGED <<environment, atExitFuncs, mapped, handlers, text, failed>>

Binding == {"now", "lazy"}

\* The last word is not empty unless there is a flag other than local.
LastFlagIsThere == mode # {} \/ cmd.f[flag] # FlagNames

\* Variant: the -1 of an unknown word is not looked at.
LastFlagUnchecked == TRUE

LastFlagIsKnown == NameToFlag(flag) # Unknown

\* Variant: now and lazy together are let through.
ParseLastFlagUnchecked ==
    /\ pc = "flags" /\ flag = Len(cmd.f)
    /\ IF LastFlagIsThere /\ LastFlagIsKnown
       THEN Goto("dlopen") /\ mode' = mode \cup Bits(NameToFlag(flag))
       ELSE Goto("exit") /\ UNCHANGED mode
    /\ UNCHANGED <<environment, flag, atExitFuncs, mapped, handlers, text, failed>>

ParseLastFlag ==
    /\ pc = "flags" /\ flag = Len(cmd.f)
    /\ IF LastFlagIsThere /\ LastFlagIsKnown
       THEN /\ mode' = mode \cup Bits(NameToFlag(flag))
            /\ Goto(IF Binding \subseteq mode' THEN "exit" ELSE "dlopen")
       ELSE Goto("exit") /\ UNCHANGED mode
    /\ UNCHANGED <<environment, flag, atExitFuncs, mapped, handlers, text, failed>>

\* Both calls of nameToExitFunc() pass the whole argument, and one with a
\* separator is part of no name.
NameToExitFunc(l) == WordToFlag(ExitTable, IF Len(l) = 1 THEN l[1] ELSE {})

\* For a list the name in the message is a pointer that was not set.
ParseExitHandler ==
    /\ pc = "atexit"
    /\ IF cmd.a = Absent THEN Goto("dlsym") /\ UNCHANGED atExitFuncs
       ELSE IF NameToExitFunc(cmd.a) # Unknown
       THEN Goto("dlsym") /\ atExitFuncs' = {NameToExitFunc(cmd.a)}
       ELSE /\ pc' \in IF Len(cmd.a) > 1 THEN {"exit", "crashed"} ELSE {"exit"}
            /\ UNCHANGED atExitFuncs
    /\ UNCHANGED <<environment, options, mapped, handlers, text, failed>>

-----------------------------------------------------------------------------
(* The library.                                                            *)

\* dlopen() refuses a mode without now and lazy.
DlOpen ==
    /\ pc = "dlopen"
    /\ \/ Binding \cap mode # {} /\ mapped' = Code /\ Goto("atexit") /\ UNCHANGED failed
       \/ Goto("exit") /\ failed' = TRUE /\ UNCHANGED mapped
    /\ UNCHANGED <<environment, options, atExitFuncs, handlers, text>>

\* Variant: the library is closed before its functions are called.
DlSymCloses ==
    /\ pc = "dlsym"
    /\ \/ Goto("arm") /\ UNCHANGED failed
       \/ prog = "explicit" /\ Goto("exit") /\ failed' = TRUE
    /\ mapped' = IF prog = "explicit" THEN {} ELSE mapped
    /\ UNCHANGED <<environment, options, atExitFuncs, handlers, text>>

\* The three functions are looked for; test.implicit has them already.
DlSym ==
    /\ pc = "dlsym"
    /\ \/ Goto("arm") /\ UNCHANGED failed
       \/ prog = "explicit" /\ Goto("exit") /\ failed' = TRUE
    /\ UNCHANGED <<environment, options, atExitFuncs, mapped, handlers, text>>

\* Place of the next handler in the table, 0 if none is left.
NextToArm == SelectInSeq(ExitTable, LAMBDA h : h \in atExitFuncs)

\* base64ArmAtExit() for mainAtExit, then for base64AtExit.  The results of
\* OPENSSL_init_crypto() and OPENSSL_atexit() are not looked at.
RunTestArm ==
    /\ pc = "arm"
    /\ IF NextToArm = 0 THEN Goto("encode") /\ UNCHANGED <<atExitFuncs, inited, armed, failed>>
       ELSE /\ atExitFuncs' = atExitFuncs \ {ExitTable[NextToArm]}
            /\ inited' = TRUE \/ UNCHANGED inited
            /\ armed' = Append(armed, ExitTable[NextToArm]) \/ UNCHANGED armed
            /\ failed' = (failed \/ ~inited' \/ armed' = armed)
            /\ UNCHANGED pc
    /\ UNCHANGED <<environment, options, mapped, ran, cleaned, text>>

\* Variant: what was written is not flushed to the memory BIO.
Base64EncodeUnflushed ==
    /\ pc = "encode"
    /\ len' = "part" /\ Goto("decode") /\ UNCHANGED failed
    /\ UNCHANGED <<environment, options, atExitFuncs, mapped, handlers, out>>

\* A short write returns before the flush with its length, which is not -1.
Base64Encode ==
    /\ pc = "encode"
    /\ \/ len' = "all" /\ UNCHANGED failed
       \/ len' \in {"part", "error"} /\ failed' = TRUE
    /\ Goto("decode")
    /\ UNCHANGED <<environment, options, atExitFuncs, mapped, handlers, out>>

\* Only after a whole encoding there is something to decode.
Base64Decode ==
    /\ pc = "decode"
    /\ \/ len = "all" /\ out' = "message" /\ UNCHANGED failed
       \/ out' = "empty" /\ failed' = (failed \/ len = "all")
    /\ IF prog = "explicit" THEN Goto("dlclose") ELSE Goto("exit")
    /\ UNCHANGED <<environment, options, atExitFuncs, mapped, handlers, len>>

-----------------------------------------------------------------------------
(* The end.                                                                *)

\* The code that is in memory after dlclose(); base64.so, if it is kept, is
\* kept with the libcrypto it needs.
Stays ==
    LET pinned == keeps = "callers" /\ "base64AtExit" \in ToSet(armed)
    IN  CASE pinned \/ (cmd.lib = "static" /\ keeps = "callers" /\ inited) -> Code
          [] cmd.lib = "shared" /\ ~pinned
                /\ (keeps = "crypto" \/ (keeps = "callers" /\ inited)) -> {"crypto"}
          [] OTHER -> {}

\* Closing libcrypto has OPENSSL_cleanup() called.
CleanupAtClose == cleanup = "destructor" \/ (cleanup = "dlclose" /\ inited)

\* The code goes when destructors and exit handlers of libcrypto have run.
DlClose ==
    /\ pc = "dlclose"
    /\ IF "crypto" \notin Stays /\ CleanupAtClose THEN Goto("unload") /\ UNCHANGED mapped
       ELSE Goto("exit") /\ mapped' = Stays
    /\ UNCHANGED <<environment, options, atExitFuncs, handlers, text, failed>>

\* Handlers still to be run.
Left == Len(armed) - Len(ran)

\* The end of the process has OPENSSL_cleanup() called: the destructor of a
\* libcrypto that is there, or an exit handler that was set and has not run.
CleanupAtExit ==
    ~cleaned /\ IF cleanup = "destructor" THEN "crypto" \in mapped ELSE inited

CleanupRuns == pc = "unload" \/ (pc = "exit" /\ CleanupAtExit /\ "crypto" \in mapped)

\* mainAtExit() is in the program.
CodeOf(handler) == IF handler = "base64AtExit" THEN "base64" \in mapped ELSE TRUE

\* OPENSSL_cleanup() runs the handlers, the last one armed first.
RunHandler ==
    /\ CleanupRuns /\ Left > 0
    /\ IF CodeOf(armed[Left]) THEN ran' = Append(ran, armed[Left]) /\ UNCHANGED pc
       ELSE Goto("crashed") /\ UNCHANGED ran
    /\ UNCHANGED <<environment, options, atExitFuncs, mapped, inited, armed, cleaned, text, failed>>

Unloaded ==
    /\ pc = "unload" /\ Left = 0
    /\ Goto("exit")
    /\ cleaned' = TRUE /\ mapped' = {}
    /\ UNCHANGED <<environment, options, atExitFuncs, inited, armed, ran, text, failed>>

\* The process ends; the exit handler may be that of a library that is gone.
ProcessExit ==
    /\ pc = "exit" /\ (CleanupRuns => Left = 0)
    /\ Goto(IF CleanupAtExit /\ ~CleanupRuns THEN "crashed" ELSE "gone")
    /\ cleaned' = (cleaned \/ CleanupRuns)
    /\ UNCHANGED <<environment, options, atExitFuncs, mapped, inited, armed, ran, text, failed>>

Terminated == pc \in {"gone", "crashed"} /\ UNCHANGED vars

Next ==
    \/ GetOpt \/ ImplicitGetOpt \/ ParseFlag \/ ParseLastFlag \/ ParseExitHandler
    \/ DlOpen \/ DlSym \/ RunTestArm \/ Base64Encode \/ Base64Decode
    \/ DlClose \/ RunHandler \/ Unloaded \/ ProcessExit
    \/ Terminated

\* One thread, which runs.
Spec == Init /\ [][Next]_vars /\ WF_vars(Next)
-----------------------------------------------------------------------------
(* Properties.                                                             *)

(* Types of the variables.                                                 *)
TypeOK ==
    /\ prog \in {"explicit", "implicit"} /\ cleanup \in Cleanups /\ keeps \in Keepings
    /\ cmd \in Commands
    /\ pc \in {"options", "flags", "dlopen", "atexit", "dlsym", "arm", "encode", "decode",
              "dlclose", "unload", "exit", "gone", "crashed"}
    /\ flag \in Nat \ {0} /\ (cmd.f # Absent => flag <= Len(cmd.f))
    /\ mode \subseteq FlagNames \ {"local"}
    /\ atExitFuncs \subseteq ExitNames
    /\ armed \in Seq(ExitNames) /\ ran \in Seq(ExitNames) /\ Left \in Nat
    /\ mapped \subseteq Code /\ inited \in BOOLEAN /\ cleaned \in BOOLEAN /\ failed \in BOOLEAN
    /\ len \in {"none", "all", "part", "error"} /\ out \in {"none", "empty", "message"}

\* Code is gone that is called at the end, if OpenSSL was initialized or not
\* and handlers hs are armed: OPENSSL_cleanup() itself, or base64AtExit().
CodeIsGone(init, hs) ==
    /\ prog = "explicit"
    /\ \/ /\ cleanup = "exit" /\ init
          /\ keeps = "nothing" \/ (keeps = "crypto" /\ cmd.lib = "static")
       \/ /\ "base64AtExit" \in hs /\ keeps = "crypto" /\ cmd.lib = "shared"
          /\ cleanup = "destructor" \/ init

(* A command line of the targets of Makefile.in, of all three programs and *)
(* both libraries.                                                         *)
IsTest ==
    /\ cmd.known
    /\ IF prog = "explicit" THEN cmd.lib # "none" /\ cmd.f \in FlagsOfTests
       ELSE cmd.lib = "none" /\ cmd.f = Absent
    /\ cmd.a \in ExitsOfTests \cup {Absent}

Named == IF cmd.a = Absent THEN {} ELSE cmd.a[1]

(* The targets of Makefile.in, with openssl-3.3 and with openssl-3.4 (the  *)
(* notes at Makefile:55-72): the program gets to its end with the message  *)
(* decoded; with -a the handler that is named, and no other, ran once;     *)
(* OPENSSL_cleanup() was called with -a, or by the destructor, and         *)
(* test.explicit has it called for no other reason.  The program crashes   *)
(* only if the libraries leave no code for what -a has them call.          *)
TestTargetsPass ==
    IsTest /\ ~failed =>
        /\ pc = "crashed" => CodeIsGone(cmd.a # Absent, Named)
        /\ pc = "gone" =>
              /\ out = "message"
              /\ cmd.a # Absent \/ cleanup = "destructor" => cleaned
              /\ cmd.a # Absent => ran = SetToSeq(Named)
              /\ prog = "explicit" /\ cmd.a = Absent =>
                    ran = <<>> /\ (cleaned => cleanup = "destructor")

(* After dlclose() no handler is called whose code is gone, nor            *)
(* OPENSSL_cleanup() itself, but in two cases, in which the program always *)
(* crashes (what the tests are there to find): an exit handler of the      *)
(* process in a libcrypto that is gone, and a base64AtExit() of a          *)
(* base64.so that is gone while libcrypto stays.  Apart from that the      *)
(* program is only ended by the message about a list of handlers, for      *)
(* which a pointer is used that was not set.                               *)
HandlersFindTheirCode ==
    /\ pc = "crashed" =>
          IF out = "none" THEN cmd.a # Absent /\ Len(cmd.a) > 1
          ELSE CodeIsGone(inited, ToSet(armed))
    /\ pc = "gone" /\ out # "none" => ~CodeIsGone(inited, ToSet(armed))

(* The program does what the options say.  What dlopen() gets has now or   *)
(* lazy but not both, and every flag that is written out, whatever words   *)
(* are around it.  "If -a option is omitted then no atexit handler is set" *)
(* (ReadMe.md:11) is true of test.explicit, and with -a both programs arm  *)
(* one handler at most, one that the argument is a part of: a list never   *)
(* arms two.                                                               *)
OptionsDecide ==
    /\ prog = "explicit" /\ mapped # {} =>
          /\ Cardinality(mode \cap Binding) = 1
          /\ \A i \in DOMAIN cmd.f : \A name \in FlagNames :
                cmd.f[i] = {name} => Bits(name) \subseteq mode
    /\ prog = "explicit" \/ cmd.a # Absent =>
          /\ Len(armed) <= 1
          /\ \A i \in DOMAIN armed : cmd.a # Absent /\ armed[i] \in cmd.a[1]

(* The program comes to its end: the loops over the words of the options   *)
(* end for every argument, with empty words, too.                          *)
ProcessEnds == <>(pc \in {"gone", "crashed"})
=============================================================================
