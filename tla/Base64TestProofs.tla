--------------------------- MODULE Base64TestProofs ---------------------------
(***************************************************************************)
(* Theorems about Base64Test: the two programs, for any lists of words     *)
(* after -f and -a, and any call of a library failing.                     *)
(***************************************************************************)
EXTENDS Base64Test, FiniteSetTheorems, TLAPS

-----------------------------------------------------------------------------
(* The tables.                                                             *)

LEMMA Names ==
    /\ FlagNames = {"now", "lazy", "global", "local"}
    /\ ExitNames = {"mainAtExit", "base64AtExit"}
    /\ Unknown \notin FlagNames /\ Unknown \notin ExitNames
  BY DEF FlagNames, ExitNames, FlagTable, ExitTable, ToSet, Unknown

\* The search in a table returns the first name that the word is a part of.
LEMMA FlagIsFound ==
    ASSUME NEW word
    PROVE  /\ WordToFlag(FlagTable, word) \in FlagNames \cup {Unknown}
           /\ WordToFlag(FlagTable, word) # Unknown => WordToFlag(FlagTable, word) \in word
           /\ \A name \in FlagNames : name \in word => WordToFlag(FlagTable, word) # Unknown
  <1> DEFINE I == {i \in 1..Len(FlagTable) : FlagTable[i] \in word}
  <1>1. I # {} => Min(I) \in I
    BY DEF Min, FlagTable
  <1>2. QED
    BY <1>1 DEF WordToFlag, FlagTable, SelectInSeq, FlagNames, ToSet, Unknown

LEMMA HandlerIsFound ==
    ASSUME NEW word
    PROVE  /\ WordToFlag(ExitTable, word) \in ExitNames \cup {Unknown}
           /\ WordToFlag(ExitTable, word) # Unknown => WordToFlag(ExitTable, word) \in word
           /\ \A name \in ExitNames : name \in word => WordToFlag(ExitTable, word) # Unknown
  <1> DEFINE I == {i \in 1..Len(ExitTable) : ExitTable[i] \in word}
  <1>1. I # {} => Min(I) \in I
    BY DEF Min, ExitTable
  <1>2. QED
    BY <1>1 DEF WordToFlag, ExitTable, SelectInSeq, ExitNames, ToSet, Unknown

\* A word that is written out is found.
LEMMA WrittenOut ==
    /\ \A name \in FlagNames : WordToFlag(FlagTable, {name}) = name
    /\ \A name \in ExitNames : WordToFlag(ExitTable, {name}) = name
  <1>1. ASSUME NEW name \in FlagNames PROVE WordToFlag(FlagTable, {name}) = name
    BY FlagIsFound
  <1>2. ASSUME NEW name \in ExitNames PROVE WordToFlag(ExitTable, {name}) = name
    BY HandlerIsFound
  <1>3. QED
    BY <1>1, <1>2

\* The next handler to arm is one that is left.
LEMMA NextIsLeft ==
    ASSUME atExitFuncs \subseteq ExitNames
    PROVE  /\ NextToArm = 0 => atExitFuncs = {}
           /\ NextToArm # 0 => ExitTable[NextToArm] \in atExitFuncs
  <1> DEFINE I == {i \in 1..Len(ExitTable) : ExitTable[i] \in atExitFuncs}
  <1>1. I # {} => Min(I) \in I
    BY DEF Min, ExitTable
  <1>2. QED
    BY <1>1 DEF NextToArm, ExitTable, SelectInSeq, ExitNames, ToSet

LEMMA SetOfOne == ASSUME NEW h PROVE SetToSeq({h}) = <<h>>
  <1>1. Cardinality({h}) = 1
    BY FS_Singleton
  <1> DEFINE One == {f \in [1..1 -> {h}] : IsInjective(f)}
  <1>2. <<h>> \in [1..1 -> {h}]
    OBVIOUS
  <1>3. <<h>> \in One
    BY <1>2 DEF IsInjective
  <1>4. ASSUME NEW f \in [1..1 -> {h}] PROVE f = <<h>>
    <2>1. f[1] = h
      OBVIOUS
    <2>2. f = [i \in 1..1 |-> h] /\ <<h>> = [i \in 1..1 |-> h]
      BY <2>1
    <2>3. QED
      BY <2>2
  <1>5. SetToSeq({h}) = CHOOSE f \in [1..1 -> {h}] : IsInjective(f)
    BY <1>1 DEF SetToSeq
  <1>6. SetToSeq({h}) \in [1..1 -> {h}]
    BY <1>3, <1>5
  <1>7. QED
    BY <1>4, <1>6

-----------------------------------------------------------------------------
(* Types.                                                                  *)

\* What a command line is.
LEMMA CommandFacts ==
    ASSUME cmd \in Commands
    PROVE  /\ cmd.known \in BOOLEAN /\ cmd.lib \in Libs
           /\ cmd.f # Absent =>
                 /\ cmd.f \in Seq(SUBSET FlagNames) /\ Len(cmd.f) \in Nat \ {0}
                 /\ DOMAIN cmd.f = 1..Len(cmd.f)
           /\ cmd.a # Absent =>
                 /\ cmd.a \in Seq(SUBSET ExitNames) /\ Len(cmd.a) \in Nat \ {0}
                 /\ DOMAIN cmd.a = 1..Len(cmd.a)
  <1>1. /\ cmd.known \in BOOLEAN /\ cmd.lib \in Libs
        /\ cmd.f \in Flags \cup {Absent} /\ cmd.a \in Exits \cup {Absent}
    BY DEF Commands
  <1>2. cmd.f # Absent => cmd.f \in Seq(SUBSET FlagNames) /\ cmd.f # <<>>
    BY <1>1, OptionAssumption
  <1>3. cmd.a # Absent => cmd.a \in Seq(SUBSET ExitNames) /\ cmd.a # <<>>
    BY <1>1, OptionAssumption
  <1>4. QED
    BY <1>1, <1>2, <1>3

\* What dlclose() leaves in memory.
LEMMA StaysIsCode == Stays \subseteq Code /\ ("base64" \in Stays => "crypto" \in Stays)
  BY DEF Stays, Code

\* The words are read before anything else.
FlagsComeFirst == pc = "flags" => cmd.f # Absent

\* What a search for a handler returns is what the argument names.
LEMMA NamedHandler ==
    ASSUME NEW l \in Seq(SUBSET ExitNames), NameToExitFunc(l) # Unknown
    PROVE  Len(l) = 1 /\ NameToExitFunc(l) \in ExitNames /\ NameToExitFunc(l) \in l[1]
  <1>1. WordToFlag(ExitTable, {}) = Unknown
    BY HandlerIsFound
  <1>2. Len(l) = 1
    BY <1>1 DEF NameToExitFunc
  <1>3. NameToExitFunc(l) = WordToFlag(ExitTable, l[1])
    BY <1>2 DEF NameToExitFunc
  <1>4. QED
    BY <1>2, <1>3, HandlerIsFound, Names

TypeInv == TypeOK /\ FlagsComeFirst

\* One step per action.
LEMMA NextType == TypeInv /\ [Next]_vars => TypeInv'
  <1> SUFFICES ASSUME TypeInv, [Next]_vars PROVE TypeInv'
    OBVIOUS
  <1> USE DEF TypeInv, TypeOK, FlagsComeFirst, environment, options, handlers, text, Goto
  <1>0. cmd \in Commands
    OBVIOUS
  <1>1. CASE GetOpt
    BY <1>1 DEF GetOpt, Left
  <1>2. CASE ImplicitGetOpt
    BY <1>2 DEF ImplicitGetOpt, Left
  <1>3. CASE ParseFlag
    <2>1. cmd.f # Absent /\ Len(cmd.f) \in Nat
      BY <1>0, <1>3, CommandFacts DEF ParseFlag
    <2>2. flag' \in Nat \ {0} /\ flag' <= Len(cmd'.f)
      BY <1>3, <2>1 DEF ParseFlag
    <2>3. mode' \subseteq FlagNames \ {"local"}
      BY <1>3, FlagIsFound DEF ParseFlag, NameToFlag, Bits
    <2>4. Left' \in Nat /\ cmd' = cmd
      BY <1>3 DEF ParseFlag, Left
    <2>5. pc' \in {"flags", "exit"}
      BY <1>3 DEF ParseFlag
    <2>6. QED
      BY <1>3, <2>1, <2>2, <2>3, <2>4, <2>5 DEF ParseFlag
  <1>4. CASE ParseLastFlag
    <2>1. mode' \subseteq FlagNames \ {"local"}
      BY <1>4, FlagIsFound DEF ParseLastFlag, NameToFlag, Bits, LastFlagIsKnown
    <2>2. Left' \in Nat
      BY <1>4 DEF ParseLastFlag, Left
    <2>3. pc' \in {"dlopen", "exit"}
      BY <1>4 DEF ParseLastFlag
    <2>4. QED
      BY <1>4, <2>1, <2>2, <2>3 DEF ParseLastFlag
  <1>5. CASE ParseExitHandler
    <2>1. atExitFuncs' \subseteq ExitNames
      <3>1. CASE cmd.a = Absent
        BY <1>5, <3>1 DEF ParseExitHandler
      <3>2. CASE cmd.a # Absent
        <4>1. cmd.a \in Seq(SUBSET ExitNames)
          BY <1>0, <3>2, CommandFacts
        <4>2. QED
          BY <1>5, <3>2, <4>1, NamedHandler DEF ParseExitHandler
      <3>3. QED
        BY <3>1, <3>2
    <2>2. Left' \in Nat
      BY <1>5 DEF ParseExitHandler, Left
    <2>3. pc' \in {"dlsym", "exit", "crashed"}
      BY <1>5 DEF ParseExitHandler
    <2>4. QED
      BY <1>5, <2>1, <2>2, <2>3 DEF ParseExitHandler
  <1>6. CASE DlOpen
    BY <1>6 DEF DlOpen, Left, Code
  <1>7. CASE DlSym
    BY <1>7 DEF DlSym, Left
  <1>8. CASE RunTestArm
    <2>1. NextToArm # 0 => ExitTable[NextToArm] \in ExitNames
      BY NextIsLeft
    <2>2. armed' \in Seq(ExitNames) /\ Left' \in Nat
      BY <1>8, <2>1 DEF RunTestArm, Left
    <2>3. /\ pc' \in {"arm", "encode"} /\ atExitFuncs' \subseteq ExitNames
          /\ failed' \in BOOLEAN /\ inited' \in BOOLEAN
      BY <1>8 DEF RunTestArm
    <2>4. QED
      BY <1>8, <2>2, <2>3 DEF RunTestArm
  <1>9. CASE Base64Encode
    BY <1>9 DEF Base64Encode, Left
  <1>10. CASE Base64Decode
    BY <1>10 DEF Base64Decode, Left
  <1>11. CASE DlClose
    BY <1>11, StaysIsCode DEF DlClose, Left
  <1>12. CASE RunHandler
    <2>1. Left \in 1..Len(armed)
      BY <1>12 DEF RunHandler, Left
    <2>2. armed[Left] \in ExitNames
      BY <2>1
    <2>3. ran' \in Seq(ExitNames) /\ Left' \in Nat
      <3>1. armed' = armed
        BY <1>12 DEF RunHandler
      <3>2. CASE CodeOf(armed[Left])
        <4>1. ran' = Append(ran, armed[Left])
          BY <1>12, <3>2 DEF RunHandler
        <4>2. ran' \in Seq(ExitNames) /\ Len(ran') = Len(ran) + 1
          BY <2>2, <4>1
        <4>3. QED
          BY <2>1, <3>1, <4>2 DEF Left
      <3>3. CASE ~CodeOf(armed[Left])
        <4>1. ran' = ran
          BY <1>12, <3>3 DEF RunHandler
        <4>2. QED
          BY <3>1, <4>1 DEF Left
      <3>4. QED
        BY <3>2, <3>3
    <2>4. QED
      BY <1>12, <2>3 DEF RunHandler
  <1>13. CASE Unloaded
    BY <1>13 DEF Unloaded, Left
  <1>14. CASE ProcessExit
    BY <1>14 DEF ProcessExit, Left
  <1>15. CASE UNCHANGED vars
    BY <1>15 DEF vars, Left
  <1>16. QED
    BY <1>1, <1>2, <1>3, <1>4, <1>5, <1>6, <1>7, <1>8, <1>9, <1>10, <1>11, <1>12, <1>13,
       <1>14, <1>15 DEF Next, Terminated

LEMMA InitType == Init => TypeInv
  <1> SUFFICES ASSUME Init PROVE TypeInv
    OBVIOUS
  <1>1. cmd.f # Absent => Len(cmd.f) \in Nat \ {0}
    BY CommandFacts DEF Init
  <1>2. atExitFuncs \subseteq ExitNames
    BY DEF Init, AtExitFuncs
  <1>3. Left = 0 /\ armed \in Seq(ExitNames) /\ ran \in Seq(ExitNames)
    BY DEF Init, Left
  <1>4. mapped \subseteq Code
    BY DEF Init
  <1>5. flag \in Nat \ {0} /\ (cmd.f # Absent => flag <= Len(cmd.f))
    BY <1>1 DEF Init
  <1>6. QED
    BY <1>2, <1>3, <1>4, <1>5 DEF Init, TypeInv, TypeOK, FlagsComeFirst

LEMMA TypeInvHolds == Spec => []TypeInv
  BY InitType, NextType, PTL DEF Spec

(* Both programs keep to the types, whatever the arguments.                *)
THEOREM TypeCorrect == Spec => []TypeOK
  <1>1. TypeInv => TypeOK
    BY DEF TypeInv
  <1>2. QED
    BY <1>1, TypeInvHolds, PTL

-----------------------------------------------------------------------------
(* What is in memory, and what the handlers need.                          *)

Before == {"options", "flags", "dlopen", "atexit", "dlsym"}

\* What is in memory, and what has happened, at each place of the programs.
PlaceInv ==
    /\ prog = "implicit" => mapped = Code /\ pc \notin {"flags", "dlopen", "dlclose", "unload"}
    /\ prog = "explicit" /\ pc \in {"options", "flags", "dlopen"} => mapped = {}
    /\ pc \in {"atexit", "dlsym", "arm", "encode", "decode", "dlclose", "unload"} => mapped = Code
    /\ pc \in Before => armed = <<>> /\ ran = <<>> /\ ~inited
    /\ pc \in Before \cup {"arm", "encode", "decode"} => out = "none"
    /\ pc \in {"dlclose", "unload"} => out # "none"
    /\ pc \notin {"exit", "gone"} => ~cleaned
    /\ pc \in {"arm", "encode", "decode", "dlclose"} => ran = <<>>
    /\ prog = "explicit" /\ (out # "none" \/ pc \notin {"options", "exit", "gone"})
          => cmd.lib # "none"

\* An exit before the libraries are used, and the way to dlclose() and on.
\* A handler of base64.so has run only where its code is.
ExitInv ==
    /\ pc = "unload" => Stays = {} /\ CleanupAtClose
    /\ pc = "exit" /\ out = "none" => armed = <<>> /\ ran = <<>> /\ ~inited /\ ~cleaned
    /\ pc = "exit" /\ prog = "implicit" => ~cleaned
    /\ pc = "exit" /\ cleaned => Left = 0 /\ Stays = {} /\ CleanupAtClose
    /\ pc = "exit" /\ prog = "explicit" /\ out # "none" /\ ~cleaned =>
          /\ mapped = Stays
          /\ "crypto" \in Stays \/ ~CleanupAtClose
          /\ \A i \in 1..Len(armed) :
                i > Left /\ armed[i] = "base64AtExit" => "base64" \in mapped

CodeInv == PlaceInv /\ ExitInv /\ HandlersFindTheirCode

\* A base64AtExit() is left without code only by a libcrypto linked not to be
\* unloaded, and libcrypto only goes where nothing keeps it.
LEMMA StaysFacts ==
    ASSUME prog = "explicit", cmd.lib \in Libs \ {"none"}, keeps \in Keepings,
           inited \in BOOLEAN
    PROVE  /\ "crypto" \in Stays /\ "base64" \notin Stays /\ "base64AtExit" \in ToSet(armed) =>
                 keeps = "crypto" /\ cmd.lib = "shared"
           /\ "crypto" \notin Stays /\ inited =>
                 keeps = "nothing" \/ (keeps = "crypto" /\ cmd.lib = "static")
           /\ keeps = "crypto" /\ cmd.lib = "shared" =>
                 "crypto" \in Stays /\ "base64" \notin Stays
           /\ keeps = "nothing" \/ (keeps = "crypto" /\ cmd.lib = "static") => Stays = {}
  BY DEF Stays, Libs, Keepings, Code

LEMMA NextCode == TypeInv /\ CodeInv /\ [Next]_vars => CodeInv'
  <1> SUFFICES ASSUME TypeInv, CodeInv, [Next]_vars PROVE CodeInv'
    OBVIOUS
  <1>0. /\ mapped \subseteq Code /\ prog \in {"explicit", "implicit"} /\ Left \in Nat
        /\ armed = <<>> /\ ran = <<>> => Left = 0
        /\ cmd.lib \in Libs /\ keeps \in Keepings /\ cleanup \in Cleanups
        /\ inited \in BOOLEAN /\ cleaned \in BOOLEAN
        /\ armed \in Seq(ExitNames) /\ ran \in Seq(ExitNames)
    BY CommandFacts DEF TypeInv, TypeOK, Left
  <1>17. PlaceInv /\ ExitInv /\ HandlersFindTheirCode
    BY DEF CodeInv
  <1> USE DEF CodeInv, environment, options, handlers, text, Goto
  <1>18. CASE /\ UNCHANGED <<prog, armed, ran, inited, cleaned, cmd>>
              /\ pc \in Before /\ pc' \in Before \cup {"arm", "exit"} /\ out' = "none"
              /\ PlaceInv'
    <2>1. armed' = <<>> /\ ran' = <<>> /\ ~inited' /\ ~cleaned'
      BY <1>17, <1>18 DEF PlaceInv, Before
    <2>2. QED
      BY <1>18, <2>1 DEF ExitInv, HandlersFindTheirCode, Before
  <1>1. CASE GetOpt
    <2>1. PlaceInv'
      BY <1>0, <1>17, <1>1 DEF GetOpt, PlaceInv, Before
    <2>2. QED
      BY <1>1, <1>17, <1>18, <2>1 DEF GetOpt, PlaceInv, Before
  <1>2. CASE ImplicitGetOpt
    <2>1. PlaceInv'
      BY <1>0, <1>17, <1>2 DEF ImplicitGetOpt, PlaceInv, Before
    <2>2. QED
      BY <1>2, <1>17, <1>18, <2>1 DEF ImplicitGetOpt, PlaceInv, Before
  <1>3. CASE ParseFlag
    <2>1. PlaceInv'
      BY <1>0, <1>17, <1>3 DEF ParseFlag, PlaceInv, Before
    <2>2. QED
      BY <1>3, <1>17, <1>18, <2>1 DEF ParseFlag, PlaceInv, Before
  <1>4. CASE ParseLastFlag
    <2>1. PlaceInv'
      BY <1>0, <1>17, <1>4 DEF ParseLastFlag, PlaceInv, Before
    <2>2. QED
      BY <1>4, <1>17, <1>18, <2>1 DEF ParseLastFlag, PlaceInv, Before
  <1>5. CASE ParseExitHandler
    <2>1. PlaceInv'
      BY <1>0, <1>17, <1>5 DEF ParseExitHandler, PlaceInv, Before
    <2>2. CASE pc' = "crashed"
      <3>1. /\ cmd' = cmd /\ cmd.a # Absent /\ Len(cmd.a) > 1 /\ out' = "none"
        BY <1>5, <1>17, <2>2 DEF ParseExitHandler, PlaceInv, Before
      <3>2. QED
        BY <2>1, <2>2, <3>1 DEF ExitInv, HandlersFindTheirCode
    <2>3. CASE pc' # "crashed"
      BY <1>5, <1>17, <1>18, <2>1, <2>3 DEF ParseExitHandler, PlaceInv, Before
    <2>4. QED
      BY <2>2, <2>3
  <1>6. CASE DlOpen
    <2>1. PlaceInv'
      BY <1>0, <1>17, <1>6 DEF DlOpen, PlaceInv, Before
    <2>2. QED
      BY <1>6, <1>17, <1>18, <2>1 DEF DlOpen, PlaceInv, Before
  <1>7. CASE DlSym
    <2>1. PlaceInv'
      BY <1>0, <1>17, <1>7 DEF DlSym, PlaceInv, Before
    <2>2. QED
      BY <1>7, <1>17, <1>18, <2>1 DEF DlSym, PlaceInv, Before
  <1>8. CASE RunTestArm
    <2>1. PlaceInv'
      BY <1>0, <1>17, <1>8 DEF RunTestArm, PlaceInv, Before
    <2>2. pc' \in {"arm", "encode"}
      BY <1>8 DEF RunTestArm
    <2>3. QED
      BY <2>1, <2>2 DEF ExitInv, HandlersFindTheirCode
  <1>9. CASE Base64Encode
    <2>1. PlaceInv'
      BY <1>0, <1>17, <1>9 DEF Base64Encode, PlaceInv, Before
    <2>2. QED
      BY <1>9, <2>1 DEF Base64Encode, ExitInv, HandlersFindTheirCode
  <1>10. CASE Base64Decode
    <2>1. PlaceInv'
      BY <1>0, <1>17, <1>10 DEF Base64Decode, PlaceInv, Before
    <2>2. /\ pc' = "dlclose" \/ (pc' = "exit" /\ prog' = "implicit")
          /\ out' # "none" /\ ~cleaned'
      BY <1>0, <1>10, <1>17 DEF Base64Decode, PlaceInv
    <2>3. QED
      BY <2>1, <2>2 DEF ExitInv, HandlersFindTheirCode
  <1>11. CASE DlClose
    <2>1. /\ pc = "dlclose" /\ prog = "explicit" /\ out # "none" /\ ran = <<>> /\ ~cleaned
          /\ mapped = Code /\ cmd.lib # "none"
      BY <1>0, <1>11, <1>17 DEF DlClose, PlaceInv
    <2>2. UNCHANGED <<prog, cleanup, keeps, cmd, armed, ran, inited, cleaned, out>>
      BY <1>11 DEF DlClose
    <2>3. Stays' = Stays /\ CleanupAtClose' = CleanupAtClose /\ Left' = Left
      BY <2>2 DEF Stays, CleanupAtClose, Left
    <2>4. CASE "crypto" \notin Stays /\ CleanupAtClose
      <3>1. pc' = "unload" /\ mapped' = mapped
        BY <1>11, <2>4 DEF DlClose
      <3>2. Stays = {}
        BY <2>4, StaysIsCode DEF Code
      <3>3. PlaceInv' /\ ExitInv' /\ HandlersFindTheirCode'
        BY <2>1, <2>2, <2>3, <2>4, <3>1, <3>2
           DEF PlaceInv, ExitInv, HandlersFindTheirCode, Before
      <3>4. QED
        BY <3>3
    <2>5. CASE ~("crypto" \notin Stays /\ CleanupAtClose)
      <3>1. pc' = "exit" /\ mapped' = Stays
        BY <1>11, <2>5 DEF DlClose
      <3>2. \A i \in 1..Len(armed) : ~(i > Left)
        BY <1>0, <2>1 DEF Left
      <3>3. PlaceInv' /\ ExitInv' /\ HandlersFindTheirCode'
        BY <2>1, <2>2, <2>3, <2>5, <3>1, <3>2
           DEF PlaceInv, ExitInv, HandlersFindTheirCode, Before
      <3>4. QED
        BY <3>3
    <2>6. QED
      BY <2>4, <2>5
  <1>12. CASE RunHandler
    <2>1. /\ CleanupRuns /\ Left > 0 /\ pc \in {"unload", "exit"}
          /\ UNCHANGED <<prog, cleanup, keeps, cmd, mapped, inited, armed, cleaned, out>>
      BY <1>12 DEF RunHandler, CleanupRuns
    <2>2. Left \in 1..Len(armed) /\ armed[Left] \in ExitNames
      <3>1. Left \in 1..Len(armed)
        BY <1>0, <2>1 DEF Left
      <3>2. QED
        BY <1>0, <3>1
    <2>3. Stays' = Stays /\ CleanupAtClose' = CleanupAtClose
      BY <2>1 DEF Stays, CleanupAtClose
    <2>4. pc = "exit" => out # "none" /\ ~cleaned
      BY <1>0, <1>17, <2>1 DEF ExitInv
    <2>5. CASE CodeOf(armed[Left])
      <3>1. ran' = Append(ran, armed[Left]) /\ pc' = pc
        BY <1>12, <2>5 DEF RunHandler
      <3>2. Left' = Left - 1
        BY <1>0, <2>1, <2>2, <3>1 DEF Left
      <3>3. ASSUME NEW i \in 1..Len(armed), pc = "exit", prog = "explicit", i > Left',
                   armed[i] = "base64AtExit"
            PROVE  "base64" \in mapped
        <4>1. CASE i = Left
          BY <2>5, <3>3, <4>1 DEF CodeOf
        <4>2. CASE i # Left
          <5>1. i > Left
            BY <1>0, <2>2, <3>2, <3>3, <4>2
          <5>2. QED
            BY <1>17, <2>4, <3>3, <5>1 DEF ExitInv
        <4>3. QED
          BY <4>1, <4>2
      <3>4. PlaceInv'
        BY <1>17, <2>1, <3>1 DEF PlaceInv, Before
      <3>5. ExitInv'
        BY <1>17, <2>1, <2>3, <2>4, <3>1, <3>3 DEF ExitInv
      <3>6. HandlersFindTheirCode'
        BY <2>1, <3>1 DEF HandlersFindTheirCode
      <3>7. QED
        BY <3>4, <3>5, <3>6
    <2>6. CASE ~CodeOf(armed[Left])
      <3>1. pc' = "crashed" /\ ran' = ran
        BY <1>12, <2>6 DEF RunHandler
      <3>2. "base64" \notin mapped /\ armed[Left] = "base64AtExit"
        BY <2>6 DEF CodeOf
      <3>3. pc = "exit" /\ prog = "explicit" /\ out # "none" /\ ~cleaned /\ cmd.lib # "none"
        BY <1>0, <1>17, <2>1, <2>4, <3>2 DEF PlaceInv, Code
      <3>4. "crypto" \in Stays /\ "base64" \notin Stays
        BY <1>17, <2>1, <3>2, <3>3 DEF ExitInv, CleanupRuns
      <3>5. "base64AtExit" \in ToSet(armed)
        BY <1>0, <2>2, <3>2 DEF ToSet
      <3>6. keeps = "crypto" /\ cmd.lib = "shared"
        BY <1>0, <3>3, <3>4, <3>5, StaysFacts
      <3>7. cleanup = "destructor" \/ inited
        BY <2>1, <3>3 DEF CleanupRuns, CleanupAtExit
      <3>8. CodeIsGone(inited, ToSet(armed))'
        BY <2>1, <3>3, <3>5, <3>6, <3>7 DEF CodeIsGone
      <3>9. PlaceInv'
        BY <1>17, <2>1, <3>1, <3>3 DEF PlaceInv, Before
      <3>10. HandlersFindTheirCode'
        BY <2>1, <3>1, <3>3, <3>8 DEF HandlersFindTheirCode
      <3>11. QED
        BY <3>1, <3>9, <3>10 DEF ExitInv
    <2>7. QED
      BY <2>5, <2>6
  <1>13. CASE Unloaded
    <2>1. /\ pc = "unload" /\ Left = 0 /\ prog = "explicit" /\ out # "none" /\ cmd.lib # "none"
          /\ Stays = {} /\ CleanupAtClose
      BY <1>0, <1>13, <1>17 DEF Unloaded, PlaceInv, ExitInv
    <2>2. /\ pc' = "exit" /\ cleaned' /\ mapped' = {}
          /\ UNCHANGED <<prog, cleanup, keeps, cmd, armed, ran, inited, out>>
      BY <1>13 DEF Unloaded
    <2>3. Stays' = Stays /\ CleanupAtClose' = CleanupAtClose /\ Left' = Left
      BY <2>2 DEF Stays, CleanupAtClose, Left
    <2>4. PlaceInv'
      BY <2>1, <2>2 DEF PlaceInv, Before
    <2>5. ExitInv' /\ HandlersFindTheirCode'
      BY <2>1, <2>2, <2>3 DEF ExitInv, HandlersFindTheirCode
    <2>6. QED
      BY <2>4, <2>5
  <1>14. CASE ProcessExit
    <2>1. /\ pc = "exit" /\ (CleanupRuns => Left = 0)
          /\ UNCHANGED <<prog, cleanup, keeps, cmd, mapped, armed, ran, inited, out>>
      BY <1>14 DEF ProcessExit
    <2>2. PlaceInv'
      <3>1. pc' = "crashed" => inited /\ ~cleaned'
        BY <1>14, <2>1 DEF ProcessExit, CleanupAtExit, CleanupRuns
      <3>2. pc' = "crashed" => out # "none"
        BY <1>17, <2>1, <3>1 DEF ExitInv
      <3>3. QED
        BY <1>14, <1>17, <2>1, <3>1, <3>2 DEF ProcessExit, PlaceInv, Before
    <2>3. pc' \in {"gone", "crashed"}
      BY <1>14 DEF ProcessExit
    <2>4. CASE prog = "implicit"
      <3>1. pc' = "gone"
        BY <1>14, <1>17, <2>1, <2>4 DEF ProcessExit, PlaceInv, CleanupRuns, Code
      <3>2. QED
        BY <2>1, <2>2, <2>4, <3>1 DEF ExitInv, HandlersFindTheirCode, CodeIsGone
    <2>5. CASE prog = "explicit" /\ out = "none"
      <3>1. ~inited /\ ~cleaned
        BY <1>17, <2>1, <2>5 DEF ExitInv
      <3>2. pc' = "gone"
        BY <1>14, <2>1, <3>1 DEF ProcessExit, CleanupRuns, CleanupAtExit
      <3>3. QED
        BY <2>1, <2>2, <2>5, <3>2 DEF ExitInv, HandlersFindTheirCode
    <2>6. CASE prog = "explicit" /\ out # "none"
      <3>1. cmd.lib # "none"
        BY <1>17, <2>6 DEF PlaceInv
      <3>2. CASE cleaned
        <4>1. Stays = {} /\ CleanupAtClose /\ pc' = "gone"
          BY <1>14, <1>17, <2>1, <3>2 DEF ExitInv, ProcessExit, CleanupAtExit
        <4>2. ~CodeIsGone(inited, ToSet(armed))
          BY <1>0, <2>6, <3>1, <4>1, StaysFacts DEF CodeIsGone, CleanupAtClose
        <4>3. QED
          BY <2>1, <2>2, <2>6, <4>1, <4>2 DEF ExitInv, HandlersFindTheirCode, CodeIsGone
      <3>3. CASE ~cleaned
        <4>1. mapped = Stays /\ ("crypto" \in Stays \/ ~CleanupAtClose)
          BY <1>17, <2>1, <2>6, <3>3 DEF ExitInv
        <4>2. CASE pc' = "crashed"
          <5>1. CleanupAtExit /\ "crypto" \notin Stays
            BY <1>14, <2>1, <4>1, <4>2 DEF ProcessExit, CleanupRuns
          <5>2. cleanup = "exit" /\ inited
            BY <1>0, <4>1, <5>1 DEF CleanupAtExit, CleanupAtClose, Cleanups
          <5>3. keeps = "nothing" \/ (keeps = "crypto" /\ cmd.lib = "static")
            BY <1>0, <2>6, <3>1, <5>1, <5>2, StaysFacts
          <5>4. CodeIsGone(inited, ToSet(armed))
            BY <2>6, <5>2, <5>3 DEF CodeIsGone
          <5>5. QED
            BY <2>1, <2>2, <2>6, <4>2, <5>4 DEF ExitInv, HandlersFindTheirCode, CodeIsGone
        <4>3. CASE pc' = "gone"
          <5>1. ~CodeIsGone(inited, ToSet(armed))
            <6> SUFFICES ASSUME CodeIsGone(inited, ToSet(armed)) PROVE FALSE
              OBVIOUS
            <6>1. cleanup = "destructor" \/ inited
              BY DEF CodeIsGone
            <6>2. "crypto" \in Stays /\ CleanupRuns
              BY <1>14, <2>1, <3>3, <4>1, <4>3, <6>1
                 DEF ProcessExit, CleanupAtExit, CleanupRuns, CleanupAtClose
            <6>3. /\ "base64AtExit" \in ToSet(armed) /\ keeps = "crypto" /\ cmd.lib = "shared"
              BY <1>0, <2>6, <3>1, <6>2, StaysFacts DEF CodeIsGone
            <6>4. PICK i \in 1..Len(armed) : armed[i] = "base64AtExit"
              BY <1>0, <6>3 DEF ToSet
            <6>5. Left = 0
              BY <2>1, <6>2
            <6>6. "base64" \in mapped
              BY <1>17, <2>1, <2>6, <3>3, <6>4, <6>5 DEF ExitInv
            <6>7. QED
              BY <1>0, <2>6, <3>1, <4>1, <6>3, <6>6, StaysFacts
          <5>2. QED
            BY <2>1, <2>2, <2>6, <4>3, <5>1 DEF ExitInv, HandlersFindTheirCode, CodeIsGone
        <4>4. QED
          BY <2>3, <4>2, <4>3
      <3>4. QED
        BY <3>2, <3>3
    <2>7. QED
      BY <1>0, <2>4, <2>5, <2>6
  <1>15. CASE UNCHANGED vars
    <2>1. PlaceInv'
      BY <1>17, <1>15 DEF vars, PlaceInv
    <2>2. ExitInv'
      BY <1>17, <1>15 DEF vars, ExitInv, Left, Stays, CleanupAtClose
    <2>3. HandlersFindTheirCode'
      BY <1>17, <1>15 DEF vars, HandlersFindTheirCode, CodeIsGone
    <2>4. QED
      BY <2>1, <2>2, <2>3
  <1>16. QED
    BY <1>1, <1>2, <1>3, <1>4, <1>5, <1>6, <1>7, <1>8, <1>9, <1>10, <1>11, <1>12, <1>13,
       <1>14, <1>15 DEF Next, Terminated

LEMMA InitCode == Init => CodeInv
  <1> SUFFICES ASSUME Init PROVE CodeInv
    OBVIOUS
  <1>1. /\ mapped = IF prog = "implicit" THEN Code ELSE {}
        /\ pc = "options" /\ armed = <<>> /\ ran = <<>> /\ ~inited /\ ~cleaned /\ out = "none"
    BY DEF Init
  <1>2. QED
    BY <1>1 DEF CodeInv, PlaceInv, ExitInv, HandlersFindTheirCode, Before

(* The programs crash for the reasons given and no other, and there they   *)
(* always do, whatever is armed: after dlclose() the code of a call is     *)
(* gone if and only if OPENSSL_cleanup() waits in a libcrypto that nothing *)
(* keeps, or base64AtExit() in a base64.so that libcrypto outlives.        *)
THEOREM HandlersAreFound == Spec => []HandlersFindTheirCode
  <1>1. CodeInv => HandlersFindTheirCode
    BY DEF CodeInv
  <1>2. QED
    BY <1>1, InitCode, TypeInvHolds, NextCode, PTL DEF Spec

-----------------------------------------------------------------------------
(* What the options decide.                                                *)

\* The words before number n have left their flags in mode.
FlagsRead(n) ==
    \A i \in 1..(n - 1) : \A name \in FlagNames :
        cmd.f[i] = {name} => Bits(name) \subseteq mode

AllFlagsRead == cmd.f # Absent /\ FlagsRead(Len(cmd.f) + 1) /\ ~(Binding \subseteq mode)

FlagInv ==
    /\ prog = "explicit" /\ pc = "flags" => FlagsRead(flag)
    /\ prog = "explicit" /\ pc = "options" => flag = 1
    /\ prog = "explicit" /\ pc = "dlopen" => AllFlagsRead
    /\ prog = "explicit" /\ mapped # {} => AllFlagsRead /\ Binding \cap mode # {}

LEMMA NextFlag == TypeInv /\ CodeInv /\ FlagInv /\ [Next]_vars => FlagInv'
  <1> SUFFICES ASSUME TypeInv, CodeInv, FlagInv, [Next]_vars PROVE FlagInv'
    OBVIOUS
  <1>0. /\ prog \in {"explicit", "implicit"} /\ cmd \in Commands
        /\ flag \in Nat \ {0} /\ (cmd.f # Absent => flag <= Len(cmd.f))
        /\ pc = "flags" => cmd.f # Absent
    BY DEF TypeInv, TypeOK, FlagsComeFirst
  <1>12. /\ prog = "explicit" /\ pc \in {"options", "flags", "dlopen"} => mapped = {}
         /\ prog = "implicit" => pc \notin {"flags", "dlopen", "dlclose", "unload"}
         /\ pc = "dlclose" => mapped = Code /\ Code # {}
    BY DEF CodeInv, PlaceInv, Code
  <1> USE DEF environment, options, handlers, text, Goto
  <1>1. CASE GetOpt
    <2>1. mapped' = {} /\ flag' = 1 /\ pc' \in {"flags", "exit"}
      BY <1>0, <1>12, <1>1 DEF GetOpt, FlagInv
    <2>2. FlagsRead(flag)'
      <3>1. 1..(flag' - 1) = {}
        BY <2>1
      <3>2. QED
        BY <3>1 DEF FlagsRead
    <2>3. QED
      BY <2>1, <2>2 DEF FlagInv
  <1>2. CASE ParseFlag
    <2>1. /\ pc = "flags" /\ prog = "explicit" /\ mapped' = {} /\ pc' \in {"flags", "exit"}
          /\ cmd' = cmd /\ prog' = prog
      BY <1>0, <1>12, <1>2 DEF ParseFlag
    <2>2. ASSUME pc' = "flags" PROVE FlagsRead(flag)'
      <3>1. flag \in 1..Len(cmd.f) /\ flag' = flag + 1 /\ flag + 1 \in Nat
        BY <1>0, <1>2, CommandFacts DEF ParseFlag
      <3>2. mode' = mode \cup Bits(NameToFlag(flag))
        BY <1>2, <2>2 DEF ParseFlag
      <3>3. FlagsRead(flag)
        BY <2>1 DEF FlagInv
      <3>4. ASSUME NEW i \in 1..((flag + 1) - 1), NEW name \in FlagNames, cmd.f[i] = {name}
            PROVE  Bits(name) \subseteq mode'
        <4>1. CASE i = flag
          <5>1. NameToFlag(flag) = name
            BY <3>4, <4>1, WrittenOut DEF NameToFlag
          <5>2. QED
            BY <3>2, <5>1
        <4>2. CASE i # flag
          <5>1. i \in 1..(flag - 1)
            BY <1>0, <4>2
          <5>2. QED
            BY <3>2, <3>3, <3>4, <5>1 DEF FlagsRead
        <4>3. QED
          BY <4>1, <4>2
      <3>5. QED
        BY <2>1, <3>1, <3>4 DEF FlagsRead
    <2>3. QED
      BY <2>1, <2>2 DEF FlagInv
  <1>3. CASE ParseLastFlag
    <2>1. /\ pc = "flags" /\ prog = "explicit" /\ mapped' = {} /\ pc' \in {"dlopen", "exit"}
          /\ cmd' = cmd /\ prog' = prog /\ flag = Len(cmd.f) /\ cmd.f # Absent
          /\ FlagsRead(flag)
      BY <1>0, <1>12, <1>3 DEF ParseLastFlag, FlagInv
    <2>2. ASSUME pc' = "dlopen" PROVE AllFlagsRead'
      <3>1. mode' = mode \cup Bits(NameToFlag(flag)) /\ ~(Binding \subseteq mode')
        BY <1>3, <2>2 DEF ParseLastFlag
      <3>2. ASSUME NEW i \in 1..((flag + 1) - 1), NEW name \in FlagNames, cmd.f[i] = {name}
            PROVE  Bits(name) \subseteq mode'
        <4>1. CASE i = flag
          <5>1. NameToFlag(flag) = name
            BY <3>2, <4>1, WrittenOut DEF NameToFlag
          <5>2. QED
            BY <3>1, <5>1
        <4>2. CASE i # flag
          <5>1. i \in 1..(flag - 1)
            BY <1>0, <4>2
          <5>2. QED
            BY <2>1, <3>1, <3>2, <5>1 DEF FlagsRead
        <4>3. QED
          BY <4>1, <4>2
      <3>3. QED
        BY <2>1, <3>1, <3>2 DEF AllFlagsRead, FlagsRead, Binding
    <2>3. QED
      BY <2>1, <2>2 DEF FlagInv
  <1>4. CASE DlOpen
    BY <1>0, <1>12, <1>4 DEF DlOpen, FlagInv, AllFlagsRead, FlagsRead
  <1>5. CASE UNCHANGED <<prog, cmd, flag, mode>> /\ pc' \notin {"options", "flags", "dlopen"}
             /\ (mapped = {} => mapped' = {})
    BY <1>5 DEF FlagInv, AllFlagsRead, FlagsRead
  <1>6. CASE ImplicitGetOpt
    BY <1>5, <1>6 DEF ImplicitGetOpt
  <1>7. CASE ParseExitHandler \/ DlSym \/ RunTestArm
    BY <1>5, <1>7 DEF ParseExitHandler, DlSym, RunTestArm
  <1>8. CASE Base64Encode \/ Base64Decode \/ DlClose
    BY <1>12, <1>5, <1>8 DEF Base64Encode, Base64Decode, DlClose
  <1>9. CASE RunHandler \/ Unloaded \/ ProcessExit
    BY <1>5, <1>9 DEF RunHandler, CleanupRuns, Unloaded, ProcessExit
  <1>10. CASE UNCHANGED vars
    BY <1>10 DEF vars, FlagInv, AllFlagsRead, FlagsRead
  <1>11. QED
    BY <1>1, <1>2, <1>3, <1>4, <1>6, <1>7, <1>8, <1>9, <1>10 DEF Next, Terminated

ArgumentCounts == prog = "explicit" \/ cmd.a # Absent

Early == {"options", "flags", "dlopen", "atexit"}

\* One handler at most is armed or to be armed, one of the argument.
ArmInv ==
    /\ pc \in Early \cup {"dlsym"} => armed = <<>>
    /\ pc \in Early /\ prog = "explicit" => atExitFuncs = {}
    /\ pc \in {"dlsym", "arm"} /\ ArgumentCounts =>
          \/ atExitFuncs = {}
          \/ armed = <<>> /\ cmd.a # Absent /\ \E h \in cmd.a[1] : atExitFuncs = {h}
    /\ ArgumentCounts =>
          \/ armed = <<>>
          \/ cmd.a # Absent /\ \E h \in cmd.a[1] : armed = <<h>>

LEMMA NextArm == TypeInv /\ ArmInv /\ [Next]_vars => ArmInv'
  <1> SUFFICES ASSUME TypeInv, ArmInv, [Next]_vars PROVE ArmInv'
    OBVIOUS
  <1>0. cmd \in Commands /\ atExitFuncs \subseteq ExitNames
    BY DEF TypeInv, TypeOK
  <1> USE DEF environment, options, handlers, text, Goto
  <1>1. CASE /\ UNCHANGED <<prog, cmd, armed, atExitFuncs>>
             /\ pc \in {"dlsym", "arm"} \/ pc' \notin {"dlsym", "arm"}
             /\ pc' \in Early \cup {"dlsym"} => pc \in Early \cup {"dlsym"}
             /\ pc' \in Early => pc \in Early
    BY <1>1 DEF ArmInv, ArgumentCounts
  <1>2. CASE ParseExitHandler
    <2>1. /\ pc = "atexit" /\ armed = <<>> /\ armed' = <<>> /\ cmd' = cmd /\ prog' = prog
          /\ pc' \in {"dlsym", "exit", "crashed"}
      BY <1>2 DEF ParseExitHandler, ArmInv, Early
    <2>2. ASSUME pc' = "dlsym", ArgumentCounts
          PROVE  \/ atExitFuncs' = {}
                 \/ cmd.a # Absent /\ \E h \in cmd.a[1] : atExitFuncs' = {h}
      <3>1. CASE cmd.a = Absent
        BY <1>2, <2>1, <2>2, <3>1 DEF ParseExitHandler, ArmInv, ArgumentCounts, Early
      <3>2. CASE cmd.a # Absent
        <4>1. cmd.a \in Seq(SUBSET ExitNames)
          BY <1>0, <3>2, CommandFacts
        <4>2. /\ NameToExitFunc(cmd.a) # Unknown
              /\ atExitFuncs' = {NameToExitFunc(cmd.a)}
          BY <1>2, <2>2, <3>2 DEF ParseExitHandler
        <4>3. NameToExitFunc(cmd.a) \in cmd.a[1]
          BY <4>1, <4>2, NamedHandler
        <4>4. QED
          BY <3>2, <4>2, <4>3
      <3>3. QED
        BY <3>1, <3>2
    <2>3. QED
      BY <2>1, <2>2 DEF ArmInv, ArgumentCounts, Early
  <1>3. CASE RunTestArm
    <2>1. /\ pc = "arm" /\ cmd' = cmd /\ prog' = prog /\ pc' \in {"arm", "encode"}
      BY <1>3 DEF RunTestArm
    <2>2. CASE NextToArm = 0
      BY <1>1, <1>3, <2>2 DEF RunTestArm, Early
    <2>3. CASE NextToArm # 0
      <3>1. /\ ExitTable[NextToArm] \in atExitFuncs
            /\ atExitFuncs' = atExitFuncs \ {ExitTable[NextToArm]}
            /\ armed' = armed \/ armed' = Append(armed, ExitTable[NextToArm])
        BY <1>0, <1>3, <2>3, NextIsLeft DEF RunTestArm
      <3>2. ASSUME ArgumentCounts
            PROVE  /\ atExitFuncs' = {}
                   /\ \/ armed' = <<>>
                      \/ cmd.a # Absent /\ \E h \in cmd.a[1] : armed' = <<h>>
        <4>1. /\ armed = <<>> /\ cmd.a # Absent
              /\ \E h \in cmd.a[1] : atExitFuncs = {h}
          BY <2>1, <3>1, <3>2 DEF ArmInv
        <4>2. QED
          BY <3>1, <4>1
      <3>3. QED
        BY <2>1, <3>2 DEF ArmInv, ArgumentCounts, Early
    <2>4. QED
      BY <2>2, <2>3
  <1>4. CASE GetOpt \/ ImplicitGetOpt
    BY <1>1, <1>4 DEF GetOpt, ImplicitGetOpt, Early
  <1>5. CASE ParseFlag \/ ParseLastFlag
    BY <1>1, <1>5 DEF ParseFlag, ParseLastFlag, Early
  <1>6. CASE DlOpen \/ DlSym
    BY <1>1, <1>6 DEF DlOpen, DlSym, Early
  <1>7. CASE Base64Encode \/ Base64Decode \/ DlClose
    BY <1>1, <1>7 DEF Base64Encode, Base64Decode, DlClose, Early
  <1>8. CASE RunHandler \/ Unloaded \/ ProcessExit
    BY <1>1, <1>8 DEF RunHandler, Unloaded, ProcessExit, Early
  <1>9. CASE UNCHANGED vars
    BY <1>9 DEF vars, ArmInv, ArgumentCounts
  <1>10. QED
    BY <1>2, <1>3, <1>4, <1>5, <1>6, <1>7, <1>8, <1>9 DEF Next, Terminated

(* The options decide, for any words: dlopen() gets exactly one of now and *)
(* lazy and every flag written out, and no more than the one handler that  *)
(* the argument names is ever armed.                                       *)
THEOREM OptionsAreObeyed == Spec => []OptionsDecide
  <1>1. Init => FlagInv /\ ArmInv
    <2> SUFFICES ASSUME Init PROVE FlagInv /\ ArmInv
      OBVIOUS
    <2>1. /\ (prog = "explicit" => mapped = {} /\ atExitFuncs = {})
          /\ pc = "options" /\ armed = <<>> /\ flag = 1
      BY DEF Init, AtExitFuncs
    <2>2. QED
      BY <2>1 DEF FlagInv, ArmInv
  <1>2. TypeInv /\ FlagInv /\ ArmInv => OptionsDecide
    <2> SUFFICES ASSUME TypeInv, FlagInv, ArmInv PROVE OptionsDecide
      OBVIOUS
    <2>1. ASSUME prog = "explicit", mapped # {}
          PROVE  /\ Cardinality(mode \cap Binding) = 1
                 /\ \A i \in DOMAIN cmd.f : \A name \in FlagNames :
                       cmd.f[i] = {name} => Bits(name) \subseteq mode
      <3>1. AllFlagsRead /\ Binding \cap mode # {}
        BY <2>1 DEF FlagInv
      <3>2. \E b : mode \cap Binding = {b}
        BY <3>1 DEF AllFlagsRead, Binding
      <3>3. Cardinality(mode \cap Binding) = 1
        BY <3>2, FS_Singleton
      <3>4. cmd \in Commands
        BY DEF TypeInv, TypeOK
      <3>5. DOMAIN cmd.f = 1..((Len(cmd.f) + 1) - 1)
        BY <3>1, <3>4, CommandFacts DEF AllFlagsRead
      <3>6. QED
        BY <3>1, <3>3, <3>5 DEF AllFlagsRead, FlagsRead
    <2>2. ASSUME prog = "explicit" \/ cmd.a # Absent
          PROVE  /\ Len(armed) <= 1
                 /\ \A i \in DOMAIN armed : cmd.a # Absent /\ armed[i] \in cmd.a[1]
      <3>1. \/ armed = <<>>
            \/ cmd.a # Absent /\ \E h \in cmd.a[1] : armed = <<h>>
        BY <2>2 DEF ArmInv, ArgumentCounts
      <3>2. CASE armed = <<>>
        BY <3>2
      <3>3. CASE cmd.a # Absent /\ \E h \in cmd.a[1] : armed = <<h>>
        <4>1. PICK h \in cmd.a[1] : armed = <<h>>
          BY <3>3
        <4>2. Len(armed) = 1 /\ DOMAIN armed = 1..1 /\ armed[1] = h
          BY <4>1
        <4>3. QED
          BY <3>3, <4>2
      <3>4. QED
        BY <3>1, <3>2, <3>3
    <2>3. QED
      BY <2>1, <2>2 DEF OptionsDecide
  <1>3. QED
    BY <1>1, <1>2, InitCode, TypeInvHolds, NextCode, NextFlag, NextArm, PTL DEF Spec

-----------------------------------------------------------------------------
(* The targets of the Makefile.                                            *)

Expected == IF cmd.a = Absent THEN <<>> ELSE SetToSeq(Named)

Undisturbed == IsTest /\ ~failed

Late == {"encode", "decode", "dlclose", "unload", "exit", "gone", "crashed"}

\* How far the words of a target that nothing disturbs are read and done.
TextProgress ==
    /\ pc = "options" => flag = 1 /\ mode = {}
    /\ pc = "flags" => (flag = 1 /\ mode = {}) \/ (flag = 2 /\ mode = cmd.f[1])
    /\ pc = "decode" => len = "all"
    /\ pc \in Late \ {"encode", "decode"} => out = "message"

\* How far its handlers are.
HandlerProgress ==
    /\ pc = "dlsym" => atExitFuncs = Named
    /\ pc = "arm" => \/ armed = <<>> /\ atExitFuncs = Named /\ ~inited
                     \/ armed = Expected /\ atExitFuncs = {} /\ (inited <=> cmd.a # Absent)
    /\ pc \in Late => armed = Expected /\ (inited <=> cmd.a # Absent)
    /\ pc \in {"unload", "exit"} => ran = <<>> \/ ran = armed

\* What the end of it leaves.
EndProgress ==
    pc = "gone" =>
        /\ cmd.a # Absent \/ cleanup = "destructor" => cleaned
        /\ cmd.a # Absent => ran = Expected
        /\ prog = "explicit" /\ cmd.a = Absent => ran = <<>> /\ (cleaned => cleanup = "destructor")

TestInv ==
    Undisturbed =>
        TextProgress /\ (ArgumentCounts => HandlerProgress) /\ EndProgress

LEMMA TestFacts ==
    ASSUME IsTest
    PROVE  /\ cmd.known
           /\ prog = "explicit" =>
                 /\ cmd.lib # "none" /\ cmd.f # Absent
                 /\ \E b \in {"now", "lazy"}, s \in {"global", "local"} : cmd.f = <<{b}, {s}>>
           /\ prog # "explicit" => cmd.lib = "none" /\ cmd.f = Absent
           /\ cmd.a # Absent => \E h \in ExitNames : cmd.a = <<{h}>>
           /\ cmd.a = Absent <=> Named = {}
           /\ ToSet(Expected) = Named
           /\ \/ Named = {} /\ Expected = <<>>
              \/ \E h \in ExitNames : Named = {h} /\ Expected = <<h>>
  <1>1. /\ \A x \in FlagsOfTests : x # Absent
        /\ \A x \in ExitsOfTests : x # Absent
    BY OptionAssumption
  <1>2. cmd.a # Absent => \E h \in ExitNames : cmd.a = <<{h}>>
    BY DEF IsTest, ExitsOfTests
  <1>3. \/ Named = {} /\ Expected = <<>>
        \/ \E h \in ExitNames : Named = {h} /\ Expected = <<h>>
    <2>1. CASE cmd.a = Absent
      BY <2>1 DEF Named, Expected
    <2>2. CASE cmd.a # Absent
      <3>1. PICK h \in ExitNames : cmd.a = <<{h}>>
        BY <1>2, <2>2
      <3>2. cmd.a[1] = {h}
        BY <3>1
      <3>3. Named = {h} /\ Expected = <<h>>
        BY <2>2, <3>2, SetOfOne DEF Named, Expected
      <3>4. QED
        BY <3>3
    <2>3. QED
      BY <2>1, <2>2
  <1>4. prog = "explicit" =>
           /\ cmd.lib # "none" /\ cmd.f # Absent
           /\ \E b \in {"now", "lazy"}, s \in {"global", "local"} : cmd.f = <<{b}, {s}>>
    BY <1>1 DEF IsTest, FlagsOfTests
  <1>5. prog # "explicit" => cmd.lib = "none" /\ cmd.f = Absent
    BY <1>1 DEF IsTest
  <1>6. cmd.a = Absent <=> Named = {}
    BY <1>2 DEF Named
  <1>7. ToSet(Expected) = Named
    BY <1>3 DEF ToSet
  <1>8. QED
    BY <1>2, <1>3, <1>4, <1>5, <1>6, <1>7 DEF IsTest

\* The handlers are armed one after the other.
LEMMA TestArms ==
    ASSUME TypeInv, IsTest, ~failed', pc = "arm", RunTestArm,
           \/ armed = <<>> /\ atExitFuncs = Named /\ ~inited
           \/ armed = Expected /\ atExitFuncs = {} /\ (inited <=> cmd.a # Absent)
    PROVE  /\ pc' \in {"arm", "encode"}
           /\ armed' = Expected /\ atExitFuncs' = {} /\ (inited' <=> cmd.a # Absent)
  <1>1. /\ atExitFuncs \subseteq ExitNames
        /\ NextToArm = 0 => atExitFuncs = {}
        /\ NextToArm # 0 => ExitTable[NextToArm] \in atExitFuncs
    BY NextIsLeft DEF TypeInv, TypeOK
  <1>2. CASE NextToArm = 0
    <2>1. atExitFuncs = {} /\ armed = Expected /\ (inited <=> cmd.a # Absent)
      BY <1>1, <1>2, TestFacts
    <2>2. QED
      BY <1>2, <2>1 DEF RunTestArm, Goto
  <1>3. CASE NextToArm # 0
    <2>1. atExitFuncs # {}
      BY <1>1, <1>3
    <2>2. armed = <<>> /\ atExitFuncs = Named
      BY <2>1
    <2>3. PICK h \in ExitNames : Named = {h} /\ Expected = <<h>>
      BY <2>1, <2>2, TestFacts
    <2>4. ExitTable[NextToArm] = h
      BY <1>1, <1>3, <2>2, <2>3
    <2>5. /\ atExitFuncs' = atExitFuncs \ {ExitTable[NextToArm]} /\ inited'
          /\ armed' = Append(armed, ExitTable[NextToArm]) /\ pc' = pc
      BY <1>3 DEF RunTestArm
    <2>6. armed' = <<h>> /\ atExitFuncs' = {} /\ cmd.a # Absent
      BY <2>2, <2>3, <2>4, <2>5, TestFacts
    <2>7. QED
      BY <2>3, <2>5, <2>6
  <1>4. QED
    BY <1>2, <1>3

LEMMA NextTest == TypeInv /\ CodeInv /\ ArmInv /\ TestInv /\ [Next]_vars => TestInv'
  <1> SUFFICES ASSUME TypeInv, CodeInv, ArmInv, TestInv, [Next]_vars, Undisturbed'
               PROVE  TextProgress' /\ (ArgumentCounts' => HandlerProgress') /\ EndProgress'
    BY DEF TestInv
  <1>1. /\ UNCHANGED <<prog, cleanup, keeps, cmd>>
        /\ failed \in BOOLEAN /\ prog \in {"explicit", "implicit"} /\ cmd \in Commands
        /\ mapped \subseteq Code /\ inited \in BOOLEAN /\ cleaned \in BOOLEAN
    BY DEF Next, Terminated, vars, environment, TypeInv, TypeOK, GetOpt, ImplicitGetOpt,
           ParseFlag, ParseLastFlag, ParseExitHandler, DlOpen, DlSym, RunTestArm, Base64Encode,
           Base64Decode, DlClose, RunHandler, Unloaded, ProcessExit
  <1>2. failed => failed'
    BY DEF Next, Terminated, vars, GetOpt, ImplicitGetOpt, ParseFlag, ParseLastFlag,
           ParseExitHandler, DlOpen, DlSym, RunTestArm, Base64Encode, Base64Decode, DlClose,
           RunHandler, Unloaded, ProcessExit
  <1>3. /\ TextProgress /\ (ArgumentCounts => HandlerProgress) /\ EndProgress
        /\ IsTest /\ ~failed'
    <2>1. IsTest' <=> IsTest
      BY <1>1 DEF IsTest
    <2>2. Undisturbed /\ ~failed'
      BY <1>1, <1>2, <2>1 DEF Undisturbed
    <2>3. QED
      BY <2>2 DEF TestInv, Undisturbed
  <1>4. Named' = Named /\ Expected' = Expected /\ ArgumentCounts' = ArgumentCounts
    BY <1>1 DEF Named, Expected, ArgumentCounts
  <1>5. /\ cmd.known
        /\ prog = "explicit" =>
              /\ cmd.lib # "none" /\ cmd.f # Absent
              /\ \E b \in {"now", "lazy"}, s \in {"global", "local"} : cmd.f = <<{b}, {s}>>
        /\ prog # "explicit" => cmd.lib = "none" /\ cmd.f = Absent
        /\ cmd.a # Absent => \E h \in ExitNames : cmd.a = <<{h}>>
        /\ cmd.a = Absent <=> Named = {}
        /\ \/ Named = {} /\ Expected = <<>>
           \/ \E h \in ExitNames : Named = {h} /\ Expected = <<h>>
    BY <1>3, TestFacts
  <1>21. PlaceInv /\ ExitInv
    BY DEF CodeInv
  <1> USE DEF environment, options, handlers, text, Goto, TextProgress, HandlerProgress,
              EndProgress, Late
  <1>6. CASE GetOpt
    <2>1. pc' = "flags" /\ pc = "options" /\ UNCHANGED <<flag, mode>>
      BY <1>5, <1>6 DEF GetOpt
    <2>2. QED
      BY <1>3, <2>1
  <1>7. CASE ImplicitGetOpt
    <2>1. pc' = "atexit"
      BY <1>5, <1>7 DEF ImplicitGetOpt
    <2>2. QED
      BY <2>1
  <1>8. CASE ParseFlag
    <2>1. prog = "explicit" /\ pc = "flags" /\ flag < Len(cmd.f)
      BY <1>1, <1>8, <1>21 DEF ParseFlag, PlaceInv
    <2>2. PICK b \in {"now", "lazy"}, s \in {"global", "local"} : cmd.f = <<{b}, {s}>>
      BY <1>5, <2>1
    <2>3. Len(cmd.f) = 2 /\ cmd.f[1] = {b}
      BY <2>2
    <2>4. flag = 1 /\ mode = {}
      BY <1>3, <2>1, <2>3
    <2>5. NameToFlag(flag) = b
      BY <2>3, <2>4, WrittenOut, Names DEF NameToFlag
    <2>6. pc' = "flags" /\ flag' = 2 /\ mode' = {b}
      BY <1>8, <2>1, <2>4, <2>5 DEF ParseFlag, Unknown, Bits
    <2>7. QED
      BY <1>1, <2>3, <2>6
  <1>9. CASE ParseLastFlag
    <2>1. prog = "explicit" /\ pc = "flags" /\ flag = Len(cmd.f)
      BY <1>1, <1>9, <1>21 DEF ParseLastFlag, PlaceInv
    <2>2. PICK b \in {"now", "lazy"}, s \in {"global", "local"} : cmd.f = <<{b}, {s}>>
      BY <1>5, <2>1
    <2>3. Len(cmd.f) = 2 /\ cmd.f[1] = {b} /\ cmd.f[2] = {s}
      BY <2>2
    <2>4. flag = 2 /\ mode = {b}
      BY <1>3, <2>1, <2>3
    <2>5. NameToFlag(flag) = s
      BY <2>3, <2>4, WrittenOut, Names DEF NameToFlag
    <2>6. LastFlagIsThere /\ LastFlagIsKnown
      BY <2>4, <2>5 DEF LastFlagIsThere, LastFlagIsKnown, Unknown
    <2>7. mode' = {b} \cup Bits(s)
      BY <1>9, <2>4, <2>5, <2>6 DEF ParseLastFlag
    <2>8. ~(Binding \subseteq mode')
      BY <2>7 DEF Binding, Bits
    <2>9. pc' = "dlopen"
      BY <1>9, <2>6, <2>8 DEF ParseLastFlag
    <2>10. QED
      BY <2>9
  <1>10. CASE ParseExitHandler
    <2>1. pc' = "dlsym" /\ (ArgumentCounts => atExitFuncs' = Named)
      <3>1. CASE cmd.a = Absent
        <4>1. pc = "atexit" /\ pc' = "dlsym" /\ atExitFuncs' = atExitFuncs
          BY <1>10, <3>1 DEF ParseExitHandler
        <4>2. ArgumentCounts => atExitFuncs = {}
          BY <3>1, <4>1 DEF ArmInv, Early, ArgumentCounts
        <4>3. QED
          BY <1>5, <3>1, <4>1, <4>2
      <3>2. CASE cmd.a # Absent
        <4>1. PICK h \in ExitNames : cmd.a = <<{h}>>
          BY <1>5, <3>2
        <4>2. Len(cmd.a) = 1 /\ cmd.a[1] = {h}
          BY <4>1
        <4>3. NameToExitFunc(cmd.a) = h /\ h # Unknown
          BY <4>2, WrittenOut, Names DEF NameToExitFunc
        <4>4. QED
          BY <1>10, <3>2, <4>2, <4>3 DEF ParseExitHandler, Named
      <3>3. QED
        BY <3>1, <3>2
    <2>2. QED
      BY <1>4, <2>1
  <1>11. CASE DlOpen
    <2>1. pc' = "atexit"
      BY <1>3, <1>11 DEF DlOpen
    <2>2. QED
      BY <2>1
  <1>12. CASE DlSym
    <2>1. /\ pc = "dlsym" /\ pc' = "arm" /\ UNCHANGED <<atExitFuncs, armed, inited>>
      BY <1>3, <1>12 DEF DlSym
    <2>2. armed = <<>> /\ ~inited /\ (ArgumentCounts => atExitFuncs = Named)
      BY <1>3, <1>21, <2>1 DEF PlaceInv, Before
    <2>3. QED
      BY <1>4, <2>1, <2>2
  <1>13. CASE RunTestArm
    <2>1. pc = "arm" /\ pc' \in {"arm", "encode"}
      BY <1>13 DEF RunTestArm
    <2>2. ASSUME ArgumentCounts
          PROVE  armed' = Expected /\ atExitFuncs' = {} /\ (inited' <=> cmd.a # Absent)
      BY <1>3, <1>13, <2>1, <2>2, TestArms
    <2>3. QED
      BY <1>1, <1>4, <2>1, <2>2
  <1>14. CASE Base64Encode
    <2>1. /\ pc = "encode" /\ pc' = "decode" /\ len' = "all" /\ UNCHANGED <<armed, inited>>
      BY <1>3, <1>14 DEF Base64Encode
    <2>2. QED
      BY <1>1, <1>3, <1>4, <2>1
  <1>15. CASE Base64Decode
    <2>1. /\ pc = "decode" /\ pc' \in {"dlclose", "exit"} /\ UNCHANGED <<armed, ran, inited>>
      BY <1>15 DEF Base64Decode
    <2>2. len = "all" /\ out' = "message" /\ ran = <<>>
      BY <1>3, <1>15, <1>21, <2>1 DEF Base64Decode, PlaceInv
    <2>3. QED
      BY <1>1, <1>3, <1>4, <2>1, <2>2
  <1>16. CASE DlClose
    <2>1. /\ pc = "dlclose" /\ pc' \in {"unload", "exit"} /\ UNCHANGED <<armed, ran, inited, out>>
      BY <1>16 DEF DlClose
    <2>2. ran = <<>>
      BY <1>21, <2>1 DEF PlaceInv
    <2>3. QED
      BY <1>1, <1>3, <1>4, <2>1, <2>2
  <1>17. CASE RunHandler
    <2>1. /\ pc \in {"unload", "exit"} /\ Left > 0 /\ pc' \in {pc, "crashed"}
          /\ ran' = Append(ran, armed[Left]) \/ pc' = "crashed"
          /\ UNCHANGED <<armed, inited, out>>
      BY <1>17 DEF RunHandler, CleanupRuns
    <2>2. ASSUME ArgumentCounts, pc' = pc PROVE ran' = armed
      <3>1. armed = Expected /\ (ran = <<>> \/ ran = armed)
        BY <1>3, <2>1, <2>2
      <3>2. PICK h \in ExitNames : armed = <<h>>
        <4>1. armed # <<>>
          BY <2>1, <3>1 DEF Left
        <4>2. QED
          BY <1>5, <3>1, <4>1
      <3>3. ran = <<>> /\ Left = 1
        BY <2>1, <3>1, <3>2 DEF Left
      <3>4. QED
        BY <2>1, <2>2, <3>2, <3>3
    <2>3. QED
      BY <1>1, <1>3, <1>4, <2>1, <2>2
  <1>18. CASE Unloaded
    <2>1. pc = "unload" /\ pc' = "exit" /\ UNCHANGED <<armed, ran, inited, out>>
      BY <1>18 DEF Unloaded
    <2>2. QED
      BY <1>1, <1>3, <1>4, <2>1
  <1>19. CASE ProcessExit
    <2>1. /\ pc = "exit" /\ (CleanupRuns => Left = 0) /\ pc' \in {"gone", "crashed"}
          /\ pc' = "gone" => (CleanupAtExit => CleanupRuns)
          /\ cleaned' = (cleaned \/ CleanupRuns)
          /\ UNCHANGED <<armed, ran, inited, out>>
      BY <1>19 DEF ProcessExit
    <2>2. out = "message"
      BY <1>3, <2>1
    <2>3. ASSUME pc' = "gone", cmd.a # Absent \/ cleanup = "destructor", ~cleaned
          PROVE  CleanupRuns
      <3>1. cmd.a # Absent => inited
        BY <1>3, <2>1 DEF ArgumentCounts
      <3>2. cleanup = "destructor" => "crypto" \in mapped
        <4>1. prog = "implicit" => mapped = Code
          BY <1>21 DEF PlaceInv
        <4>2. prog = "explicit" /\ cleanup = "destructor" => "crypto" \in mapped
          BY <1>21, <2>1, <2>2, <2>3 DEF ExitInv, CleanupAtClose
        <4>3. QED
          BY <1>1, <4>1, <4>2 DEF Code
      <3>3. QED
        BY <2>1, <2>3, <3>1, <3>2 DEF CleanupAtExit
    <2>4. ASSUME pc' = "gone", cmd.a # Absent
          PROVE  ran = Expected
      <3>1. armed = Expected /\ (ran = <<>> \/ ran = armed)
        BY <1>3, <2>1, <2>4 DEF ArgumentCounts
      <3>2. Left = 0
        BY <1>21, <2>1, <2>3, <2>4 DEF ExitInv
      <3>3. PICK h \in ExitNames : armed = <<h>>
        BY <1>5, <2>4, <3>1
      <3>4. ran # <<>>
        BY <3>2, <3>3 DEF Left
      <3>5. QED
        BY <3>1, <3>4
    <2>5. ASSUME pc' = "gone", prog = "explicit", cmd.a = Absent
          PROVE  ran = <<>> /\ (cleaned' => cleanup = "destructor")
      <3>1. armed = Expected /\ (ran = <<>> \/ ran = armed) /\ ~inited
        BY <1>3, <2>1, <2>5 DEF ArgumentCounts
      <3>2. ran = <<>>
        BY <2>5, <3>1 DEF Expected
      <3>3. cleaned => cleanup = "destructor"
        BY <1>21, <2>1, <3>1 DEF ExitInv, CleanupAtClose
      <3>4. CleanupRuns => cleanup = "destructor"
        BY <2>1, <3>1 DEF CleanupRuns, CleanupAtExit
      <3>5. QED
        BY <2>1, <3>2, <3>3, <3>4
    <2>6. TextProgress' /\ (ArgumentCounts' => HandlerProgress')
      BY <1>1, <1>3, <1>4, <2>1, <2>2
    <2>7. EndProgress'
      BY <1>1, <1>4, <2>1, <2>3, <2>4, <2>5
    <2>8. QED
      BY <2>6, <2>7
  <1>20. CASE UNCHANGED vars
    BY <1>3, <1>4, <1>20 DEF vars
  <1>22. QED
    BY <1>6, <1>7, <1>8, <1>9, <1>10, <1>11, <1>12, <1>13, <1>14, <1>15, <1>16, <1>17, <1>18,
       <1>19, <1>20 DEF Next, Terminated

(* The targets of Makefile.in pass, whatever OpenSSL and libc do at        *)
(* dlclose() and at exit, if no call of a library fails: the programs get  *)
(* to the end with the message, the handler named by -a ran once, and      *)
(* OPENSSL_cleanup() was called as Makefile:55-72 says; they crash only    *)
(* if code that -a has them call is gone.                                  *)
THEOREM TargetsPass == Spec => []TestTargetsPass
  <1>1. Init => FlagInv /\ ArmInv /\ TestInv
    <2> SUFFICES ASSUME Init PROVE FlagInv /\ ArmInv /\ TestInv
      OBVIOUS
    <2>1. /\ (prog = "explicit" => mapped = {} /\ atExitFuncs = {})
          /\ pc = "options" /\ armed = <<>> /\ flag = 1 /\ mode = {}
      BY DEF Init, AtExitFuncs
    <2>2. QED
      BY <2>1 DEF FlagInv, ArmInv, TestInv, TextProgress, HandlerProgress, EndProgress, Late
  <1>2. TypeInv /\ CodeInv /\ TestInv => TestTargetsPass
    <2> SUFFICES ASSUME CodeInv, TestInv, IsTest, ~failed
                 PROVE  /\ pc = "crashed" => CodeIsGone(cmd.a # Absent, Named)
                        /\ pc = "gone" =>
                              /\ out = "message"
                              /\ cmd.a # Absent \/ cleanup = "destructor" => cleaned
                              /\ cmd.a # Absent => ran = SetToSeq(Named)
                              /\ prog = "explicit" /\ cmd.a = Absent =>
                                    ran = <<>> /\ (cleaned => cleanup = "destructor")
      BY DEF TestTargetsPass
    <2>1. TextProgress /\ (ArgumentCounts => HandlerProgress) /\ EndProgress
      BY DEF TestInv, Undisturbed
    <2>2. ASSUME pc = "crashed" PROVE CodeIsGone(cmd.a # Absent, Named)
      <3>1. out = "message"
        BY <2>1, <2>2 DEF TextProgress, Late
      <3>2. CodeIsGone(inited, ToSet(armed))
        BY <2>2, <3>1 DEF CodeInv, HandlersFindTheirCode
      <3>3. armed = Expected /\ (inited <=> cmd.a # Absent)
        BY <2>1, <2>2, <3>2 DEF HandlerProgress, Late, CodeIsGone, ArgumentCounts
      <3>4. ToSet(armed) = Named
        BY <3>3, TestFacts
      <3>5. QED
        BY <3>2, <3>3, <3>4 DEF CodeIsGone
    <2>3. QED
      BY <2>1, <2>2 DEF TextProgress, EndProgress, Late, Expected
  <1>3. QED
    BY <1>1, <1>2, InitCode, TypeInvHolds, NextCode, NextArm, NextTest, PTL DEF Spec
=============================================================================
