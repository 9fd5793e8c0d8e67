----------------------------- MODULE MCBacktrace -----------------------------
(***************************************************************************)
(* Instances of Backtrace for TLC: an application without symbols at 2,    *)
(* library A from 10 on and library B from 20 on.                          *)
(***************************************************************************)
EXTENDS Backtrace, TLC

CONSTANTS t1, t2, app, A, B

MCLibAt == (0 :> NoLib) @@ (2 :> app) @@ (11 :> A) @@ (12 :> A) @@ (20 :> B) @@ (22 :> B)
MCBase == (app :> 1) @@ (A :> 10) @@ (B :> 20)
MCFrames == [t \in Threads |-> IF t = t1 THEN <<12, 22>> ELSE <<20, 2, 11>>]

f(value, size) == [func |-> TRUE, value |-> value, size |-> size]
object == [func |-> FALSE, value |-> 0, size |-> 0]

ImageOf(a, b) == (app :> <<>>) @@ (A :> a) @@ (B :> b)

MCImages ==
    { \* sizes to be filled in, also for the last function of A
      ImageOf(<<object, f(0, 0), f(2, 0)>>, <<f(0, 1), object, f(1, 3)>>),
      \* two names for one address, one of them without a size
      ImageOf(<<f(1, 0), f(1, 2)>>, <<f(0, 0), f(1, 0), f(2, 1)>>),
      \* a nested function
      ImageOf(<<f(0, 4), f(1, 1)>>, <<>>),
      \* no function, which ends the process
      ImageOf(<<object>>, <<f(0, 2), f(2, 2)>>) }

\* All functions of both libraries have a size.
MCPlainImages == {ImageOf(<<object, f(0, 2), f(2, 2)>>, <<f(0, 1), f(1, 3)>>)}
=============================================================================
