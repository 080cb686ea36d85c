------------------------------ MODULE NativeCalls ------------------------------
(***************************************************************************)
(* Calls between C++ and JavaScript, and the exceptions that cross them.   *)
(*                                                                         *)
(* The stack alternates: C++ code of the embedder calls JavaScript, which  *)
(* calls wrapped C++ functions, which convert their arguments (that may    *)
(* run JavaScript, a valueOf) and call JavaScript again.  An exception     *)
(* goes down the stack as a C++ exception in C++ frames, as the result     *)
(* JS_EXCEPTION with the runtime's current exception in JavaScript ones.   *)
(***************************************************************************)
EXTENDS Integers

CONSTANTS Values,       \* values that JavaScript code throws
          Unprintable,  \* what may have no string: to ask for it runs the program's own code
          Interrupted,  \* the error of an interrupt
          Types,        \* Exception::Type without Any
          None,         \* no value
          MaxDepth,     \* bound: frames on the stack
          MaxArgs,      \* bound: arguments of a call into JavaScript
          MaxThrows     \* bound: how often something is thrown anew

ASSUME CallsAssumption ==
  /\ Interrupted \in Values /\ Unprintable \subseteq Values \cup Types
  /\ {"TypeError", "InternalError"} \subseteq Types
  /\ Values \cap Types = {} /\ None \notin Values \cup Types
  /\ MaxDepth \in Nat \ {0} /\ MaxArgs \in Nat /\ MaxThrows \in Nat

VARIABLES
  depth, frame,    \* the stack, frame 1 is the embedder
  mode,            \* the top frame runs, has just been returned JS_EXCEPTION, or is being
                   \* unwound by a C++ exception; or an exception has left a C callback
  current,         \* the runtime's current exception
  uncatchable,     \* JavaScript cannot catch it
  cpp,             \* the C++ exception
  cause, replaced, \* history: what was thrown, and whether another error took its place
  throws,          \* history: how often something was thrown
  foreign,         \* history: C++ code threw what is no jac::Exception
  leaked           \* history: references that nobody frees any more

historyVars == <<cause, replaced, throws, foreign, leaked>>
exceptionVars == <<current, uncatchable, cpp, historyVars>>
vars == <<depth, frame, mode, exceptionVars>>

\* What JavaScript can catch: a thrown value, or an error object of some type.
Thrown == Values \cup Types

\* The C++ exceptions. A jac::Exception that wraps a value holds its string, too.
Exceptions ==
  [kind : {"value"}, what : Thrown] \cup [kind : {"type"}, what : Types]
  \cup [kind : {"std", "other"}, what : {None}]

NoException == [kind |-> "none", what |-> None]

Native == {"embedder", "function", "setter"}

\* vals is the vector of looted arguments, refs the references it still owes.
Frames == [kind : Native \cup {"js"},
           at : {"code", "entry", "arguments", "argumentsConvert", "body", "bodyConverts",
                 "push", "call", "result"},
           vals : 0..MaxArgs, refs : Int]

Frame(k, place) == [kind |-> k, at |-> place, vals |-> 0, refs |-> 0]

Top == frame[depth]

TypeOK ==
  /\ depth \in 1..MaxDepth
  /\ frame \in [1..MaxDepth -> Frames]
  /\ mode \in {"run", "jsException", "cppException", "escaped"}
  /\ current \in Thrown \cup {None} /\ uncatchable \in BOOLEAN
  /\ cpp \in Exceptions \cup {NoException}
  /\ cause \in Thrown \cup {None} /\ replaced \in BOOLEAN
  /\ throws \in 0..MaxThrows
  /\ foreign \in BOOLEAN /\ leaked \in Nat

Init ==
  /\ depth = 1 /\ frame = [i \in 1..MaxDepth |-> Frame("embedder", "body")]
  /\ mode = "run"
  /\ current = None /\ uncatchable = FALSE /\ cpp = NoException
  /\ cause = None /\ replaced = FALSE /\ throws = 0
  /\ foreign = FALSE /\ leaked = 0

-------------------------------------------------------------------------------
(* The stack.                                                                *)

Goes(place) == frame' = [frame EXCEPT ![depth].at = place] /\ UNCHANGED depth

\* The top frame, gone on to place, calls f.
Push(f, place) ==
  /\ depth < MaxDepth
  /\ depth' = depth + 1
  /\ frame' = [frame EXCEPT ![depth].at = place, ![depth + 1] = f]

Pop ==
  /\ depth' = depth - 1
  /\ frame' = [frame EXCEPT ![depth] = Frame("embedder", "body")]

InNative(place) == Top.kind \in Native /\ Top.at = place

InCall == InNative("push") \/ InNative("call") \/ InNative("result")

\* No jac::Exception.
Foreign(e) == e.kind \in {"std", "other"}

\* Something is thrown that was not in flight before.
Throws(v) ==
  /\ throws < MaxThrows
  /\ throws' = throws + 1
  /\ cause' = v
  /\ replaced' = FALSE
  /\ UNCHANGED leaked

\* The value that JavaScript should catch when e is thrown.
Documented(e) == IF Foreign(e) THEN "InternalError" ELSE e.what

CppThrows(e) ==
  /\ Throws(Documented(e))
  /\ foreign' = (foreign \/ Foreign(e))
  /\ cpp' = e
  /\ mode' = "cppException"
  /\ UNCHANGED <<current, uncatchable>>

-------------------------------------------------------------------------------
(* JavaScript code.                                                          *)

JSRuns == Top.kind = "js" /\ mode = "run"

\* A call of a wrapped function, method or constructor, or the assignment of a property
\* that stands for a member.
JSCallsNative ==
  /\ JSRuns
  /\ \/ Push(Frame("function", "entry"), "code")
     \/ Push(Frame("setter", "arguments"), "code")
  /\ UNCHANGED <<mode, exceptionVars>>

JSReturns ==
  /\ JSRuns
  /\ Pop
  /\ UNCHANGED <<mode, exceptionVars>>

\* A throw, or an interrupt. JavaScript code that got the error of an interrupt may throw
\* it as any other value.
JSThrows ==
  /\ JSRuns
  /\ \E v \in Values :
       Throws(v) /\ current' = v /\ uncatchable' \in {FALSE, v = Interrupted}
  /\ Pop
  /\ mode' = "jsException"
  /\ UNCHANGED <<cpp, foreign>>

JSCatches ==
  /\ Top.kind = "js" /\ mode = "jsException"
  /\ ~uncatchable
  /\ mode' = "run"
  /\ current' = None
  /\ UNCHANGED <<depth, frame, uncatchable, cpp, historyVars>>

JSUnwinds ==
  /\ Top.kind = "js" /\ mode = "jsException"
  /\ Pop
  /\ UNCHANGED <<mode, exceptionVars>>

-------------------------------------------------------------------------------
(* A wrapped function is called.                                             *)

InvalidNumberOfArguments ==
  /\ InNative("entry") /\ mode = "run"
  /\ CppThrows([kind |-> "type", what |-> "TypeError"])
  /\ UNCHANGED <<depth, frame>>

NumberOfArguments ==
  /\ InNative("entry") /\ mode = "run"
  /\ Goes("arguments")
  /\ UNCHANGED <<mode, exceptionVars>>

\* The value is not of the wanted kind, no code runs.
NotConvertible ==
  /\ InNative("arguments") \/ InNative("body")
  /\ mode = "run"
  /\ CppThrows([kind |-> "type", what |-> "TypeError"])
  /\ UNCHANGED <<depth, frame>>

\* The conversion of a value, or a property that it reads, runs JavaScript: for an argument,
\* or in the function.
Converts ==
  /\ mode = "run"
  /\ \/ InNative("arguments") /\ Push(Frame("js", "code"), "argumentsConvert")
     \/ InNative("body") /\ Push(Frame("js", "code"), "bodyConverts")
  /\ UNCHANGED <<mode, exceptionVars>>

\* Where a conversion goes on.
AfterConversion == IF Top.at = "argumentsConvert" THEN "arguments" ELSE "body"

Converted ==
  /\ InNative("argumentsConvert") \/ InNative("bodyConverts")
  /\ mode = "run"
  /\ Goes(AfterConversion)
  /\ UNCHANGED <<mode, exceptionVars>>

\* The engine's conversion to a number or a string fails, or that of an element of an array:
\* the exception stays in the runtime, a TypeError is thrown for it.
ConversionFails ==
  /\ InNative("argumentsConvert") \/ InNative("bodyConverts")
  /\ mode = "jsException"
  /\ Goes(AfterConversion)
  /\ mode' = "cppException"
  /\ cpp' = [kind |-> "type", what |-> "TypeError"]
  /\ replaced' = TRUE
  /\ UNCHANGED <<current, uncatchable, cause, throws, foreign, leaked>>

EntersBody ==
  /\ InNative("arguments") /\ Top.kind = "function" /\ mode = "run"
  /\ Goes("body")
  /\ UNCHANGED <<mode, exceptionVars>>

SetterReturns ==
  /\ InNative("arguments") /\ Top.kind = "setter" /\ mode = "run"
  /\ Pop
  /\ UNCHANGED <<mode, exceptionVars>>

BodyReturns ==
  /\ InNative("body") /\ Top.kind = "function" /\ mode = "run"
  /\ Pop
  /\ UNCHANGED <<mode, exceptionVars>>

BodyThrows ==
  /\ InNative("body") /\ mode = "run"
  /\ \E e \in Exceptions : CppThrows(e)
  /\ UNCHANGED <<depth, frame>>

\* A handler in the function, or in the embedder.
NativeCatches ==
  /\ InNative("body") /\ mode = "cppException"
  /\ mode' = "run"
  /\ cpp' = NoException
  /\ UNCHANGED <<depth, frame, current, uncatchable, historyVars>>

-------------------------------------------------------------------------------
(* C++ calls JavaScript: callThis, callConstructor.                          *)

CallBegins ==
  /\ InNative("body") /\ mode = "run"
  /\ Goes("push")
  /\ UNCHANGED <<mode, exceptionVars>>

PushArgument ==
  /\ InNative("push") /\ mode = "run"
  /\ Top.vals < MaxArgs
  /\ frame' = [frame EXCEPT ![depth].vals = @ + 1, ![depth].refs = @ + 1]
  /\ UNCHANGED <<depth, mode, exceptionVars>>

\* toValue throws: a type, or what a conversion of the embedder may throw.
PushFails ==
  /\ InNative("push") /\ mode = "run"
  /\ \E e \in Exceptions : CppThrows(e)
  /\ UNCHANGED <<depth, frame>>

Call ==
  /\ InNative("push") /\ mode = "run"
  /\ Push(Frame("js", "code"), "call")
  /\ UNCHANGED <<mode, exceptionVars>>

\* The arguments are freed; the vector still holds them.
ReturnsUncleared ==
  /\ InNative("call") /\ mode = "run"
  /\ frame' = [frame EXCEPT ![depth].at = "result", ![depth].refs = @ - Top.vals]
  /\ UNCHANGED <<depth, mode, exceptionVars>>

CallReturns ==
  /\ InNative("call") /\ mode = "run"
  /\ frame' = [frame EXCEPT ![depth].at = "result", ![depth].refs = @ - Top.vals,
                            ![depth].vals = 0]
  /\ UNCHANGED <<depth, mode, exceptionVars>>

\* The result of a call, or of the read of a property, becomes a Value.
ReturnsToValue ==
  \/ InNative("call") /\ UNCHANGED <<depth, frame>>
  \/ InNative("argumentsConvert") /\ Goes("arguments")
  \/ InNative("bodyConverts") /\ Goes("body")

\* The constructor of Value finds JS_EXCEPTION and throws the current exception as a
\* jac::Exception.  Its constructor asks for the string of the value, which may run code of
\* the program (not as frames of the stack here); where that fails, the exception is
\* another and something else stays in the runtime.
GetException ==
  /\ mode = "jsException"
  /\ ReturnsToValue
  /\ mode' = "cppException"
  /\ \/ /\ cpp' = [kind |-> "value", what |-> current]
        /\ current' = None
        /\ UNCHANGED replaced
     \/ /\ current \in Unprintable
        /\ cpp' = [kind |-> "type", what |-> "InternalError"]
        /\ replaced' = TRUE
        /\ current' \in Thrown
  /\ UNCHANGED <<uncatchable, cause, throws, foreign, leaked>>

\* The result is converted, and the vector is destroyed.
ResultConverted ==
  /\ InNative("result") /\ mode = "run"
  /\ frame' = [frame EXCEPT ![depth].at = "body", ![depth].vals = 0]
  /\ UNCHANGED <<depth, mode, exceptionVars>>

ResultFails ==
  /\ InNative("result") /\ mode = "run"
  /\ CppThrows([kind |-> "type", what |-> "TypeError"])
  /\ UNCHANGED <<depth, frame>>

\* A catch (Exception&) without its throw.
CallSwallows ==
  /\ InCall /\ mode = "cppException"
  /\ ~Foreign(cpp)
  /\ frame' = [frame EXCEPT ![depth].at = "body", ![depth].refs = @ - Top.vals,
                            ![depth].vals = 0]
  /\ mode' = "run"
  /\ cpp' = NoException
  /\ UNCHANGED <<depth, current, uncatchable, historyVars>>

\* catch (Exception&): the arguments in the vector are freed, the exception goes on.
CallRethrows ==
  /\ InCall /\ mode = "cppException"
  /\ ~Foreign(cpp)
  /\ frame' = [frame EXCEPT ![depth].at = "body", ![depth].refs = @ - Top.vals,
                            ![depth].vals = 0]
  /\ UNCHANGED <<depth, mode, exceptionVars>>

\* Nothing catches another exception: the vector goes, and nobody frees what was in it.
CallAbandons ==
  /\ InCall /\ mode = "cppException"
  /\ Foreign(cpp)
  /\ leaked' = leaked + Top.refs
  /\ frame' = [frame EXCEPT ![depth].at = "body", ![depth].refs = 0, ![depth].vals = 0]
  /\ UNCHANGED <<depth, mode, current, uncatchable, cpp, cause, replaced, throws, foreign>>

-------------------------------------------------------------------------------
(* The end of a wrapped function by an exception.                            *)

ThrowJS(e) == e.what

\* jac::Exception is a std::exception: caught as that, it loses its value and type.
StdCaughtFirst(e) == IF e = NoException THEN None ELSE "InternalError"

\* The clauses of propagateExceptions.
CaughtAs(e) == IF Foreign(e) THEN "InternalError" ELSE ThrowJS(e)

\* Only one of the errors is thrown into JavaScript. Whether the error of an interrupt stays
\* uncatchable when JS_Throw throws it again is the engine's: some keep that with the object,
\* others with the throw.
PropagateExceptions ==
  /\ Top.kind = "function" /\ Top.at \in {"entry", "arguments", "body"} /\ mode = "cppException"
  /\ current' = CaughtAs(cpp)
  /\ uncatchable' \in {FALSE, CaughtAs(cpp) = Interrupted}
  /\ cpp' = NoException
  /\ Pop
  /\ mode' = "jsException"
  /\ UNCHANGED historyVars

\* The accessors have no such clauses: the exception goes on into the C code of the
\* engine, which is not made for it, and the model ends.
SetterThrows ==
  /\ Top.kind = "setter" /\ mode = "cppException"
  /\ mode' = "escaped"
  /\ UNCHANGED <<depth, frame, exceptionVars>>

-------------------------------------------------------------------------------
JavaScript == JSCallsNative \/ JSReturns \/ JSThrows \/ JSCatches \/ JSUnwinds

WrappedFunction ==
  \/ InvalidNumberOfArguments \/ NumberOfArguments \/ NotConvertible
  \/ Converts \/ Converted \/ ConversionFails \/ EntersBody \/ SetterReturns \/ BodyReturns \/ BodyThrows \/ NativeCatches
  \/ PropagateExceptions \/ SetterThrows

CallIntoJavaScript ==
  \/ CallBegins \/ PushArgument \/ PushFails \/ Call \/ CallReturns \/ GetException
  \/ ResultConverted \/ ResultFails \/ CallRethrows
  \/ CallAbandons

Next == JavaScript \/ WrappedFunction \/ CallIntoJavaScript

Spec == Init /\ [][Next]_vars

-------------------------------------------------------------------------------
(* Properties.                                                               *)

\* What was thrown, in C++ or in JavaScript, is what arrives, through any number of frames
\* of either kind: a value as itself, a type as an error of that type, any other C++
\* exception as an InternalError; but where a conversion or a missing string replaced it.
\* JS_EXCEPTION never comes without a current exception.
Faithful ==
  /\ mode = "jsException" => current # None /\ (replaced \/ current = cause)
  /\ mode = "cppException" => cpp # NoException /\ (replaced \/ Documented(cpp) = cause)

\* The arguments of a call are freed once by the call, on every path out of it by a return or
\* a jac::Exception: the references a frame owes are those in its vector, and before and
\* after a call there are none.  References are lost only where foreign exceptions were thrown.
ArgumentsFreedOnce ==
  /\ \A i \in 1..depth :
       /\ frame[i].refs = frame[i].vals
       /\ frame[i].at \notin {"push", "call"} => frame[i].refs = 0
  /\ leaked > 0 => foreign

\* "Release ownership of the JSValue. The JSValue will have to be freed manually" (loot): the
\* calls, which loot their arguments, free them, whatever is thrown.
NothingLeaks == leaked = 0

\* No exception leaves a C callback: it is thrown into JavaScript.
NothingEscapes == mode # "escaped"

\* What JavaScript threw is what C++ code catches.
ThrownValueArrives ==
  [][ConversionFails \/ GetException => Documented(cpp') = current]_vars

-------------------------------------------------------------------------------
(* The exceptions as the program sees them.                                  *)

\* An exception of a C++ frame is in flight as the value that JavaScript would catch.
InFlight == CASE mode = "jsException" -> current
              [] mode \in {"cppException", "escaped"} -> Documented(cpp)
              [] OTHER -> None

ExceptionView == INSTANCE ExceptionFlow WITH
  script      <- Top.kind = "js",
  library     <- Top.kind # "js" /\ Top.at # "body",
  inFlight    <- InFlight,
  Substitutes <- {"TypeError", "InternalError"}

\* The catch clauses, the current exception of the runtime and the rethrows implement one
\* exception that is passed on until the program catches it: the library drops none and
\* puts only two errors of its own in its place.
ImplementsExceptionFlow == ExceptionView!Spec

===============================================================================
