-------------------------- MODULE NativeCallsProofs --------------------------
(***************************************************************************)
(* Proofs about NativeCalls for any values, any depth of the stack and any *)
(* number of arguments.                                                    *)
(***************************************************************************)
EXTENDS NativeCalls, TLAPS

\* The stack is typed, the bottom is the embedder, and every frame owes what it holds.
Owes(f) ==
  /\ f.refs = f.vals /\ (f.at \notin {"push", "call"} => f.refs = 0)
  /\ f.kind = "js" => f.at = "code"

Stack ==
  /\ depth \in 1..MaxDepth /\ frame \in [1..MaxDepth -> Frames]
  /\ frame[1].kind = "embedder"
  /\ \A i \in 1..depth : Owes(frame[i])

Errors ==
  /\ mode \in {"run", "jsException", "cppException", "escaped"}
  /\ current \in Thrown \cup {None}
  /\ cpp \in Exceptions \cup {NoException}
  /\ cause \in Thrown \cup {None}
  /\ Faithful

Flag == replaced \in BOOLEAN

Counter == throws \in 0..MaxThrows

\* Nothing foreign is in flight, and nothing is leaked, before a foreign throw.
Leaks ==
  /\ foreign \in BOOLEAN /\ leaked \in Nat /\ uncatchable \in BOOLEAN
  /\ cpp \in Exceptions /\ Foreign(cpp) => foreign
  /\ leaked > 0 => foreign

IndInv == Stack /\ Errors /\ Flag /\ Counter /\ Leaks

-------------------------------------------------------------------------------
(* The stack.                                                                *)

\* The top frame goes on, and what it owes is what it holds.
LEMMA TopMoves ==
  ASSUME Stack, UNCHANGED depth,
         NEW g \in Frames, g.kind = Top.kind, Owes(g),
         frame' = [frame EXCEPT ![depth] = g]
  PROVE  Stack'
<1>1. frame' \in [1..MaxDepth -> Frames]
  BY DEF Stack
<1>2. frame'[1].kind = "embedder"
  BY DEF Stack, Top
<1>3. \A i \in 1..depth' : Owes(frame'[i])
  BY DEF Stack
<1> QED
  BY <1>1, <1>2, <1>3 DEF Stack, Owes

\* Going on to a place outside of a call, or into one without arguments.
LEMMA GoesKeeps ==
  ASSUME Stack, Top.refs = 0, Top.kind \in Native,
         NEW place \in {"arguments", "body", "push"},
         Goes(place)
  PROVE  Stack'
<1>1. Top \in Frames
  BY DEF Stack, Top
<1> DEFINE g == [Top EXCEPT !.at = place]
<1>2. g \in Frames /\ g.kind = Top.kind /\ g.refs = Top.refs /\ g.vals = Top.vals
  BY <1>1 DEF Frames
<1>3. Owes(g)
  BY <1>2 DEF Owes, Stack, Top, Native
<1>4. frame' = [frame EXCEPT ![depth] = g] /\ UNCHANGED depth
  BY DEF Goes, Top
<1> QED
  BY <1>2, <1>3, <1>4, TopMoves

\* A frame but the bottom one can be popped.
LEMMA PopKeeps ==
  ASSUME Stack, Top.kind # "embedder", Pop
  PROVE  Stack'
<1>1. depth \in 2..MaxDepth
  BY CallsAssumption DEF Stack, Top
<1>2. Frame("embedder", "body") \in Frames
  BY CallsAssumption DEF Frame, Frames, Native
<1>3. depth' \in 1..MaxDepth /\ frame' \in [1..MaxDepth -> Frames]
  BY <1>1, <1>2, CallsAssumption DEF Pop, Stack
<1>4. \A i \in 1..depth' : i \in 1..depth /\ frame'[i] = frame[i]
  BY <1>1, CallsAssumption DEF Pop, Stack
<1>5. 1 \in 1..depth'
  BY <1>1, <1>3
<1> QED
  BY <1>3, <1>4, <1>5 DEF Stack, Owes

\* A new frame owes nothing; the one below goes on to the place of its call.
LEMMA PushKeeps ==
  ASSUME Stack,
         NEW k \in Native \cup {"js"}, NEW place \in {"code", "entry", "arguments"},
         NEW from \in {"code", "argumentsConvert", "bodyConverts", "call"},
         Top.refs = 0 \/ (from = "call" /\ Top.at = "push"),
         Top.kind = "js" => from = "code", k = "js" => place = "code",
         Push(Frame(k, place), from)
  PROVE  Stack'
<1> DEFINE g == [Top EXCEPT !.at = from]
<1>1. Top \in Frames /\ Owes(Top)
  BY DEF Stack, Top
<1>2. g \in Frames /\ g.kind = Top.kind /\ Owes(g)
  BY <1>1 DEF Frames, Owes
<1>3. Frame(k, place) \in Frames /\ Owes(Frame(k, place))
  BY CallsAssumption DEF Frame, Frames, Owes
<1>4. /\ depth \in 1..MaxDepth /\ depth + 1 \in 1..MaxDepth /\ MaxDepth \in Nat
      /\ depth' = depth + 1 /\ depth # depth + 1
  BY CallsAssumption DEF Stack, Push
<1>5. frame' = [frame EXCEPT ![depth] = g, ![depth + 1] = Frame(k, place)]
  BY DEF Push, Top
<1>6. frame' \in [1..MaxDepth -> Frames]
  BY <1>2, <1>3, <1>5 DEF Stack
<1>7. /\ frame'[depth] = g /\ frame'[depth + 1] = Frame(k, place)
      /\ \A i \in 1..MaxDepth \ {depth, depth + 1} : frame'[i] = frame[i]
  BY <1>4, <1>5 DEF Stack
<1>8. frame'[1].kind = "embedder"
  <2>1. CASE depth = 1
    BY <2>1, <1>2, <1>7 DEF Stack, Top
  <2>2. CASE depth # 1
    <3>1. 1 \in 1..MaxDepth \ {depth, depth + 1}
      BY <2>2, <1>4
    <3> QED
      BY <3>1, <1>7 DEF Stack
  <2> QED
    BY <2>1, <2>2
<1>9. ASSUME NEW i \in 1..depth' PROVE Owes(frame'[i])
  <2>1. i = depth \/ i = depth + 1 \/ (i \in 1..depth /\ i \in 1..MaxDepth \ {depth, depth + 1})
    BY <1>4
  <2> QED
    BY <2>1, <1>2, <1>3, <1>7 DEF Stack
<1> QED
  BY <1>4, <1>6, <1>8, <1>9 DEF Stack, Owes

\* The bounds of the stack and of the vector of arguments hold in every state.
LEMMA TopTypes ==
  ASSUME Stack
  PROVE  /\ Top \in Frames /\ Owes(Top) /\ Top.vals \in 0..MaxArgs /\ Top.refs \in Int
         /\ Top.at \notin {"push", "call"} => Top.refs = 0
<1>1. Top \in Frames /\ Owes(Top)
  BY DEF Stack, Top
<1> QED
  BY <1>1 DEF Frames, Owes

\* Records of frames after a step of a call: nothing is owed any more, or one more.
LEMMA Emptied ==
  ASSUME NEW f \in Frames, f.kind \in Native, f.refs = f.vals,
         NEW place \in {"body", "result"}
  PROVE  /\ [f EXCEPT !.at = place, !.refs = @ - f.vals, !.vals = 0] = [f EXCEPT !.at = place, !.refs = 0, !.vals = 0]
         /\ LET g == [f EXCEPT !.at = place, !.refs = 0, !.vals = 0]
            IN  g \in Frames /\ g.kind = f.kind /\ Owes(g)
<1> DEFINE g == [f EXCEPT !.at = place, !.refs = 0, !.vals = 0]
<1>1. f.vals \in 0..MaxArgs /\ f.refs \in Int
  BY DEF Frames
<1>2. f.refs - f.vals = 0
  BY <1>1, CallsAssumption
<1>3. [f EXCEPT !.at = place, !.refs = @ - f.vals, !.vals = 0] = g
  BY <1>2
<1>4. 0 \in 0..MaxArgs /\ 0 \in Int
  BY CallsAssumption
<1>5. g \in Frames
  BY <1>4 DEF Frames
<1>6. g.kind = f.kind /\ g.refs = 0 /\ g.vals = 0 /\ g.at = place
  BY DEF Frames
<1> QED
  BY <1>3, <1>5, <1>6 DEF Owes, Native

\* A frame whose vector takes one more argument owes one more.
LEMMA OneMore ==
  ASSUME NEW f \in Frames, f.kind \in Native, f.refs = f.vals, f.at = "push", f.vals < MaxArgs
  PROVE  LET g == [f EXCEPT !.vals = @ + 1, !.refs = @ + 1]
         IN  g \in Frames /\ g.kind = f.kind /\ Owes(g)
<1> DEFINE g == [f EXCEPT !.vals = @ + 1, !.refs = @ + 1]
<1>1. f.vals \in 0..MaxArgs /\ f.refs \in Int
  BY DEF Frames
<1>2. f.vals + 1 \in 0..MaxArgs /\ f.refs + 1 \in Int
  BY <1>1, CallsAssumption
<1>3. g \in Frames
  BY <1>2 DEF Frames
<1>4. g.kind = f.kind /\ g.refs = f.refs + 1 /\ g.vals = f.vals + 1 /\ g.at = f.at
  BY DEF Frames
<1> QED
  BY <1>3, <1>4 DEF Owes, Native

\* Every step leaves a stack whose frames owe what they hold.
LEMMA StackStep == Stack /\ [Next]_vars => Stack'
<1> SUFFICES ASSUME Stack, [Next]_vars PROVE Stack'
  OBVIOUS
<1>1. /\ Top \in Frames /\ Owes(Top) /\ Top.vals \in 0..MaxArgs /\ Top.refs \in Int
      /\ Top.at \notin {"push", "call"} => Top.refs = 0
  BY TopTypes
<1>2. ASSUME UNCHANGED <<depth, frame>> PROVE Stack'
  BY <1>2 DEF Stack, Owes
<1>3. CASE JavaScript
  <2>1. CASE JSCallsNative
    <3>1. Top.kind = "js" /\ Top.refs = 0
      BY <1>1, <2>1 DEF JSCallsNative, JSRuns, Owes
    <3> QED
      BY <3>1, <2>1, PushKeeps DEF JSCallsNative, Native
  <2>2. CASE JSReturns \/ JSThrows \/ JSUnwinds
    BY <2>2, PopKeeps DEF JSReturns, JSThrows, JSUnwinds, JSRuns
  <2>3. CASE JSCatches
    BY <2>3, <1>2 DEF JSCatches
  <2> QED
    BY <1>3, <2>1, <2>2, <2>3 DEF JavaScript
<1>4. CASE WrappedFunction
  <2>1. CASE InvalidNumberOfArguments \/ NotConvertible \/ BodyThrows \/ NativeCatches \/ SetterThrows
    BY <2>1, <1>2 DEF InvalidNumberOfArguments, NotConvertible, BodyThrows, NativeCatches, SetterThrows
  <2>2. CASE NumberOfArguments \/ EntersBody
    <3>1. Top.refs = 0
      BY <2>2, <1>1 DEF NumberOfArguments, EntersBody, InNative
    <3> QED
      BY <3>1, <2>2, GoesKeeps DEF NumberOfArguments, EntersBody, InNative
  <2>3. CASE Converted \/ ConversionFails
    <3>1. Top.refs = 0
      BY <2>3, <1>1 DEF Converted, ConversionFails, InNative
    <3>2. AfterConversion \in {"arguments", "body"}
      BY DEF AfterConversion
    <3> QED
      BY <3>1, <3>2, <2>3, GoesKeeps DEF Converted, ConversionFails, InNative
  <2>4. CASE Converts
    <3>1. Top.refs = 0
      BY <2>4, <1>1 DEF Converts, InNative
    <3> QED
      BY <3>1, <2>4, PushKeeps DEF Converts, InNative, Native
  <2>5. CASE SetterReturns \/ BodyReturns \/ PropagateExceptions
    BY <2>5, PopKeeps DEF SetterReturns, BodyReturns, PropagateExceptions
  <2> QED
    BY <1>4, <2>1, <2>2, <2>3, <2>4, <2>5 DEF WrappedFunction
<1>5. CASE CallIntoJavaScript
  <2>1. CASE PushFails \/ ResultFails
    BY <2>1, <1>2 DEF PushFails, ResultFails
  <2>2. CASE CallBegins
    <3>1. Top.refs = 0
      BY <2>2, <1>1 DEF CallBegins, InNative
    <3> QED
      BY <3>1, <2>2, GoesKeeps DEF CallBegins, InNative
  <2>3. CASE PushArgument
    <3> DEFINE g == [Top EXCEPT !.vals = @ + 1, !.refs = @ + 1]
    <3>1. g \in Frames /\ g.kind = Top.kind /\ Owes(g)
      BY <2>3, <1>1, OneMore DEF PushArgument, InNative, Owes
    <3>2. frame' = [frame EXCEPT ![depth] = g] /\ UNCHANGED depth
      BY <2>3 DEF PushArgument, Top
    <3> QED
      BY <3>1, <3>2, TopMoves
  <2>4. CASE Call
    BY <2>4, PushKeeps DEF Call, InNative, Native
  <2>5. CASE CallReturns
    <3> DEFINE g == [Top EXCEPT !.at = "result", !.refs = 0, !.vals = 0]
    <3>1. Top.kind \in Native /\ Top.refs = Top.vals
      BY <2>5, <1>1 DEF CallReturns, InCall, InNative, Owes
    <3>2. g \in Frames /\ g.kind = Top.kind /\ Owes(g)
      BY <3>1, <1>1, Emptied
    <3>3. frame' = [frame EXCEPT ![depth] = g] /\ UNCHANGED depth
      BY <3>1, <2>5, <1>1, Emptied DEF CallReturns, Top
    <3> QED
      BY <3>2, <3>3, TopMoves
  <2>6. CASE ResultConverted
    <3> DEFINE g == [Top EXCEPT !.at = "body", !.vals = 0]
    <3>1. Top.kind \in Native /\ Top.refs = 0 /\ Top.vals = 0
      BY <2>6, <1>1 DEF ResultConverted, InNative, Owes
    <3>2. g \in Frames /\ g.kind = Top.kind /\ g.refs = 0 /\ g.vals = 0
      BY <3>1, <1>1 DEF Frames
    <3>3. Owes(g)
      BY <3>1, <3>2 DEF Owes, Native
    <3>4. frame' = [frame EXCEPT ![depth] = g] /\ UNCHANGED depth
      BY <2>6 DEF ResultConverted, Top
    <3> QED
      BY <3>2, <3>3, <3>4, TopMoves
  <2>7. CASE CallRethrows
    <3> DEFINE g == [Top EXCEPT !.at = "body", !.refs = 0, !.vals = 0]
    <3>1. Top.kind \in Native /\ Top.refs = Top.vals
      BY <2>7, <1>1 DEF CallRethrows, InCall, InNative, Owes
    <3>2. g \in Frames /\ g.kind = Top.kind /\ Owes(g)
      BY <3>1, <1>1, Emptied
    <3>3. frame' = [frame EXCEPT ![depth] = g] /\ UNCHANGED depth
      BY <3>1, <2>7, <1>1, Emptied DEF CallRethrows, Top
    <3> QED
      BY <3>2, <3>3, TopMoves
  <2>8. CASE CallAbandons
    <3> DEFINE g == [Top EXCEPT !.at = "body", !.refs = 0, !.vals = 0]
    <3>1. Top.kind \in Native /\ Top.refs = Top.vals
      BY <2>8, <1>1 DEF CallAbandons, InCall, InNative, Owes
    <3>2. g \in Frames /\ g.kind = Top.kind /\ Owes(g)
      BY <3>1, <1>1, Emptied
    <3>3. frame' = [frame EXCEPT ![depth] = g] /\ UNCHANGED depth
      BY <3>1, <2>8, <1>1, Emptied DEF CallAbandons, Top
    <3> QED
      BY <3>2, <3>3, TopMoves
  <2>9. CASE GetException
    <3>1. CASE InNative("call") /\ UNCHANGED <<depth, frame>>
      BY <3>1, <1>2
    <3>2. CASE InNative("argumentsConvert") /\ Goes("arguments")
      BY <3>2, <1>1, GoesKeeps DEF InNative
    <3>3. CASE InNative("bodyConverts") /\ Goes("body")
      BY <3>3, <1>1, GoesKeeps DEF InNative
    <3> QED
      BY <2>9, <3>1, <3>2, <3>3 DEF GetException, ReturnsToValue
  <2> QED
    BY <1>5, <2>1, <2>2, <2>3, <2>4, <2>5, <2>6, <2>7, <2>8, <2>9 DEF CallIntoJavaScript
<1>6. CASE UNCHANGED vars
  BY <1>6, <1>2 DEF vars, exceptionVars, historyVars
<1> QED
  BY <1>3, <1>4, <1>5, <1>6 DEF Next

-------------------------------------------------------------------------------
(* The exceptions.                                                           *)

\* A C++ exception and the value JavaScript should catch are of their types.
LEMMA ExceptionTypes ==
  /\ \A t \in Types : [kind |-> "type", what |-> t] \in Exceptions
  /\ \A v \in Thrown : [kind |-> "value", what |-> v] \in Exceptions
  /\ NoException \notin Exceptions
  /\ "TypeError" \in Types /\ "InternalError" \in Types
  /\ \A e \in Exceptions : Documented(e) \in Thrown /\ CaughtAs(e) = Documented(e)
<1>1. \A e \in Exceptions : Documented(e) \in Thrown /\ CaughtAs(e) = Documented(e)
  BY CallsAssumption DEF Exceptions, Documented, CaughtAs, ThrowJS, Thrown, Foreign
<1>2. NoException \notin Exceptions
  BY DEF NoException, Exceptions
<1> QED
  BY <1>1, <1>2, CallsAssumption DEF Exceptions

\* A C++ throw starts an exception that is what it should be.
LEMMA ThrowKeeps ==
  ASSUME Errors, NEW e \in Exceptions, CppThrows(e)
  PROVE  Errors'
<1>1. /\ cpp' = e /\ cause' = Documented(e) /\ mode' = "cppException" /\ current' = current
  BY DEF CppThrows, Throws
<1> QED
  BY <1>1, ExceptionTypes DEF Errors, Faithful

\* Every step keeps what is in flight faithful to what was thrown.
LEMMA ErrorsStep == Errors /\ [Next]_vars => Errors'
<1> SUFFICES ASSUME Errors, [Next]_vars PROVE Errors'
  OBVIOUS
<1>1. ASSUME UNCHANGED <<mode, current, cpp, cause, replaced>> PROVE Errors'
  BY <1>1 DEF Errors, Faithful
<1>2. CASE JavaScript
  <2>1. CASE JSCallsNative \/ JSReturns \/ JSUnwinds
    BY <2>1, <1>1 DEF JSCallsNative, JSReturns, JSUnwinds, exceptionVars, historyVars
  <2>2. CASE JSThrows
    <3>1. PICK v \in Values : current' = v /\ cause' = v
      BY <2>2 DEF JSThrows, Throws
    <3>2. mode' = "jsException" /\ cpp' = cpp
      BY <2>2 DEF JSThrows
    <3>3. v \in Thrown /\ v # None
      BY CallsAssumption DEF Thrown
    <3> QED
      BY <3>1, <3>2, <3>3 DEF Errors, Faithful
  <2>3. CASE JSCatches
    BY <2>3 DEF JSCatches, historyVars, Errors, Faithful
  <2> QED
    BY <1>2, <2>1, <2>2, <2>3 DEF JavaScript
<1>3. CASE WrappedFunction
  <2>1. CASE InvalidNumberOfArguments \/ NotConvertible \/ BodyThrows
    <3>1. PICK e \in Exceptions : CppThrows(e)
      BY <2>1, ExceptionTypes DEF InvalidNumberOfArguments, NotConvertible, BodyThrows
    <3> QED
      BY <3>1, ThrowKeeps
  <2>2. CASE NumberOfArguments \/ EntersBody \/ Converts \/ Converted \/ SetterReturns \/ BodyReturns
    BY <2>2, <1>1 DEF NumberOfArguments, EntersBody, Converts, Converted, SetterReturns,
                      BodyReturns, exceptionVars, historyVars
  <2>3. CASE ConversionFails
    <3>1. cpp' \in Exceptions /\ cpp' # NoException
      BY <2>3, ExceptionTypes DEF ConversionFails
    <3>2. mode' = "cppException" /\ replaced' = TRUE /\ current' = current /\ cause' = cause
      BY <2>3 DEF ConversionFails
    <3> QED
      BY <3>1, <3>2 DEF Errors, Faithful
  <2>4. CASE NativeCatches
    BY <2>4 DEF NativeCatches, historyVars, Errors, Faithful
  <2>5. CASE PropagateExceptions
    <3>1. cpp \in Exceptions /\ (replaced \/ Documented(cpp) = cause)
      BY <2>5 DEF PropagateExceptions, Errors, Faithful
    <3>2. current' = Documented(cpp) /\ current' \in Thrown
      BY <3>1, <2>5, ExceptionTypes DEF PropagateExceptions
    <3>3. current' # None
      BY <3>2, CallsAssumption DEF Thrown
    <3>4. cpp' = NoException /\ mode' = "jsException" /\ cause' = cause /\ replaced' = replaced
      BY <2>5 DEF PropagateExceptions, historyVars
    <3> QED
      BY <3>1, <3>2, <3>3, <3>4 DEF Errors, Faithful
  <2>6. CASE SetterThrows
    BY <2>6 DEF SetterThrows, exceptionVars, historyVars, Errors, Faithful
  <2> QED
    BY <1>3, <2>1, <2>2, <2>3, <2>4, <2>5, <2>6 DEF WrappedFunction
<1>4. CASE CallIntoJavaScript
  <2>1. CASE PushFails \/ ResultFails
    <3>1. PICK e \in Exceptions : CppThrows(e)
      BY <2>1, ExceptionTypes DEF PushFails, ResultFails
    <3> QED
      BY <3>1, ThrowKeeps
  <2>2. CASE CallBegins \/ PushArgument \/ Call \/ CallReturns \/ ResultConverted \/ CallRethrows \/ CallAbandons
    BY <2>2, <1>1 DEF CallBegins, PushArgument, Call, CallReturns, ResultConverted, CallRethrows,
                      CallAbandons, exceptionVars, historyVars
  <2>3. CASE GetException
    <3>1. /\ mode = "jsException" /\ mode' = "cppException" /\ cause' = cause
          /\ current \in Thrown /\ (replaced \/ current = cause)
      BY <2>3 DEF GetException, Errors, Faithful
    <3>2. CASE /\ cpp' = [kind |-> "type", what |-> "InternalError"] /\ replaced' = TRUE
               /\ current' \in Thrown
      <4>1. /\ cpp' = [kind |-> "type", what |-> "InternalError"] /\ replaced' = TRUE
            /\ current' \in Thrown
        BY <3>2
      <4>2. cpp' \in Exceptions /\ cpp' # NoException
        BY <4>1, ExceptionTypes
      <4> QED
        BY <3>1, <4>1, <4>2 DEF Errors, Faithful
    <3>3. CASE cpp' = [kind |-> "value", what |-> current] /\ current' = None /\ replaced' = replaced
      <4>1. cpp' = [kind |-> "value", what |-> current] /\ current' = None /\ replaced' = replaced
        BY <3>3
      <4>2. cpp' \in Exceptions /\ cpp' # NoException
        BY <3>1, <3>3, <4>1, ExceptionTypes
      <4>3. Documented(cpp') = current
        BY <4>1 DEF Documented, Foreign
      <4> QED
        BY <3>1, <4>1, <4>2, <4>3 DEF Errors, Faithful
    <3> QED
      BY <2>3, <3>2, <3>3 DEF GetException
  <2> QED
    BY <1>4, <2>1, <2>2, <2>3 DEF CallIntoJavaScript
<1>5. CASE UNCHANGED vars
  BY <1>5, <1>1 DEF vars, exceptionVars, historyVars
<1> QED
  BY <1>2, <1>3, <1>4, <1>5 DEF Next

\* The history keeps its types.
LEMMA FlagStep == Flag /\ [Next]_vars => Flag'
<1> SUFFICES ASSUME Flag, [Next]_vars PROVE Flag'
  OBVIOUS
<1>1. UNCHANGED replaced \/ replaced' \in BOOLEAN
  <2>1. CASE JavaScript
    BY <2>1 DEF JavaScript, JSCallsNative, JSReturns, JSThrows, JSCatches, JSUnwinds, Throws,
                exceptionVars, historyVars
  <2>2. CASE WrappedFunction
    BY <2>2 DEF WrappedFunction, InvalidNumberOfArguments, NumberOfArguments, NotConvertible,
                Converts, Converted, ConversionFails, EntersBody, SetterReturns, BodyReturns,
                BodyThrows, NativeCatches, PropagateExceptions, SetterThrows, CppThrows, Throws,
                exceptionVars, historyVars
  <2>3. CASE CallIntoJavaScript
    BY <2>3 DEF CallIntoJavaScript, CallBegins, PushArgument, PushFails, Call, CallReturns,
                GetException, ResultConverted, ResultFails, CallRethrows, CallAbandons, CppThrows,
                Throws, exceptionVars, historyVars
  <2>4. CASE UNCHANGED vars
    BY <2>4 DEF vars, exceptionVars, historyVars
  <2> QED
    BY <2>1, <2>2, <2>3, <2>4 DEF Next
<1> QED
  BY <1>1 DEF Flag

\* Throws are counted up to their bound.
LEMMA CounterStep == Counter /\ [Next]_vars => Counter'
<1> SUFFICES ASSUME Counter, [Next]_vars PROVE Counter'
  OBVIOUS
<1>1. ASSUME UNCHANGED throws PROVE Counter'
  BY <1>1 DEF Counter
<1>2. ASSUME throws < MaxThrows, throws' = throws + 1 PROVE Counter'
  BY <1>2, CallsAssumption DEF Counter
<1>3. CASE JavaScript
  <2>1. CASE JSCallsNative \/ JSReturns \/ JSCatches \/ JSUnwinds
    BY <2>1, <1>1 DEF JSCallsNative, JSReturns, JSCatches, JSUnwinds, exceptionVars, historyVars
  <2>2. CASE JSThrows
    BY <2>2, <1>2 DEF JSThrows, Throws
  <2> QED
    BY <1>3, <2>1, <2>2 DEF JavaScript
<1>4. CASE WrappedFunction
  <2>1. CASE InvalidNumberOfArguments \/ NotConvertible \/ BodyThrows
    BY <2>1, <1>2 DEF InvalidNumberOfArguments, NotConvertible, BodyThrows, CppThrows, Throws
  <2>2. CASE \/ NumberOfArguments \/ Converts \/ Converted \/ ConversionFails \/ EntersBody
             \/ SetterReturns \/ BodyReturns \/ NativeCatches \/ PropagateExceptions
             \/ SetterThrows
    BY <2>2, <1>1 DEF NumberOfArguments, Converts, Converted, ConversionFails, EntersBody,
                      SetterReturns, BodyReturns, NativeCatches, PropagateExceptions,
                      SetterThrows, exceptionVars, historyVars
  <2> QED
    BY <1>4, <2>1, <2>2 DEF WrappedFunction
<1>5. CASE CallIntoJavaScript
  <2>1. CASE PushFails \/ ResultFails
    BY <2>1, <1>2 DEF PushFails, ResultFails, CppThrows, Throws
  <2>2. CASE \/ CallBegins \/ PushArgument \/ Call \/ CallReturns \/ GetException
             \/ ResultConverted \/ CallRethrows \/ CallAbandons
    BY <2>2, <1>1 DEF CallBegins, PushArgument, Call, CallReturns, GetException,
                      ResultConverted, CallRethrows, CallAbandons, exceptionVars, historyVars
  <2> QED
    BY <1>5, <2>1, <2>2 DEF CallIntoJavaScript
<1>6. CASE UNCHANGED vars
  BY <1>6, <1>1 DEF vars, exceptionVars, historyVars
<1> QED
  BY <1>3, <1>4, <1>5, <1>6 DEF Next

\* References are leaked on the way of a foreign exception alone.
LEMMA LeaksStep == Stack /\ Errors /\ Leaks /\ [Next]_vars => Leaks'
<1> SUFFICES ASSUME Stack, Errors, Leaks, [Next]_vars PROVE Leaks'
  OBVIOUS
<1>1. ASSUME UNCHANGED <<cpp, foreign, leaked>>, uncatchable' \in BOOLEAN PROVE Leaks'
  BY <1>1 DEF Leaks
<1>2. ASSUME NEW e \in Exceptions, CppThrows(e) PROVE Leaks'
  BY <1>2 DEF CppThrows, Throws, Leaks
<1>3. ASSUME UNCHANGED <<foreign, leaked>>, cpp' = NoException, uncatchable' \in BOOLEAN
      PROVE  Leaks'
  BY <1>3, ExceptionTypes DEF Leaks
<1>4. ASSUME UNCHANGED <<foreign, leaked, uncatchable>>, cpp'.kind \in {"value", "type"}
      PROVE  Leaks'
  BY <1>4 DEF Leaks, Foreign
<1>5. CASE JavaScript
  BY <1>1, <1>5 DEF JavaScript, JSCallsNative, JSReturns, JSThrows, JSCatches, JSUnwinds, Throws,
     exceptionVars, historyVars, Leaks
<1>6. CASE WrappedFunction
  <2>1. CASE InvalidNumberOfArguments \/ NotConvertible \/ BodyThrows
    BY <1>2, <2>1, ExceptionTypes DEF InvalidNumberOfArguments, NotConvertible, BodyThrows
  <2>2. CASE \/ NumberOfArguments \/ Converts \/ Converted \/ EntersBody
             \/ SetterReturns \/ BodyReturns \/ SetterThrows
    BY <1>1, <2>2 DEF NumberOfArguments, Converts, Converted, EntersBody, SetterReturns,
       BodyReturns, SetterThrows, exceptionVars, historyVars, Leaks
  <2>3. CASE ConversionFails
    BY <1>4, <2>3 DEF ConversionFails
  <2>4. CASE NativeCatches \/ PropagateExceptions
    BY <1>3, <2>4 DEF NativeCatches, PropagateExceptions, historyVars, Leaks
  <2> QED
    BY <1>6, <2>1, <2>2, <2>3, <2>4 DEF WrappedFunction
<1>7. CASE CallIntoJavaScript
  <2>1. CASE PushFails \/ ResultFails
    BY <1>2, <2>1, ExceptionTypes DEF PushFails, ResultFails
  <2>2. CASE CallBegins \/ PushArgument \/ Call \/ CallReturns \/ ResultConverted \/ CallRethrows
    BY <1>1, <2>2 DEF CallBegins, PushArgument, Call, CallReturns, ResultConverted, CallRethrows,
       exceptionVars, historyVars, Leaks
  <2>3. CASE GetException
    BY <1>4, <2>3 DEF GetException
  <2>4. CASE CallAbandons
    <3>1. cpp \in Exceptions /\ foreign
      BY <2>4 DEF CallAbandons, Errors, Faithful, Leaks
    <3>2. Top.refs \in Nat
      BY TopTypes, CallsAssumption DEF Owes
    <3>3. /\ leaked' = leaked + Top.refs
          /\ UNCHANGED <<foreign, uncatchable, cpp>>
      BY <2>4 DEF CallAbandons
    <3>4. leaked' \in Nat
      BY <3>2, <3>3 DEF Leaks
    <3> QED
      BY <3>1, <3>3, <3>4 DEF Leaks
  <2> QED
    BY <1>7, <2>1, <2>2, <2>3, <2>4 DEF CallIntoJavaScript
<1>8. CASE UNCHANGED vars
  BY <1>1, <1>8 DEF vars, exceptionVars, historyVars, Leaks
<1> QED
  BY <1>5, <1>6, <1>7, <1>8 DEF Next

-------------------------------------------------------------------------------
(* The theorems.                                                             *)

\* The machine starts with the embedder alone and nothing in flight.
LEMMA InitEstablishes == Init => IndInv
<1> SUFFICES ASSUME Init PROVE IndInv
  OBVIOUS
<1>1. Frame("embedder", "body") \in Frames /\ Owes(Frame("embedder", "body"))
  BY CallsAssumption DEF Frame, Frames, Native, Owes
<1>2. Frame("embedder", "body").kind = "embedder"
  BY DEF Frame
<1>3. 1 \in 1..MaxDepth
  BY CallsAssumption
<1>4. Stack
  BY <1>1, <1>2, <1>3 DEF Init, Stack
<1>5. Errors
  BY DEF Init, Errors, Faithful
<1>6. Flag
  BY DEF Init, Flag
<1>7. Counter
  BY CallsAssumption DEF Init, Counter
<1>8. Leaks
  <2>1. foreign = FALSE /\ uncatchable = FALSE /\ leaked = 0 /\ cpp = NoException
    BY DEF Init
  <2>2. leaked \in Nat /\ ~(leaked > 0)
    BY <2>1
  <2>3. foreign \in BOOLEAN /\ uncatchable \in BOOLEAN
    BY <2>1
  <2> QED
    BY <2>1, <2>2, <2>3, ExceptionTypes DEF Leaks
<1> QED
  BY <1>4, <1>5, <1>6, <1>7, <1>8 DEF IndInv

\* The stack, what is in flight and the history, together, are an invariant.
THEOREM Invariance == Spec => []IndInv
<1>1. IndInv /\ [Next]_vars => IndInv'
  BY StackStep, ErrorsStep, FlagStep, CounterStep, LeaksStep DEF IndInv
<1> QED
  BY InitEstablishes, <1>1, PTL DEF Spec

\* Every variable keeps its type, for any depth of nested calls.
THEOREM TypeCorrect == Spec => []TypeOK
<1>1. IndInv => TypeOK
  BY DEF IndInv, Stack, Errors, Flag, Counter, Leaks, TypeOK
<1> QED
  BY Invariance, <1>1, PTL

\* What was thrown is what arrives, through any number of C++ and JavaScript frames.
THEOREM ExceptionsAreFaithful == Spec => []Faithful
<1>1. IndInv => Faithful
  BY DEF IndInv, Errors
<1> QED
  BY Invariance, <1>1, PTL

\* The arguments of a call into JavaScript are freed once on each path out of it by a return
\* or a jac::Exception; what leaks, a foreign exception has abandoned.
THEOREM ArgumentsAreFreed == Spec => []ArgumentsFreedOnce
<1>1. IndInv => ArgumentsFreedOnce
  BY DEF IndInv, Stack, Owes, Leaks, ArgumentsFreedOnce
<1> QED
  BY Invariance, <1>1, PTL

-------------------------------------------------------------------------------
(* The exceptions as the program sees them.                                  *)

IsScript(i) == frame[i].kind = "js"

\* C++ and JavaScript frames take turns: what the refinement needs beyond IndInv.
Alternates == \A i \in 1..(depth - 1) : IsScript(i + 1) <=> ~IsScript(i)

\* What a step may do to the stack.
Stays == depth' = depth /\ \A i \in 1..depth : IsScript(i)' <=> IsScript(i)

Grows ==
  /\ depth' = depth + 1
  /\ \A i \in 1..depth : IsScript(i)' <=> IsScript(i)
  /\ \A i \in 1..MaxDepth : i = depth + 1 => (IsScript(i)' <=> ~IsScript(depth))

Shrinks ==
  /\ depth > 1 /\ depth' = depth - 1
  /\ \A i \in 1..(depth - 1) : IsScript(i)' <=> IsScript(i)

\* A frame that goes on is the frame it was.
LEMMA GoesStays ==
  ASSUME Stack, UNCHANGED depth, NEW g \in Frames, g.kind = Top.kind,
         frame' = [frame EXCEPT ![depth] = g]
  PROVE  Stays
  BY DEF Stack, Stays, IsScript, Top

\* A call between the languages makes the stack grow by a frame of the other one.
LEMMA PushGrows ==
  ASSUME Stack, NEW k, NEW place, NEW from, Push(Frame(k, place), from),
         k = "js" <=> Top.kind # "js"
  PROVE  Grows
<1> DEFINE g == [Top EXCEPT !.at = from]
<1>1. /\ depth \in 1..MaxDepth /\ depth + 1 \in 1..MaxDepth /\ depth # depth + 1
      /\ depth' = depth + 1 /\ MaxDepth \in Nat
  BY CallsAssumption DEF Stack, Push
<1>2. frame' = [frame EXCEPT ![depth] = g, ![depth + 1] = Frame(k, place)]
  BY DEF Push, Top
<1>3. Top \in Frames /\ g.kind = Top.kind
  BY DEF Stack, Top, Frames
<1>4. /\ frame'[depth] = g /\ frame'[depth + 1] = Frame(k, place)
      /\ \A i \in 1..MaxDepth \ {depth, depth + 1} : frame'[i] = frame[i]
  BY <1>1, <1>2 DEF Stack
<1>5. Frame(k, place).kind = k
  BY DEF Frame
<1>6. ASSUME NEW i \in 1..depth PROVE IsScript(i)' <=> IsScript(i)
  <2>1. i = depth \/ i \in 1..MaxDepth \ {depth, depth + 1}
    BY <1>1
  <2> QED
    BY <1>3, <1>4, <2>1 DEF IsScript, Top
<1>7. ASSUME NEW i \in 1..MaxDepth, i = depth + 1 PROVE IsScript(i)' <=> ~IsScript(depth)
  BY <1>4, <1>5, <1>7 DEF IsScript, Top
<1> QED
  BY <1>1, <1>6, <1>7 DEF Grows

\* The end of a frame leaves the ones below.
LEMMA PopShrinks ==
  ASSUME Stack, Top.kind # "embedder", Pop
  PROVE  Shrinks
<1>1. depth \in 2..MaxDepth
  BY CallsAssumption DEF Stack, Top
<1>2. \A i \in 1..(depth - 1) : frame'[i] = frame[i]
  BY <1>1, CallsAssumption DEF Pop, Stack
<1> QED
  BY <1>1, <1>2 DEF Shrinks, IsScript, Pop

\* The language of the top frame after a step of each kind.
LEMMA TopScript ==
  ASSUME Stack, Stack', Alternates
  PROVE  /\ Stays   => ((Top.kind = "js")' <=> Top.kind = "js") /\ Alternates'
         /\ Grows   => ((Top.kind = "js")' <=> Top.kind # "js") /\ Alternates'
         /\ Shrinks => ((Top.kind = "js")' <=> Top.kind # "js") /\ Alternates'
<1>1. /\ depth \in 1..MaxDepth /\ depth' \in 1..MaxDepth /\ MaxDepth \in Nat
      /\ (Top.kind = "js" <=> IsScript(depth))
  BY CallsAssumption DEF Stack, Top, IsScript
<1>2. ASSUME NEW i \in 1..MaxDepth, i = depth' PROVE (Top.kind = "js")' <=> IsScript(i)'
  BY <1>2 DEF Top, IsScript
<1>3. Stays => ((Top.kind = "js")' <=> Top.kind = "js") /\ Alternates'
  BY <1>1, <1>2 DEF Stays, Alternates
<1>4. ASSUME Grows PROVE ((Top.kind = "js")' <=> Top.kind # "js") /\ Alternates'
  <2>1. (Top.kind = "js")' <=> Top.kind # "js"
    BY <1>1, <1>2, <1>4 DEF Grows
  <2>2. ASSUME NEW i \in 1..(depth' - 1) PROVE IsScript(i + 1)' <=> ~IsScript(i)'
    <3>1. CASE i = depth
      BY <1>1, <1>4, <2>2, <3>1 DEF Grows
    <3>2. CASE i # depth
      <4>1. i \in 1..(depth - 1) /\ i \in 1..depth /\ i + 1 \in 1..depth
        BY <1>1, <1>4, <2>2, <3>2 DEF Grows
      <4> QED
        BY <1>4, <4>1 DEF Grows, Alternates
    <3> QED
      BY <3>1, <3>2
  <2> QED
    BY <2>1, <2>2 DEF Alternates
<1>5. ASSUME Shrinks PROVE ((Top.kind = "js")' <=> Top.kind # "js") /\ Alternates'
  <2>1. depth - 1 \in 1..(depth - 1) /\ depth - 1 \in 1..MaxDepth /\ depth' = depth - 1
        /\ depth = (depth - 1) + 1
    BY <1>1, <1>5 DEF Shrinks
  <2>2. IsScript(depth) <=> ~IsScript(depth - 1)
    BY <2>1 DEF Alternates
  <2>3. (Top.kind = "js")' <=> Top.kind # "js"
    BY <1>1, <1>2, <1>5, <2>1, <2>2 DEF Shrinks
  <2>4. ASSUME NEW i \in 1..(depth' - 1) PROVE IsScript(i + 1)' <=> ~IsScript(i)'
    <3>1. i \in 1..(depth - 1) /\ i + 1 \in 1..(depth - 1)
      BY <1>1, <2>1, <2>4
    <3> QED
      BY <1>5, <3>1 DEF Shrinks, Alternates
  <2> QED
    BY <2>3, <2>4 DEF Alternates
<1> QED
  BY <1>3, <1>4, <1>5

CallsOther == JSCallsNative \/ Converts \/ Call

\* A call runs code of the other language.
LEMMA CallsGrow == Stack /\ CallsOther => Grows
<1> SUFFICES ASSUME Stack, CallsOther PROVE Grows
  OBVIOUS
<1>1. CASE JSCallsNative
  BY <1>1, PushGrows DEF JSCallsNative, JSRuns
<1>2. CASE Converts \/ Call
  <2>1. Top.kind # "js"
    BY <1>2 DEF Converts, Call, InNative, Native
  <2> QED
    BY <1>2, <2>1, PushGrows DEF Converts, Call
<1> QED
  BY <1>1, <1>2 DEF CallsOther

LeavesFrame ==
  JSReturns \/ JSThrows \/ JSUnwinds \/ SetterReturns \/ BodyReturns \/ PropagateExceptions

\* No other frame than the top one ends, and never the embedder's.
LEMMA LeavesShrink == Stack /\ LeavesFrame => Shrinks
<1> SUFFICES ASSUME Stack, LeavesFrame PROVE Shrinks
  OBVIOUS
<1>1. Pop /\ Top.kind # "embedder"
  BY DEF LeavesFrame, JSReturns, JSThrows, JSUnwinds, JSRuns, SetterReturns, BodyReturns,
     PropagateExceptions
<1> QED
  BY <1>1, PopShrinks

GoesOn ==
  \/ NumberOfArguments \/ Converted \/ ConversionFails \/ EntersBody
  \/ CallBegins \/ PushArgument \/ CallReturns \/ GetException \/ ResultConverted
  \/ CallRethrows \/ CallAbandons

\* The frame goes on to another place of its code.
LEMMA GoesOnStays == Stack /\ GoesOn => Stays
<1> SUFFICES ASSUME Stack, GoesOn PROVE Stays
  OBVIOUS
<1>1. Top \in Frames /\ Owes(Top) /\ Top.vals \in 0..MaxArgs /\ Top.refs \in Int
  BY TopTypes
<1>2. ASSUME NEW place \in {"arguments", "body", "push"}, Goes(place) PROVE Stays
  <2> DEFINE g == [Top EXCEPT !.at = place]
  <2>1. g \in Frames /\ g.kind = Top.kind
    BY <1>1 DEF Frames
  <2>2. frame' = [frame EXCEPT ![depth] = g] /\ UNCHANGED depth
    BY <1>2 DEF Goes, Top
  <2> QED
    BY <2>1, <2>2, GoesStays
<1>3. ASSUME UNCHANGED <<depth, frame>> PROVE Stays
  BY <1>3 DEF Stays, IsScript
<1>4. CASE NumberOfArguments \/ Converted \/ ConversionFails \/ EntersBody \/ CallBegins
  BY <1>2, <1>4 DEF NumberOfArguments, Converted, ConversionFails, EntersBody, CallBegins,
     AfterConversion
<1>5. CASE GetException
  BY <1>2, <1>3, <1>5 DEF GetException, ReturnsToValue
<1>6. CASE PushArgument \/ CallReturns \/ ResultConverted \/ CallRethrows \/ CallAbandons
  <2> USE DEF PushArgument, CallReturns, ResultConverted, CallRethrows, CallAbandons
  <2>1. depth' = depth
    BY <1>6
  <2>2. frame \in [1..MaxDepth -> Frames] /\ depth \in 1..MaxDepth
    BY DEF Stack
  <2>3. \A i \in 1..MaxDepth : i # depth => frame'[i] = frame[i]
    BY <1>6, <2>2
  <2>4. frame'[depth].kind = frame[depth].kind
    BY <1>6, <2>2 DEF Frames
  <2>5. \A i \in 1..depth : i \in 1..MaxDepth
    BY <2>2, CallsAssumption
  <2> QED
    BY <2>1, <2>3, <2>4, <2>5 DEF Stays, IsScript
<1> QED
  BY <1>4, <1>5, <1>6 DEF GoesOn

\* The other steps do not touch the stack.
LEMMA OthersStay ==
  [Next]_vars => CallsOther \/ LeavesFrame \/ GoesOn \/ UNCHANGED <<depth, frame>>
<1> SUFFICES ASSUME [Next]_vars
             PROVE  CallsOther \/ LeavesFrame \/ GoesOn \/ UNCHANGED <<depth, frame>>
  OBVIOUS
<1>1. CASE JavaScript
  BY <1>1 DEF JavaScript, JSCatches, CallsOther, LeavesFrame
<1>2. CASE WrappedFunction
  BY <1>2 DEF WrappedFunction, InvalidNumberOfArguments, NotConvertible, BodyThrows, NativeCatches,
     SetterThrows, CallsOther, LeavesFrame, GoesOn
<1>3. CASE CallIntoJavaScript
  BY <1>3 DEF CallIntoJavaScript, PushFails, ResultFails, CallsOther, GoesOn
<1> QED
  BY <1>1, <1>2, <1>3 DEF Next, vars

\* A step leaves the turns of the frames as they are, or adds or takes one.
LEMMA AlternatesStep == Stack /\ Stack' /\ Alternates /\ [Next]_vars => Alternates'
<1>1. UNCHANGED <<depth, frame>> => Stays
  BY DEF Stays, IsScript
<1> QED
  BY <1>1, OthersStay, CallsGrow, LeavesShrink, GoesOnStays, TopScript

-------------------------------------------------------------------------------
(* The steps, as those of ExceptionFlow.                                     *)

\* What is in flight is in flight for the program.
LEMMA InFlightIs ==
  ASSUME Errors
  PROVE  /\ None \notin Thrown
         /\ mode = "run" => InFlight = None
         /\ mode = "jsException" => InFlight = current /\ current \in Thrown
         /\ mode = "cppException" =>
              InFlight = Documented(cpp) /\ cpp \in Exceptions /\ InFlight \in Thrown
<1>1. None \notin Thrown
  BY CallsAssumption DEF Thrown
<1> QED
  BY <1>1, ExceptionTypes DEF Errors, Faithful, InFlight

\* An exception that starts in C++ code stays in its frame.
LEMMA CppThrowIs ==
  ASSUME Errors, NEW e \in Exceptions, CppThrows(e)
  PROVE  mode' = "cppException" /\ InFlight' = Documented(e) /\ InFlight' \in Thrown
  BY ExceptionTypes DEF CppThrows, InFlight

\* The program begins with the embedder and nothing in flight.
LEMMA FlowInit == Init => ExceptionView!Init /\ Alternates
<1> SUFFICES ASSUME Init PROVE ExceptionView!Init /\ Alternates
  OBVIOUS
<1>1. Top.kind = "embedder"
  BY CallsAssumption DEF Init, Top, Frame
<1>2. Top.at = "body" /\ InFlight = None
  BY CallsAssumption DEF Init, Top, Frame, InFlight
<1> QED
  BY <1>1, <1>2 DEF Init, ExceptionView!Init, Alternates

\* Every step under the mapping is one of ExceptionFlow, or only changes the form of what
\* is in flight.
LEMMA FlowStep ==
  IndInv /\ IndInv' /\ Alternates /\ [Next]_vars
    => [ExceptionView!Next]_(ExceptionView!vars)
<1> SUFFICES ASSUME IndInv, IndInv', Alternates, [Next]_vars
             PROVE  ExceptionView!Next
  OBVIOUS
<1>1. Stack /\ Stack' /\ Errors /\ Errors'
  BY DEF IndInv
<1>2. ASSUME Stays PROVE UNCHANGED <<depth, Top.kind = "js">>
  BY <1>1, <1>2, TopScript DEF Stays
<1>3. UNCHANGED <<depth, frame>> => Stays
  BY DEF Stays, IsScript
<1>4. ASSUME Shrinks PROVE ExceptionView!Leaves
  BY <1>1, <1>4, TopScript DEF Shrinks, ExceptionView!Leaves
<1>5. CASE CallsOther
  <2>1. mode = "run" /\ mode' = "run"
    BY <1>5 DEF CallsOther, JSCallsNative, JSRuns, Converts, Call
  <2>2. depth' = depth + 1 /\ ((Top.kind = "js")' <=> Top.kind # "js")
    BY <1>1, <1>5, CallsGrow, TopScript DEF Grows
  <2>3. InFlight = None /\ InFlight' = None
    BY <1>1, <2>1, InFlightIs DEF InFlight
  <2>4. ExceptionView!Calls
    BY <2>2, <2>3 DEF ExceptionView!Calls
  <2> QED
    BY <2>4 DEF ExceptionView!Next
<1>6. CASE LeavesFrame
  <2>1. ExceptionView!Leaves
    BY <1>1, <1>4, <1>6, LeavesShrink
  <2>2. CASE JSReturns \/ SetterReturns \/ BodyReturns
    <3>1. InFlight = None /\ InFlight' = None
      BY <2>2 DEF JSReturns, JSRuns, SetterReturns, BodyReturns, InFlight
    <3> QED
      BY <2>1, <3>1 DEF ExceptionView!Next, ExceptionView!Returns
  <2>3. CASE JSUnwinds
    <3>1. InFlight = current /\ InFlight # None /\ InFlight' = InFlight
      BY <1>1, <2>3, InFlightIs DEF JSUnwinds, exceptionVars, historyVars, InFlight
    <3> QED
      BY <2>1, <3>1 DEF ExceptionView!Next, ExceptionView!Unwinds
  <2>4. CASE JSThrows
    <3>1. Top.kind = "js" /\ mode = "run" /\ mode' = "jsException" /\ current' \in Thrown
      BY <2>4 DEF JSThrows, JSRuns, Thrown
    <3>2. InFlight = None /\ InFlight' \in Thrown
      BY <3>1 DEF InFlight
    <3> QED
      BY <2>1, <3>1, <3>2 DEF ExceptionView!Next, ExceptionView!Throws
  <2>5. CASE PropagateExceptions
    <3>1. mode = "cppException" /\ mode' = "jsException" /\ current' = CaughtAs(cpp)
      BY <2>5 DEF PropagateExceptions
    <3>2. InFlight = Documented(cpp) /\ InFlight # None /\ CaughtAs(cpp) = Documented(cpp)
      BY <1>1, <3>1, InFlightIs, ExceptionTypes
    <3>3. InFlight' = InFlight
      BY <3>1, <3>2 DEF InFlight
    <3> QED
      BY <2>1, <3>2, <3>3 DEF ExceptionView!Next, ExceptionView!Unwinds
  <2> QED
    BY <1>6, <2>2, <2>3, <2>4, <2>5 DEF LeavesFrame
<1>7. CASE GoesOn
  <2>1. UNCHANGED <<depth, Top.kind = "js">>
    BY <1>1, <1>2, <1>7, GoesOnStays
  <2>2. CASE ConversionFails \/ GetException
    <3>1. mode = "jsException" /\ mode' = "cppException" /\ Top.kind # "js" /\ Top.at # "body"
      BY <2>2 DEF ConversionFails, GetException, ReturnsToValue, InNative, Native
    <3>2. InFlight = current /\ InFlight # None /\ InFlight' = Documented(cpp')
      BY <1>1, <3>1, InFlightIs DEF InFlight, Documented
    <3>3. Documented(cpp') \in {"TypeError", "InternalError"} \/ Documented(cpp') = current
      BY <2>2 DEF ConversionFails, GetException, Documented
    <3> QED
      BY <2>1, <3>1, <3>2, <3>3 DEF ExceptionView!Next, ExceptionView!Replaces, ExceptionView!Proceeds
  <2>3. CASE ~ConversionFails /\ ~GetException
    <3>1. UNCHANGED <<mode, current, cpp>>
      BY <1>7, <2>3 DEF GoesOn, NumberOfArguments, Converted, EntersBody, CallBegins, PushArgument,
         CallReturns, ResultConverted, CallRethrows, CallAbandons, exceptionVars, historyVars
    <3>2. InFlight' = InFlight
      BY <3>1 DEF InFlight, Documented
    <3> QED
      BY <2>1, <3>2 DEF ExceptionView!Next, ExceptionView!Proceeds
  <2> QED
    BY <2>2, <2>3
<1>8. CASE InvalidNumberOfArguments \/ NotConvertible \/ BodyThrows \/ PushFails \/ ResultFails
  <2>1. UNCHANGED <<depth, frame>> /\ mode = "run" /\ Top.kind # "js"
    BY <1>8 DEF InvalidNumberOfArguments, NotConvertible, BodyThrows, PushFails, ResultFails,
       InNative, Native
  <2>2. PICK e \in Exceptions : CppThrows(e)
    BY <1>8, ExceptionTypes DEF InvalidNumberOfArguments, NotConvertible, BodyThrows, PushFails,
       ResultFails
  <2>3. InFlight = None /\ InFlight' \in Thrown
    BY <1>1, <2>1, <2>2, InFlightIs, CppThrowIs
  <2> QED
    BY <1>2, <1>3, <2>1, <2>3 DEF ExceptionView!Next, ExceptionView!Throws
<1>9. CASE JSCatches \/ NativeCatches
  <2>1. UNCHANGED <<depth, frame>> /\ mode' = "run"
    BY <1>9 DEF JSCatches, NativeCatches
  <2>2. InFlight # None /\ InFlight' = None
    BY <1>1, <1>9, <2>1, InFlightIs DEF JSCatches, NativeCatches, InFlight
  <2>3. Top.kind = "js" \/ Top.at = "body"
    BY <1>9 DEF JSCatches, NativeCatches, InNative
  <2> QED
    BY <1>2, <1>3, <2>1, <2>2, <2>3 DEF ExceptionView!Next, ExceptionView!Catches
<1>10. CASE SetterThrows \/ UNCHANGED vars
  <2>1. UNCHANGED <<depth, frame>> /\ InFlight' = InFlight
    BY <1>10 DEF SetterThrows, vars, exceptionVars, historyVars, InFlight, Documented
  <2> QED
    BY <1>2, <1>3, <2>1 DEF ExceptionView!Next, ExceptionView!Proceeds
<1>11. ~UNCHANGED vars => JavaScript \/ WrappedFunction \/ CallIntoJavaScript
  BY DEF Next
<1> QED
  BY <1>5, <1>6, <1>7, <1>8, <1>9, <1>10, <1>11
  DEF JavaScript, WrappedFunction, CallIntoJavaScript, CallsOther, LeavesFrame, GoesOn

\* The catch clauses, the runtime's current exception and the rethrows pass one exception on
\* until the program catches it, and drop none.
THEOREM CallsImplementFlow == Spec => ImplementsExceptionFlow
<1>1. IndInv /\ Alternates /\ [Next]_vars => IndInv' /\ Alternates'
  BY StackStep, ErrorsStep, FlagStep, CounterStep, LeaksStep, AlternatesStep DEF IndInv
<1>2. IndInv /\ Alternates /\ [Next]_vars => [ExceptionView!Next]_(ExceptionView!vars)
  BY <1>1, FlowStep
<1> QED
  BY <1>1, <1>2, InitEstablishes, FlowInit, PTL
  DEF Spec, ImplementsExceptionFlow, ExceptionView!Spec

===============================================================================
