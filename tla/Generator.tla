----------------------------- MODULE Generator -----------------------------
(***************************************************************************)
(* Generator objects (Runtime/Generator.cs) as one thread uses them: next, *)
(* send, throw and close from the program and from the bodies of other     *)
(* generators, or of the same one.  What a call passes to the body travels *)
(* through two fields, which the body reads where it resumes.              *)
(***************************************************************************)
EXTENDS Naturals, Sequences, SequencesExt

CONSTANTS
    Generators,
    CanSetSysExcInfo,   \* those whose function has an except clause
    Sent,               \* values for send
    Thrown,             \* exceptions for throw, and those that bodies raise
    None                \* null

\* "Error" is the ValueError, TypeError or RuntimeError of a call, which nothing
\* here tells apart.
Errors == {"StopIteration", "GeneratorExit", "Error"}
Raisable == Thrown \cup Errors
Passed == Sent \cup Thrown \cup {"GeneratorExit", None}

ASSUME HandlersAssumption == CanSetSysExcInfo \subseteq Generators
ASSUME ValuesAssumption == None \notin Sent \cup Raisable /\ Sent \cap Raisable = {}

VARIABLES
    state,      \* State: what the body's switch jumps to
    closed,     \* the flag Closed
    active,     \* _active
    excInfo,    \* _excInfo
    sendValue,  \* _sendValue
    current,    \* the thread's current exception, for sys.exc_info()
    stack,      \* the bodies that run, the innermost last
    result,     \* what the call that has just returned raised, or None
    refused     \* history: a refused call may have left something in a field

fields == <<excInfo, sendValue, refused>>
vars == <<state, closed, active, fields, current, stack, result>>
-----------------------------------------------------------------------------
(* A body that runs: its generator, the call that resumed it and what the    *)
(* call passed, what the body got, the exception that was current at the     *)
(* call (save), and the one that is on its way out of the body (raising).    *)

Frame == [gen : Generators, meth : {"next", "MoveNext", "send", "throw", "close"},
          passed : Passed, got : Passed, save : Raisable \cup {None}, raising : Raisable \cup {None}]

Top == Last(stack)
BodyRuns == stack # <<>> /\ Top.raising = None
CanCall == stack = <<>> \/ BodyRuns

Init ==
    /\ state = [g \in Generators |-> "NotStarted"]
    /\ closed = [g \in Generators |-> FALSE]
    /\ active = [g \in Generators |-> FALSE]
    /\ excInfo = [g \in Generators |-> None]
    /\ sendValue = [g \in Generators |-> None]
    /\ refused = [g \in Generators |-> FALSE]
    /\ current \in Thrown \cup {None}
    /\ stack = <<>>
    /\ result = None

\* A call returns to its caller, the last of the bodies s, or to the program,
\* and raises how there unless it is None.
ReturnTo(s, how) ==
    /\ result' = how
    /\ stack' = IF s = <<>> THEN s ELSE Append(Front(s), [Last(s) EXCEPT !.raising = how])
-----------------------------------------------------------------------------
(* The calls, from the program or from the body that runs.                   *)

\* Variant: send() sets the wrong field.
ExcInfoOfAny(g, meth, passed) ==
    IF meth \in {"throw", "close", "send"} THEN passed ELSE excInfo[g]

\* What the fields hold once the call has set them.
ExcInfoOf(g, meth, passed) == IF meth \in {"throw", "close"} THEN passed ELSE excInfo[g]

SendValueOf(g, meth, passed) == IF meth = "send" THEN passed ELSE sendValue[g]

\* Variant: the flag is reset on this way out as well.
RefuseResets(g, meth, passed) ==
    /\ active[g]
    /\ ReturnTo(stack, "Error")
    /\ excInfo' = [excInfo EXCEPT ![g] = ExcInfoOf(g, meth, passed)]
    /\ sendValue' = [sendValue EXCEPT ![g] = SendValueOf(g, meth, passed)]
    /\ refused' = [refused EXCEPT ![g] = @ \/ passed # None]
    /\ active' = [active EXCEPT ![g] = FALSE]

\* CheckSetActive raises ValueError; the fields keep what the call has put there.
Refuse(g, meth, passed) ==
    /\ active[g]
    /\ ReturnTo(stack, "Error")
    /\ excInfo' = [excInfo EXCEPT ![g] = ExcInfoOf(g, meth, passed)]
    /\ sendValue' = [sendValue EXCEPT ![g] = SendValueOf(g, meth, passed)]
    /\ refused' = [refused EXCEPT ![g] = @ \/ passed # None]
    /\ UNCHANGED active

\* Variant: the exception stays for the next resume.
CheckThrowableTwice(exc, val) ==
    IF val # None THEN [got |-> val, left |-> exc] ELSE [got |-> exc, left |-> exc]

\* A value that was sent goes first, and an exception stays where it is.
CheckThrowableAndReturnSendValue(exc, val) ==
    IF val # None THEN [got |-> val, left |-> exc] ELSE [got |-> exc, left |-> None]

\* The body resumes and reads the fields.
Resume(g, meth, passed) ==
    LET check == CheckThrowableAndReturnSendValue(ExcInfoOf(g, meth, passed),
                                                  SendValueOf(g, meth, passed))
    IN  /\ ~active[g]
        /\ active' = [active EXCEPT ![g] = TRUE]
        /\ excInfo' = [excInfo EXCEPT ![g] = check.left]
        /\ sendValue' = [sendValue EXCEPT ![g] = None]
        /\ refused' = [refused EXCEPT ![g] = @ /\ check.left # None]
        /\ stack' = Append(stack, [gen |-> g, meth |-> meth, passed |-> passed, got |-> check.got,
                                   save |-> current,
                                   raising |-> IF check.got \in Raisable THEN check.got ELSE None])
        /\ result' = None

\* A closed generator ends next() and a loop, and gives an exception back;
\* what is sent to it stays in the field.
AnswerClosed(g, meth, passed) ==
    /\ ReturnTo(stack, CASE meth \in {"next", "send"} -> "StopIteration"
                         [] meth \in {"MoveNext", "close"} -> None
                         [] meth = "throw" -> passed)
    /\ excInfo' = IF meth = "throw" THEN [excInfo EXCEPT ![g] = None] ELSE excInfo
    /\ sendValue' = [sendValue EXCEPT ![g] = SendValueOf(g, meth, passed)]
    /\ UNCHANGED <<active, refused>>

\* The state is NotStarted until the first yield, even while the body runs: TypeError.
RefuseToSend ==
    /\ ReturnTo(stack, "Error")
    /\ UNCHANGED <<active, fields>>

Call(g, meth, passed) ==
    /\ CanCall
    /\ UNCHANGED <<state, closed, current>>
    /\ IF meth = "send" /\ passed # None /\ state[g] = "NotStarted"
       THEN RefuseToSend
       ELSE \/ closed[g] /\ AnswerClosed(g, meth, passed)
            \/ ~closed[g] /\ (Refuse(g, meth, passed) \/ Resume(g, meth, passed))

Advance(g) == Call(g, "next", None)
MoveNext(g) == Call(g, "MoveNext", None)
Send(g) == \E v \in Sent \cup {None} : Call(g, "send", v)
Throw(g) == \E e \in Thrown : Call(g, "throw", e)
Close(g) == Call(g, "close", "GeneratorExit")
-----------------------------------------------------------------------------
(* What the body does.                                                       *)

\* An exception at the start of the body is raised before its first statement.
AtStart == state[Top.gen] = "NotStarted" /\ Top.got # None

\* An except clause, which makes the exception the current one.
Catch ==
    /\ stack # <<>> /\ Top.raising # None
    /\ Top.gen \in CanSetSysExcInfo /\ ~AtStart
    /\ current' = Top.raising /\ result' = None
    /\ stack' = Append(Front(stack), [Top EXCEPT !.raising = None])
    /\ UNCHANGED <<state, closed, active, fields>>

\* A finally clause: the exception waits until the clause is over, which may then
\* let it go on (Raise) but may also yield, return or raise another before.
Finally ==
    /\ stack # <<>> /\ Top.raising # None /\ ~AtStart
    /\ stack' = Append(Front(stack), [Top EXCEPT !.raising = None])
    /\ result' = None
    /\ UNCHANGED <<state, closed, active, fields, current>>

\* sys.exc_clear(), from the program or from any body.
ExcClear ==
    /\ CanCall
    /\ current' = None /\ result' = None
    /\ UNCHANGED <<state, closed, active, fields, stack>>

\* An exception of the body's own, one it raises again, or that of something it calls.
Raise ==
    /\ BodyRuns
    /\ \E e \in Raisable :
          stack' = Append(Front(stack), [Top EXCEPT !.raising = e])
    /\ result' = None
    /\ UNCHANGED <<state, closed, active, fields, current>>

\* Variant: the current exception is restored by next() and send() only.
RestoreAfterNext(frame) ==
    current' = IF frame.gen \in CanSetSysExcInfo /\ frame.meth \in {"next", "send"}
               THEN frame.save ELSE current

RestoreCurrentException(frame) ==
    current' = IF frame.gen \in CanSetSysExcInfo THEN frame.save ELSE current

Leave(how) ==
    /\ active' = [active EXCEPT ![Top.gen] = FALSE]
    /\ RestoreCurrentException(Top)
    /\ ReturnTo(Front(stack), how)
    /\ UNCHANGED fields

\* Variant: close() does not mind a generator that goes on.
YieldFromClose ==
    /\ BodyRuns
    /\ state' = [state EXCEPT ![Top.gen] = "yielded"]
    /\ Leave(None)
    /\ UNCHANGED closed

\* close() does not expect a value: RuntimeError.
Yield ==
    /\ BodyRuns
    /\ state' = [state EXCEPT ![Top.gen] = "yielded"]
    /\ Leave(IF Top.meth = "close" THEN "Error" ELSE None)
    /\ UNCHANGED closed

\* The end of the body, or a return statement.
Return ==
    /\ BodyRuns
    /\ state' = [state EXCEPT ![Top.gen] = "Finished"]
    /\ closed' = [closed EXCEPT ![Top.gen] = TRUE]
    /\ Leave(IF Top.meth \in {"MoveNext", "close"} THEN None ELSE "StopIteration")

\* An exception leaves the body; the state stays that of the last yield.
Propagate ==
    LET swallowed == CASE Top.meth = "MoveNext" -> {"StopIteration"}
                       [] Top.meth = "close" -> {"StopIteration", "GeneratorExit"}
                       [] OTHER -> {}
    IN  /\ stack # <<>> /\ Top.raising # None
        /\ closed' = [closed EXCEPT ![Top.gen] = TRUE]
        /\ Leave(IF Top.raising \in swallowed THEN None ELSE Top.raising)
        /\ UNCHANGED state
-----------------------------------------------------------------------------
Next ==
    \/ \E g \in Generators : Advance(g) \/ MoveNext(g) \/ Send(g) \/ Throw(g) \/ Close(g)
    \/ Catch \/ Finally \/ ExcClear \/ Raise \/ Yield \/ Return \/ Propagate

Spec == Init /\ [][Next]_vars
-----------------------------------------------------------------------------
TypeOK ==
    /\ state \in [Generators -> {"NotStarted", "yielded", "Finished"}]
    /\ closed \in [Generators -> BOOLEAN] /\ active \in [Generators -> BOOLEAN]
    /\ excInfo \in [Generators -> Thrown \cup {"GeneratorExit", None}]
    /\ sendValue \in [Generators -> Sent \cup {None}]
    /\ refused \in [Generators -> BOOLEAN]
    /\ current \in Raisable \cup {None} /\ result \in Raisable \cup {None}
    /\ stack \in Seq(Frame)

\* A generator is marked active exactly while its body runs, it never runs
\* twice at a time, whatever was refused, and a closed one does not run at all.
BodiesRunAlone ==
    /\ \A i, j \in DOMAIN stack : stack[i].gen = stack[j].gen => i = j
    /\ \A g \in Generators : active[g] <=> \E i \in DOMAIN stack : stack[i].gen = g
    /\ \A g \in Generators : closed[g] => ~active[g]

Resumed == Len(stack') > Len(stack)
Left == Len(stack') < Len(stack)

\* The body gets what the call that resumes it passes, and once; only a call
\* that was refused can leave behind something to be delivered in its place.
DeliveryIsExact ==
    [][Resumed => Last(stack').got = Last(stack').passed \/ refused[Last(stack').gen]]_vars

\* When a call is over the current exception is that of the caller again, also
\* if the body catches exceptions of generators it has called in turn.  Only a
\* body without an except clause may lose it, to a sys.exc_clear(), since for
\* it nothing is restored; no other exception ever appears in its place.
ExcInfoIsRestored ==
    [][Left => \/ current' = Top.save
               \/ Top.gen \notin CanSetSysExcInfo /\ current' = None]_vars

\* close() that returns without an exception has closed the generator.
CloseClosesIt == [][Left /\ Top.meth = "close" /\ result' = None => closed'[Top.gen]]_vars

\* "Can't Send() and Throw() at the same time": no exception is pending when
\* the body gets a value.
NotSentAndThrown ==
    [][Resumed /\ Last(stack').got \in Sent => excInfo'[Last(stack').gen] = None]_vars
=============================================================================
