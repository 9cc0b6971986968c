-------------------------- MODULE GeneratorProofs --------------------------
(***************************************************************************)
(* Generators of one thread, for any number of them, any values and any    *)
(* depth of calls: bodies run alone, get what was passed to them and give  *)
(* their callers the current exception back.                               *)
(***************************************************************************)
EXTENDS Generator, SequenceTheorems, TLAPS

(* The parts of the invariant, of a stack s, so that each can be followed    *)
(* through the three ways in which an action changes the stack.              *)

Alone(s, act) ==
    /\ \A i, j \in 1 .. Len(s) : s[i].gen = s[j].gen => i = j
    /\ \A g \in Generators : act[g] <=> \E i \in 1 .. Len(s) : s[i].gen = g

\* A body that has no except clause runs, and calls others, with the exception
\* that was current when it was called, or with none if something cleared it.
Saved(s, cur) ==
    \A i \in 1 .. Len(s) : s[i].gen \notin CanSetSysExcInfo =>
        (IF i = Len(s) THEN cur ELSE s[i + 1].save) \in {s[i].save, None}

\* Only a refused call leaves something in a generator that is not closed.
Kept == \A g \in Generators :
    ~closed[g] /\ ~refused[g] => excInfo[g] = None /\ sendValue[g] = None

ClosedRest == \A g \in Generators : closed[g] => ~active[g]

IInv == TypeOK /\ Alone(stack, active) /\ Saved(stack, current) /\ Kept /\ ClosedRest

\* What a call may pass.
Passes(meth, passed) ==
    \/ meth \in {"next", "MoveNext"} /\ passed = None
    \/ meth = "send" /\ passed \in Sent \cup {None}
    \/ meth = "throw" /\ passed \in Thrown
    \/ meth = "close" /\ passed = "GeneratorExit"

\* The bodies of t are those of s, although exceptions may be on their way.
Same(s, t) ==
    /\ t \in Seq(Frame)
    /\ Len(t) = Len(s)
    /\ \A i \in 1 .. Len(s) : t[i].gen = s[i].gen /\ t[i].save = s[i].save
-----------------------------------------------------------------------------
(* Lemmas about stacks.                                                      *)

\* What remains of a stack of n + 1 frames.
LEMMA FrontOf ==
    ASSUME NEW s \in Seq(Frame), NEW n \in Nat, Len(s) = n + 1
    PROVE  /\ SubSeq(s, 1, n) \in Seq(Frame) /\ Len(SubSeq(s, 1, n)) = n
           /\ \A i \in 1 .. n : SubSeq(s, 1, n)[i] = s[i]
<1>1. \A i \in 1 .. n : s[i] \in Frame
  BY ElementOfSeq
<1>2. /\ SubSeq(s, 1, n) \in Seq(Frame)
      /\ Len(SubSeq(s, 1, n)) = IF 1 <= n THEN n - 1 + 1 ELSE 0
      /\ \A i \in 1 .. n - 1 + 1 : SubSeq(s, 1, n)[i] = s[1 + i - 1]
  BY <1>1, SubSeqProperties
<1> QED
  BY <1>2

\* The body that runs is a frame, and the rest of the stack is a stack.
LEMMA TopAndRest ==
    ASSUME NEW s \in Seq(Frame), s # <<>>
    PROVE  /\ Last(s) \in Frame /\ Last(s) = s[Len(s)]
           /\ Len(s) \in Nat \ {0}
           /\ Front(s) \in Seq(Frame) /\ Len(Front(s)) = Len(s) - 1
           /\ \A i \in 1 .. Len(s) - 1 : Front(s)[i] = s[i]
<1>1. Len(s) \in Nat \ {0} /\ \A i \in 1 .. Len(s) : s[i] \in Frame
  BY EmptySeq, LenProperties, ElementOfSeq
<1>2. PICK n \in Nat : Len(s) = n + 1
  BY <1>1
<1>3. Len(s) - 1 = n
  BY <1>2
<1>4. Front(s) = SubSeq(s, 1, n)
  BY <1>3 DEF Front
<1>5. Front(s) \in Seq(Frame) /\ Len(Front(s)) = n /\ \A i \in 1 .. n : Front(s)[i] = s[i]
  BY <1>2, <1>4, FrontOf
<1>6. Last(s) = s[Len(s)] /\ Last(s) \in Frame
  BY <1>1 DEF Last
<1> QED
  BY <1>1, <1>3, <1>5, <1>6

\* A frame stays a frame, of the same call, with another exception on its way.
LEMMA RaisingFrame ==
    ASSUME NEW f \in Frame, NEW e \in Raisable \cup {None}
    PROVE  /\ [f EXCEPT !.raising = e] \in Frame
           /\ [f EXCEPT !.raising = e].gen = f.gen
           /\ [f EXCEPT !.raising = e].save = f.save
  BY DEF Frame

\* Marking the exception on its way out of the top body leaves the bodies alone.
LEMMA RaisingSame ==
    ASSUME NEW s \in Seq(Frame), s # <<>>, NEW e \in Raisable \cup {None}
    PROVE  Same(s, Append(Front(s), [Last(s) EXCEPT !.raising = e]))
<1> DEFINE f == [Last(s) EXCEPT !.raising = e]
<1>1. f \in Frame /\ f.gen = Last(s).gen /\ f.save = Last(s).save
  BY TopAndRest, RaisingFrame
<1>2. /\ Append(Front(s), f) \in Seq(Frame)
      /\ Len(Append(Front(s), f)) = Len(Front(s)) + 1
      /\ \A i \in 1 .. Len(Front(s)) : Append(Front(s), f)[i] = Front(s)[i]
      /\ Append(Front(s), f)[Len(Front(s)) + 1] = f
  BY <1>1, TopAndRest, AppendProperties
<1> HIDE DEF f
<1>3. ASSUME NEW i \in 1 .. Len(s)
      PROVE  Append(Front(s), f)[i].gen = s[i].gen /\ Append(Front(s), f)[i].save = s[i].save
  <2>1. CASE i = Len(s)
    BY <1>1, <1>2, <2>1, TopAndRest
  <2>2. CASE i # Len(s)
    BY <1>2, <2>2, TopAndRest
  <2> QED
    BY <2>1, <2>2
<1>4. Same(s, Append(Front(s), f))
  BY <1>2, <1>3, TopAndRest DEF Same
<1> QED
  BY <1>4 DEF f

\* So does a call that returns to the last body of s or to the program.
LEMMA ReturnToSame ==
    ASSUME NEW s \in Seq(Frame), NEW how \in Raisable \cup {None}, ReturnTo(s, how)
    PROVE  Same(s, stack') /\ result' = how
<1>1. CASE s = <<>>
  BY <1>1 DEF ReturnTo, Same
<1>2. CASE s # <<>>
  BY <1>2, RaisingSame DEF ReturnTo
<1> QED
  BY <1>1, <1>2

\* The invariants speak of the bodies and not of what is on its way.
LEMMA SameKeeps ==
    ASSUME NEW s \in Seq(Frame), NEW t, Same(s, t), NEW act, NEW cur
    PROVE  /\ Alone(s, act) => Alone(t, act)
           /\ Saved(s, cur) => Saved(t, cur)
<1>1. Len(s) \in Nat
  BY LenProperties
<1> QED
  BY <1>1 DEF Same, Alone, Saved

\* A body that was not running is added.
LEMMA PushKeeps ==
    ASSUME NEW s \in Seq(Frame), NEW f \in Frame, NEW act \in [Generators -> BOOLEAN], NEW cur,
           Alone(s, act), Saved(s, cur), ~act[f.gen], f.save = cur
    PROVE  /\ Alone(Append(s, f), [act EXCEPT ![f.gen] = TRUE])
           /\ Saved(Append(s, f), cur)
<1> DEFINE t == Append(s, f)
<1>1. /\ Len(s) \in Nat /\ Len(t) = Len(s) + 1
      /\ \A i \in 1 .. Len(s) : t[i] = s[i]
      /\ t[Len(s) + 1] = f
  BY AppendProperties, LenProperties
<1>2. f.gen \in Generators /\ \A i \in 1 .. Len(s) : s[i].gen # f.gen
  BY DEF Alone, Frame
<1> HIDE DEF t
<1>3. Alone(t, [act EXCEPT ![f.gen] = TRUE])
  <2>1. ASSUME NEW i \in 1 .. Len(t), NEW j \in 1 .. Len(t), t[i].gen = t[j].gen PROVE i = j
    <3>1. i \in 1 .. Len(s) \/ i = Len(s) + 1
      BY <1>1
    <3>2. j \in 1 .. Len(s) \/ j = Len(s) + 1
      BY <1>1
    <3> QED
      BY <1>1, <1>2, <2>1, <3>1, <3>2 DEF Alone
  <2>2. ASSUME NEW g \in Generators
        PROVE  [act EXCEPT ![f.gen] = TRUE][g] <=> \E i \in 1 .. Len(t) : t[i].gen = g
    <3>1. CASE g = f.gen
      BY <1>1, <1>2, <3>1
    <3>2. CASE g # f.gen
      <4>1. (\E i \in 1 .. Len(t) : t[i].gen = g) <=> \E i \in 1 .. Len(s) : s[i].gen = g
        BY <1>1, <3>2
      <4>2. [act EXCEPT ![f.gen] = TRUE][g] = act[g]
        BY <3>2
      <4> QED
        BY <4>1, <4>2 DEF Alone
    <3> QED
      BY <3>1, <3>2
  <2> QED
    BY <2>1, <2>2 DEF Alone
<1>4. Saved(t, cur)
  <2> SUFFICES ASSUME NEW i \in 1 .. Len(t), t[i].gen \notin CanSetSysExcInfo
               PROVE  (IF i = Len(t) THEN cur ELSE t[i + 1].save) \in {t[i].save, None}
    BY DEF Saved
  <2>1. CASE i = Len(t)
    BY <1>1, <2>1
  <2>2. CASE i = Len(s)
    BY <1>1, <2>2 DEF Saved
  <2>3. CASE i \in 1 .. Len(s) - 1
    BY <1>1, <2>3 DEF Saved
  <2> QED
    BY <1>1, <2>1, <2>2, <2>3
<1> QED
  BY <1>3, <1>4 DEF t

\* The body that runs is taken away, and its caller sees what it saved, or none.
LEMMA PopKeeps ==
    ASSUME NEW s \in Seq(Frame), s # <<>>, NEW act \in [Generators -> BOOLEAN], NEW cur,
           NEW seen \in {Last(s).save, None}, Alone(s, act), Saved(s, cur)
    PROVE  /\ Alone(Front(s), [act EXCEPT ![Last(s).gen] = FALSE])
           /\ Saved(Front(s), seen)
<1> DEFINE t == Front(s)
<1>1. /\ Len(s) \in Nat \ {0} /\ Len(t) = Len(s) - 1
      /\ \A i \in 1 .. Len(t) : t[i] = s[i]
      /\ Last(s) = s[Len(s)] /\ Last(s).gen \in Generators
  BY TopAndRest DEF Frame
<1> HIDE DEF t
<1>2. Alone(t, [act EXCEPT ![Last(s).gen] = FALSE])
  <2>1. ASSUME NEW i \in 1 .. Len(t), NEW j \in 1 .. Len(t), t[i].gen = t[j].gen PROVE i = j
    BY <1>1, <2>1 DEF Alone
  <2>2. ASSUME NEW g \in Generators
        PROVE  [act EXCEPT ![Last(s).gen] = FALSE][g] <=> \E i \in 1 .. Len(t) : t[i].gen = g
    <3>1. CASE g = Last(s).gen
      <4>1. ASSUME NEW i \in 1 .. Len(t) PROVE t[i].gen # g
        BY <1>1, <3>1 DEF Alone
      <4> QED
        BY <1>1, <3>1, <4>1
    <3>2. CASE g # Last(s).gen
      <4>1. (\E i \in 1 .. Len(t) : t[i].gen = g) <=> \E i \in 1 .. Len(s) : s[i].gen = g
        BY <1>1, <3>2
      <4>2. [act EXCEPT ![Last(s).gen] = FALSE][g] = act[g]
        BY <3>2
      <4> QED
        BY <4>1, <4>2 DEF Alone
    <3> QED
      BY <3>1, <3>2
  <2> QED
    BY <2>1, <2>2 DEF Alone
<1>3. Saved(t, seen)
  BY <1>1 DEF Saved
<1> QED
  BY <1>2, <1>3 DEF t
-----------------------------------------------------------------------------
(* The calls.                                                                *)

\* At first nothing runs and every field is empty.
LEMMA Initially == Init => IInv
<1> SUFFICES ASSUME Init PROVE IInv
  OBVIOUS
<1>1. stack \in Seq(Frame) /\ Len(stack) = 0
  BY DEF Init
<1>2. TypeOK
  BY <1>1 DEF Init, TypeOK, Raisable
<1>3. Alone(stack, active) /\ Saved(stack, current)
  BY <1>1 DEF Init, Alone, Saved
<1> QED
  BY <1>2, <1>3 DEF Init, IInv, Kept, ClosedRest

\* What the fields hold when a call has set them.
LEMMA FieldTypes ==
    ASSUME TypeOK, NEW g \in Generators, NEW meth, NEW passed, Passes(meth, passed)
    PROVE  /\ ExcInfoOf(g, meth, passed) \in Thrown \cup {"GeneratorExit", None}
           /\ SendValueOf(g, meth, passed) \in Sent \cup {None}
  BY DEF TypeOK, Passes, ExcInfoOf, SendValueOf

\* Types of what is raised and passed.
LEMMA Kinds ==
    /\ None \notin Sent /\ None \notin Raisable /\ Thrown \subseteq Raisable
    /\ "GeneratorExit" \in Raisable /\ "StopIteration" \in Raisable /\ "Error" \in Raisable
  BY ValuesAssumption DEF Raisable, Errors

\* A refused call leaves the bodies alone, and what it has put in a field is noted.
LEMMA RefuseKeeps ==
    ASSUME IInv, NEW g \in Generators, NEW meth, NEW passed, Passes(meth, passed),
           UNCHANGED <<state, closed, current>>, Refuse(g, meth, passed)
    PROVE  IInv' /\ Len(stack') = Len(stack)
<1>1. stack \in Seq(Frame) /\ TypeOK
  BY DEF IInv, TypeOK
<1>2. Same(stack, stack') /\ result' = "Error"
  BY <1>1, Kinds, ReturnToSame DEF Refuse
<1>3. TypeOK'
  BY <1>1, <1>2, FieldTypes, Kinds DEF Refuse, TypeOK, Same
<1>4. Alone(stack, active)' /\ Saved(stack, current)'
  BY <1>1, <1>2, SameKeeps DEF IInv, Refuse
<1>5. Kept'
  <2> SUFFICES ASSUME NEW h \in Generators, ~closed'[h], ~refused'[h]
               PROVE  excInfo'[h] = None /\ sendValue'[h] = None
    BY DEF Kept
  <2>1. CASE h = g
    <3>1. passed = None /\ ~refused[g] /\ ~closed[g]
      BY <1>1, <2>1 DEF Refuse, TypeOK
    <3>2. ExcInfoOf(g, meth, passed) = None /\ SendValueOf(g, meth, passed) = None
      BY <3>1, Kinds DEF IInv, Kept, ExcInfoOf, SendValueOf, Passes
    <3> QED
      BY <1>1, <2>1, <3>2 DEF Refuse, TypeOK
  <2>2. CASE h # g
    BY <1>1, <2>2 DEF Refuse, IInv, Kept, TypeOK
  <2> QED
    BY <2>1, <2>2
<1>6. ClosedRest'
  BY DEF IInv, ClosedRest, Refuse
<1> QED
  BY <1>2, <1>3, <1>4, <1>5, <1>6 DEF IInv, Same

\* A resumed body gets its values and leaves the fields empty, or is noted.
LEMMA ResumeKeeps ==
    ASSUME IInv, NEW g \in Generators, NEW meth, NEW passed, Passes(meth, passed),
           UNCHANGED <<state, closed, current>>, ~closed[g], Resume(g, meth, passed)
    PROVE  /\ IInv'
           /\ Last(stack').gen = g /\ Last(stack').passed = passed
           /\ Last(stack').got = passed \/ refused[g]
<1> DEFINE exc == ExcInfoOf(g, meth, passed)
           val == SendValueOf(g, meth, passed)
           check == CheckThrowableAndReturnSendValue(exc, val)
           frame == [gen |-> g, meth |-> meth, passed |-> passed, got |-> check.got,
                     save |-> current,
                     raising |-> IF check.got \in Raisable THEN check.got ELSE None]
<1>1. stack \in Seq(Frame) /\ TypeOK
  BY DEF IInv, TypeOK
<1>2. exc \in Thrown \cup {"GeneratorExit", None} /\ val \in Sent \cup {None}
  BY <1>1, FieldTypes
<1>3. /\ check.got \in Passed /\ check.left \in Thrown \cup {"GeneratorExit", None}
      /\ check.got = IF val # None THEN val ELSE exc
      /\ check.left = IF val # None THEN exc ELSE None
  BY <1>2 DEF CheckThrowableAndReturnSendValue, Passed
<1>4. /\ ~active[g]
      /\ active' = [active EXCEPT ![g] = TRUE]
      /\ excInfo' = [excInfo EXCEPT ![g] = check.left]
      /\ sendValue' = [sendValue EXCEPT ![g] = None]
      /\ refused' = [refused EXCEPT ![g] = @ /\ check.left # None]
      /\ stack' = Append(stack, frame)
      /\ result' = None
  BY DEF Resume
<1>5. /\ meth \in {"next", "MoveNext", "send", "throw", "close"} /\ passed \in Passed
      /\ current \in Raisable \cup {None}
  BY <1>1 DEF Passes, Passed, TypeOK
<1>6. frame \in Frame /\ frame.gen = g /\ frame.passed = passed /\ frame.save = current
      /\ frame.got = check.got
  BY <1>3, <1>5 DEF Frame
<1> HIDE DEF exc, val, check, frame
<1>7. stack' \in Seq(Frame) /\ Last(stack') = frame
  BY <1>1, <1>4, <1>6, AppendProperties DEF Last
<1>8. TypeOK'
  BY <1>1, <1>3, <1>4, <1>7 DEF TypeOK
<1>9. Alone(stack, active)' /\ Saved(stack, current)'
  BY <1>1, <1>4, <1>6, PushKeeps DEF IInv, TypeOK
<1>10. excInfo[g] # None \/ sendValue[g] # None => refused[g]
  BY DEF IInv, Kept
<1>11. Kept'
  <2> SUFFICES ASSUME NEW h \in Generators, ~closed'[h], ~refused'[h]
               PROVE  excInfo'[h] = None /\ sendValue'[h] = None
    BY DEF Kept
  <2>1. CASE h = g
    <3>1. check.left # None => refused[g]
      BY <1>3, <1>10, Kinds DEF exc, val, ExcInfoOf, SendValueOf, Passes
    <3> QED
      BY <1>1, <1>4, <2>1, <3>1 DEF TypeOK
  <2>2. CASE h # g
    BY <1>1, <1>4, <2>2 DEF IInv, Kept, TypeOK
  <2> QED
    BY <2>1, <2>2
<1>12. ClosedRest'
  BY <1>1, <1>4 DEF IInv, ClosedRest, TypeOK
<1>13. check.got = passed \/ refused[g]
  BY <1>3, <1>10, Kinds DEF exc, val, ExcInfoOf, SendValueOf, Passes
<1> QED
  BY <1>6, <1>7, <1>8, <1>9, <1>11, <1>12, <1>13 DEF IInv

\* A closed generator answers without its body.
LEMMA AnswerKeeps ==
    ASSUME IInv, NEW g \in Generators, NEW meth, NEW passed, Passes(meth, passed),
           UNCHANGED <<state, closed, current>>, closed[g], AnswerClosed(g, meth, passed)
    PROVE  IInv' /\ Len(stack') = Len(stack)
<1> DEFINE how == CASE meth \in {"next", "send"} -> "StopIteration"
                    [] meth \in {"MoveNext", "close"} -> None
                    [] meth = "throw" -> passed
<1>1. stack \in Seq(Frame) /\ TypeOK
  BY DEF IInv, TypeOK
<1>2. how \in Raisable \cup {None}
  BY Kinds DEF Passes
<1>3. ReturnTo(stack, how)
  BY DEF AnswerClosed
<1> HIDE DEF how
<1>4. Same(stack, stack') /\ result' = how
  BY <1>1, <1>2, <1>3, ReturnToSame
<1>5. TypeOK'
  BY <1>1, <1>2, <1>4, FieldTypes DEF AnswerClosed, TypeOK, Same
<1>6. Alone(stack, active)' /\ Saved(stack, current)'
  BY <1>1, <1>4, SameKeeps DEF IInv, AnswerClosed
<1>7. Kept'
  BY <1>1 DEF IInv, Kept, AnswerClosed, TypeOK
<1>8. ClosedRest'
  BY DEF IInv, ClosedRest, AnswerClosed
<1> QED
  BY <1>4, <1>5, <1>6, <1>7, <1>8 DEF IInv, Same

\* A value for a generator that has not started is refused before anything is set.
LEMMA RefuseToSendKeeps ==
    ASSUME IInv, UNCHANGED <<state, closed, current>>, RefuseToSend
    PROVE  IInv' /\ Len(stack') = Len(stack)
<1>1. stack \in Seq(Frame) /\ TypeOK
  BY DEF IInv, TypeOK
<1>2. Same(stack, stack') /\ result' = "Error"
  BY <1>1, Kinds, ReturnToSame DEF RefuseToSend
<1>3. TypeOK'
  BY <1>1, <1>2, Kinds DEF RefuseToSend, fields, TypeOK, Same
<1>4. Alone(stack, active)' /\ Saved(stack, current)'
  BY <1>1, <1>2, SameKeeps DEF IInv, RefuseToSend
<1>5. Kept' /\ ClosedRest'
  BY DEF IInv, Kept, ClosedRest, RefuseToSend, fields
<1> QED
  BY <1>2, <1>3, <1>4, <1>5 DEF IInv, Same

\* A call keeps the invariant; if it resumes a body, the body gets what is
\* passed unless a call was refused before.
LEMMA CallKeeps ==
    ASSUME IInv, NEW g \in Generators, NEW meth, NEW passed, Passes(meth, passed),
           Call(g, meth, passed)
    PROVE  /\ IInv'
           /\ \/ Len(stack') = Len(stack)
              \/ /\ Len(stack') = Len(stack) + 1
                 /\ Last(stack').got = Last(stack').passed \/ refused[Last(stack').gen]
<1> USE DEF Call
<1>1. UNCHANGED <<state, closed, current>>
  OBVIOUS
<1>2. CASE meth = "send" /\ passed # None /\ state[g] = "NotStarted"
  BY <1>1, <1>2, RefuseToSendKeeps
<1>3. CASE closed[g] /\ AnswerClosed(g, meth, passed)
  BY <1>1, <1>3, AnswerKeeps
<1>4. CASE Refuse(g, meth, passed)
  BY <1>1, <1>4, RefuseKeeps
<1>5. CASE ~closed[g] /\ Resume(g, meth, passed)
  <2>1. /\ IInv'
        /\ Last(stack').got = Last(stack').passed \/ refused[Last(stack').gen]
    BY <1>1, <1>5, ResumeKeeps
  <2>2. Len(stack') = Len(stack) + 1
    <3>1. PICK f : stack' = Append(stack, f)
      BY <1>5 DEF Resume
    <3>2. stack \in Seq(Frame)
      BY DEF IInv, TypeOK
    <3> QED
      BY <3>1, <3>2
  <2> QED
    BY <2>1, <2>2
<1> QED
  BY <1>2, <1>3, <1>4, <1>5
-----------------------------------------------------------------------------
(* What bodies do.                                                           *)

\* A body that catches, delays or raises an exception goes on; one that catches
\* has an except clause, so what it changes is restored when it leaves.
LEMMA CatchOrRaiseKeeps ==
    ASSUME IInv, Catch \/ Finally \/ Raise
    PROVE  IInv' /\ Len(stack') = Len(stack)
<1>1. stack \in Seq(Frame) /\ stack # <<>> /\ TypeOK
  BY DEF IInv, TypeOK, Catch, Finally, Raise, BodyRuns
<1>2. Top \in Frame /\ Top = stack[Len(stack)] /\ Len(stack) \in Nat \ {0}
  BY <1>1, TopAndRest DEF Top
<1>3. UNCHANGED <<state, closed, active, fields>> /\ result' = None
  BY DEF Catch, Finally, Raise
<1>4. /\ Same(stack, stack')
      /\ current' \in Raisable \cup {None}
      /\ Saved(stack, current')
  <2>1. CASE Catch
    <3>1. Same(stack, stack') /\ current' = Top.raising /\ Top.gen \in CanSetSysExcInfo
      BY <1>1, <2>1, RaisingSame DEF Catch, Top
    <3> QED
      BY <1>2, <3>1 DEF IInv, Saved, Frame
  <2>2. CASE Raise
    <3>1. PICK e \in Raisable :
              stack' = Append(Front(stack), [Last(stack) EXCEPT !.raising = e])
      BY <2>2 DEF Raise, Top
    <3>2. Same(stack, stack')
      BY <1>1, <3>1, Kinds, RaisingSame
    <3> QED
      BY <1>1, <2>2, <3>2 DEF Raise, IInv, TypeOK
  <2>3. CASE Finally
    <3>1. Same(stack, stack')
      BY <1>1, <2>3, RaisingSame DEF Finally, Top
    <3> QED
      BY <1>1, <2>3, <3>1 DEF Finally, IInv, TypeOK
  <2> QED
    BY <2>1, <2>2, <2>3
<1>5. TypeOK'
  BY <1>1, <1>3, <1>4 DEF TypeOK, fields, Same
<1>6. Alone(stack, active)' /\ Saved(stack, current)'
  BY <1>1, <1>3, <1>4, SameKeeps DEF IInv
<1>7. Kept' /\ ClosedRest'
  BY <1>3 DEF IInv, Kept, ClosedRest, fields
<1> QED
  BY <1>4, <1>5, <1>6, <1>7 DEF IInv, Same

\* A current exception that is cleared is cleared for the bodies that run.
LEMMA ExcClearKeeps ==
    ASSUME IInv, ExcClear
    PROVE  IInv' /\ Len(stack') = Len(stack)
<1>1. UNCHANGED <<state, closed, active, fields, stack>> /\ current' = None /\ result' = None
  BY DEF ExcClear
<1>2. TypeOK'
  BY <1>1 DEF IInv, TypeOK, fields
<1>3. Alone(stack, active)' /\ Kept' /\ ClosedRest'
  BY <1>1 DEF IInv, Alone, Kept, ClosedRest, fields
<1>4. Saved(stack, None)
  BY DEF IInv, Saved
<1>5. Saved(stack, current)'
  BY <1>1, <1>4 DEF Saved
<1> QED
  BY <1>1, <1>2, <1>3, <1>5 DEF IInv

\* What a call that is over may do to the current exception.
Restored ==
    \/ current' = Top.save
    \/ Top.gen \notin CanSetSysExcInfo /\ current' = None

\* A body that yields, ends or raises hands the current exception back that its
\* caller had; without an except clause it may have been cleared.
LEMMA LeaveKeeps ==
    ASSUME IInv, stack # <<>>, NEW how \in Raisable \cup {None}, Leave(how),
           state' \in [Generators -> {"NotStarted", "yielded", "Finished"}],
           closed' = closed \/ closed' = [closed EXCEPT ![Top.gen] = TRUE]
    PROVE  /\ IInv'
           /\ Len(stack') = Len(stack) - 1
           /\ Restored
           /\ result' = how
<1>1. stack \in Seq(Frame) /\ TypeOK
  BY DEF IInv, TypeOK
<1>2. /\ Top \in Frame /\ Top = stack[Len(stack)] /\ Len(stack) \in Nat \ {0} /\ Top = Last(stack)
      /\ Front(stack) \in Seq(Frame) /\ Len(Front(stack)) = Len(stack) - 1
  BY <1>1, TopAndRest DEF Top
<1>3. Top.gen \in Generators /\ Top.save \in Raisable \cup {None}
  BY <1>2 DEF Frame
<1>4. active' = [active EXCEPT ![Top.gen] = FALSE] /\ UNCHANGED fields
  BY DEF Leave
<1>5. Restored
  <2>1. current' = IF Top.gen \in CanSetSysExcInfo THEN Top.save ELSE current
    BY DEF Leave, RestoreCurrentException
  <2>2. Saved(stack, current) /\ Len(stack) \in 1 .. Len(stack)
    BY <1>2 DEF IInv
  <2>3. Top.gen \notin CanSetSysExcInfo => current \in {Top.save, None}
    BY <1>2, <2>2 DEF Saved
  <2> QED
    BY <2>1, <2>3 DEF Restored
<1>6. Same(Front(stack), stack') /\ result' = how
  BY <1>2, ReturnToSame DEF Leave
<1>7. TypeOK'
  BY <1>1, <1>3, <1>4, <1>5, <1>6 DEF Restored, TypeOK, fields, Same
<1>8. Alone(Front(stack), active') /\ Saved(Front(stack), current')
  <2>1. current' \in {Last(stack).save, None}
    BY <1>2, <1>5 DEF Restored
  <2> QED
    BY <1>1, <1>2, <1>4, <2>1, PopKeeps DEF IInv, TypeOK
<1>9. Alone(stack, active)' /\ Saved(stack, current)'
  BY <1>2, <1>5, <1>6, <1>8, SameKeeps
<1>10. Kept' /\ ClosedRest'
  BY <1>1, <1>3, <1>4 DEF IInv, Kept, ClosedRest, fields, TypeOK
<1> QED
  BY <1>2, <1>5, <1>6, <1>7, <1>9, <1>10 DEF IInv, Same

\* The three ways out of a body.
LEMMA BodyLeaves ==
    ASSUME IInv, Yield \/ Return \/ Propagate
    PROVE  /\ IInv'
           /\ Len(stack') = Len(stack) - 1
           /\ Restored
           /\ Top.meth = "close" /\ result' = None => closed'[Top.gen]
<1>1. stack \in Seq(Frame) /\ stack # <<>> /\ TypeOK
  BY DEF IInv, TypeOK, Yield, Return, Propagate, BodyRuns
<1>2. Top \in Frame
  BY <1>1, TopAndRest DEF Top
<1>3. Top.gen \in Generators /\ Top.raising \in Raisable \cup {None}
  BY <1>2 DEF Frame
<1>4. CASE Yield
  <2> DEFINE how == IF Top.meth = "close" THEN "Error" ELSE None
  <2>1. /\ state' = [state EXCEPT ![Top.gen] = "yielded"]
        /\ Leave(how)
        /\ UNCHANGED closed
    BY <1>4 DEF Yield
  <2>2. how \in Raisable \cup {None} /\ (Top.meth = "close" => how # None)
    BY Kinds
  <2> HIDE DEF how
  <2>3. state' \in [Generators -> {"NotStarted", "yielded", "Finished"}]
    BY <1>1, <1>3, <2>1 DEF TypeOK
  <2> QED
    BY <1>1, <2>1, <2>2, <2>3, LeaveKeeps
<1>5. CASE Return
  <2> DEFINE how == IF Top.meth \in {"MoveNext", "close"} THEN None ELSE "StopIteration"
  <2>1. /\ state' = [state EXCEPT ![Top.gen] = "Finished"]
        /\ closed' = [closed EXCEPT ![Top.gen] = TRUE]
        /\ Leave(how)
    BY <1>5 DEF Return
  <2>2. how \in Raisable \cup {None}
    BY Kinds
  <2> HIDE DEF how
  <2>3. /\ state' \in [Generators -> {"NotStarted", "yielded", "Finished"}]
        /\ closed'[Top.gen]
    BY <1>1, <1>3, <2>1 DEF TypeOK
  <2> QED
    BY <1>1, <2>1, <2>2, <2>3, LeaveKeeps
<1>6. CASE Propagate
  <2>1. PICK how \in {None, Top.raising} :
            /\ UNCHANGED state
            /\ closed' = [closed EXCEPT ![Top.gen] = TRUE]
            /\ Leave(how)
    BY <1>6 DEF Propagate
  <2>2. /\ state' \in [Generators -> {"NotStarted", "yielded", "Finished"}]
        /\ closed'[Top.gen]
    BY <1>1, <1>3, <2>1 DEF TypeOK
  <2> QED
    BY <1>1, <1>3, <2>1, <2>2, LeaveKeeps
<1> QED
  BY <1>4, <1>5, <1>6
-----------------------------------------------------------------------------
(* The theorems.                                                             *)

\* Every step keeps the invariant, and does to the stack, the current exception
\* and the values passed what the properties say.
LEMMA Step ==
    ASSUME IInv, [Next]_vars
    PROVE  /\ IInv'
           /\ Resumed => Last(stack').got = Last(stack').passed \/ refused[Last(stack').gen]
           /\ Left => Restored
           /\ Left /\ Top.meth = "close" /\ result' = None => closed'[Top.gen]
<1>1. Len(stack) \in Nat
  BY LenProperties DEF IInv, TypeOK
<1>2. CASE UNCHANGED vars
  <2>1. IInv'
    BY <1>2 DEF vars, fields, IInv, TypeOK, Alone, Saved, Kept, ClosedRest
  <2>2. Len(stack') = Len(stack)
    BY <1>2 DEF vars
  <2> QED
    BY <1>1, <2>1, <2>2 DEF Resumed, Left
<1>3. ASSUME NEW g \in Generators, Advance(g) \/ MoveNext(g) \/ Send(g) \/ Throw(g) \/ Close(g)
      PROVE  /\ IInv'
             /\ \/ Len(stack') = Len(stack)
                \/ /\ Len(stack') = Len(stack) + 1
                   /\ Last(stack').got = Last(stack').passed \/ refused[Last(stack').gen]
  <2>1. PICK meth, passed : Passes(meth, passed) /\ Call(g, meth, passed)
    BY <1>3 DEF Passes, Advance, MoveNext, Send, Throw, Close
  <2> QED
    BY <2>1, CallKeeps
<1>4. CASE Catch \/ Finally \/ ExcClear \/ Raise
  BY <1>1, <1>4, CatchOrRaiseKeeps, ExcClearKeeps DEF Resumed, Left
<1>5. CASE Yield \/ Return \/ Propagate
  BY <1>1, <1>5, BodyLeaves DEF Resumed, Left
<1>6. CASE \E g \in Generators : Advance(g) \/ MoveNext(g) \/ Send(g) \/ Throw(g) \/ Close(g)
  BY <1>1, <1>3, <1>6 DEF Resumed, Left
<1> QED
  BY <1>2, <1>4, <1>5, <1>6 DEF Next

\* The generators, the bodies that run and the saved exceptions stay in order,
\* whatever the program and the bodies call.
THEOREM Invariance == Spec => []IInv
<1>1. IInv /\ [Next]_vars => IInv'
  BY Step
<1> QED
  BY <1>1, Initially, PTL DEF Spec

\* The fields of the generators keep their types, and the stack is one of frames.
THEOREM TypeCorrect == Spec => []TypeOK
<1>1. IInv => TypeOK
  BY DEF IInv
<1> QED
  BY <1>1, Invariance, PTL

\* No reentrant or refused call makes a body run twice at a time, or a closed one run.
THEOREM BodiesNeverOverlap == Spec => []BodiesRunAlone
<1>1. IInv => BodiesRunAlone
  <2> SUFFICES ASSUME IInv PROVE BodiesRunAlone
    OBVIOUS
  <2>1. DOMAIN stack = 1 .. Len(stack)
    BY LenProperties DEF IInv, TypeOK
  <2> QED
    BY <2>1 DEF IInv, Alone, ClosedRest, BodiesRunAlone
<1> QED
  BY <1>1, Invariance, PTL

\* A body gets what is passed to it, and once, unless a call was refused.
THEOREM DeliveryExact == Spec => DeliveryIsExact
<1>1. IInv /\ [Next]_vars =>
        [Resumed => Last(stack').got = Last(stack').passed \/ refused[Last(stack').gen]]_vars
  BY Step
<1> QED
  BY <1>1, Invariance, PTL DEF Spec, DeliveryIsExact

\* A call that is over leaves its caller's current exception, at any depth, unless
\* sys.exc_clear() is called for a body that has no except clause.
THEOREM ExcInfoRestored == Spec => ExcInfoIsRestored
<1>1. IInv /\ [Next]_vars =>
        [Left => \/ current' = Top.save
                 \/ Top.gen \notin CanSetSysExcInfo /\ current' = None]_vars
  BY Step DEF Restored
<1> QED
  BY <1>1, Invariance, PTL DEF Spec, ExcInfoIsRestored

\* close() closes the generator or raises.
THEOREM CloseCloses == Spec => CloseClosesIt
<1>1. IInv /\ [Next]_vars =>
        [Left /\ Top.meth = "close" /\ result' = None => closed'[Top.gen]]_vars
  BY Step
<1> QED
  BY <1>1, Invariance, PTL DEF Spec, CloseClosesIt
=============================================================================
