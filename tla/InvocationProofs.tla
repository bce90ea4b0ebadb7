-------------------------- MODULE InvocationProofs --------------------------
(***************************************************************************)
(* What holds of Invocation for all methods and servers.                   *)
(***************************************************************************)
EXTENDS Invocation, TLAPS

LEMMA ScriptTyped ==
  ASSUME script \in Scripts
  PROVE  script.responses \in Seq(Response) /\ Len(script.responses) \in Nat
  BY InvocationAssumption DEF ScriptType

\* An ascending list stays one when a larger number is appended.
LEMMA ListsAppend ==
  ASSUME NEW seq \in Seq(Nat), NEW S, Lists(seq, S), NEW n \in Nat, \A i \in S : i < n
  PROVE  Lists(Append(seq, n), S \cup {n})
<1> DEFINE new == Append(seq, n)
<1>1. /\ Len(new) = Len(seq) + 1 /\ new[Len(new)] = n /\ Len(seq) \in Nat
      /\ \A k \in 1..Len(seq) : new[k] = seq[k]
  OBVIOUS
<1> HIDE DEF new
<1>2. 1..Len(new) = (1..Len(seq)) \cup {Len(new)}
  BY <1>1
<1>3. {new[k] : k \in 1..Len(new)} = S \cup {n}
  BY <1>1, <1>2 DEF Lists
<1>4. ASSUME NEW j \in 1..Len(new), NEW k \in 1..Len(new), j < k PROVE new[j] < new[k]
  <2>1. j \in 1..Len(seq) /\ seq[j] \in S
    BY <1>1, <1>2, <1>4 DEF Lists
  <2>2. CASE k \in 1..Len(seq)
    BY <1>1, <1>4, <2>1, <2>2 DEF Lists
  <2>3. CASE k = Len(new)
    BY <1>1, <2>1, <2>3
  <2> QED
    BY <1>2, <2>2, <2>3
<1> QED
  BY <1>3, <1>4 DEF Lists, new

LEMMA TypingStep == ASSUME TypeOK, Next PROVE TypeOK'
<1> USE ScriptTyped DEF TypeOK
<1>1. ASSUME Http \/ Interrupted PROVE TypeOK'
  BY <1>1 DEF Http, BadRequest, NoEndpoint, CreateChannel, ResolveFails, Resolve, StartCall,
    SendRequest, GetResults, GetThrows, Interrupted, Shutdown, callbackVars
<1>2. ASSUME OnNext PROVE TypeOK'
  <2>1. Coming \in 1..Len(script.responses)
    BY <1>2 DEF OnNext, Coming
  <2>2. Append(results, Coming) \in Seq(1..Len(script.responses))
    BY <2>1
  <2>3. results' \in Seq(1..Len(script.responses))
    BY <1>2, <2>2 DEF OnNext
  <2>4. delivered' \in 0..Len(script.responses)
    BY <1>2, <2>1 DEF OnNext
  <2> QED
    BY <1>2, <2>3, <2>4 DEF OnNext
<1>3. ASSUME OnCompleted \/ OnError PROVE TypeOK'
  BY <1>3 DEF OnCompleted, OnError
<1> QED
  BY <1>1, <1>2, <1>3 DEF Next, Callback

LEMMA InvariantStep == ASSUME TypeOK, Invariant, Next PROVE Invariant'
<1> USE ScriptTyped DEF TypeOK
<1>s. script' = script /\ Printable' = Printable /\ MethodType' = MethodType
  BY DEF Next, Callback, Http, BadRequest, NoEndpoint, CreateChannel, ResolveFails, Resolve,
    StartCall, SendRequest, GetResults, GetThrows, Interrupted, Shutdown, OnNext, OnCompleted,
    OnError, Printable, MethodType
<1> DEFINE Early == pc \in {"new", "resolving", "calling"}
<1>0. ASSUME UNCHANGED callbackVars, Early' => Early, AnswerExact' PROVE Invariant'
  <2>1. call' = call /\ delivered' = delivered /\ results' = results /\ future' = future
    BY <1>0 DEF callbackVars
  <2>2. Lists(results, {i \in Printable : i <= delivered})'
    BY ONLY <1>s, <2>1, Invariant DEF Invariant, Lists
  <2>3. (MethodType = "UNARY" => delivered <= 1)'
    BY ONLY <1>s, <2>1, Invariant DEF Invariant
  <2>4. (Early => call = "none")'
    BY ONLY <1>0, <2>1, Invariant DEF Invariant
  <2>5. (/\ future # "pending" => call = "closed"
         /\ future = "done" => script.end = "ok" /\ delivered = Len(script.responses))'
    BY ONLY <1>s, <2>1, Invariant DEF Invariant
  <2> QED
    BY ONLY <1>0, <2>2, <2>3, <2>4, <2>5 DEF Invariant
<1>1. ASSUME UNCHANGED <<callbackVars, outcome, answer>>, Early' => Early PROVE Invariant'
  <2>1. AnswerExact'
    BY ONLY <1>1, <1>s, Invariant DEF Invariant, AnswerExact, IsObject, Lists
  <2> QED
    BY ONLY <1>0, <1>1, <2>1
<1>2. ASSUME UNCHANGED <<callbackVars, answer>>, outcome' # "answer", Early' => Early
      PROVE  Invariant'
  BY ONLY <1>0, <1>2 DEF AnswerExact
<1>3. ASSUME StartCall PROVE Invariant'
  <2>1. future = "pending" /\ outcome' = outcome /\ answer' = answer
    BY <1>3 DEF StartCall, Invariant
  <2> QED
    BY <1>3, <1>s, <2>1 DEF StartCall, Invariant, AnswerExact, IsObject, Lists
<1>4. ASSUME GetResults PROVE Invariant'
  <2>1. CASE outcome' = "answer"
    <3>1. /\ script.end = "ok" /\ delivered = Len(script.responses)
          /\ Lists(results, {i \in Printable : i <= delivered})
      BY <1>4 DEF GetResults, Invariant
    <3>2. {i \in Printable : i <= delivered} = Printable
      BY <3>1 DEF Printable
    <3>3. /\ answer' = results
          /\ \A k \in 1..Len(results) : IsObject(results[k])
      BY <1>4, <2>1 DEF GetResults
    <3>4. \A i \in Printable : IsObject(i)
      BY <3>1, <3>2, <3>3 DEF Lists
    <3>5. AnswerExact'
      BY <1>s, <3>1, <3>2, <3>3, <3>4 DEF AnswerExact, IsObject, Lists, Invariant
    <3> QED
      BY <1>4, <1>s, <3>5 DEF GetResults, Invariant, Lists, callbackVars
  <2>2. CASE outcome' # "answer"
    BY <1>2, <1>4, <2>2 DEF GetResults
  <2> QED
    BY <2>1, <2>2
<1>5. ASSUME OnNext PROVE Invariant'
  <2>1. Coming \in 1..Len(script.responses) /\ delivered' = Coming /\ Coming = delivered + 1
    BY <1>5 DEF OnNext, Coming
  <2>2. Lists(results', {i \in Printable : i <= Coming})
    <3>1. CASE script.responses[Coming] = "unprintable"
      <4>1. {i \in Printable : i <= Coming} = {i \in Printable : i <= delivered}
        BY <2>1, <3>1 DEF Printable
      <4> QED
        BY <1>5, <3>1, <4>1 DEF OnNext, Invariant, Lists
    <3>2. CASE script.responses[Coming] # "unprintable"
      <4>1. {i \in Printable : i <= Coming} = {i \in Printable : i <= delivered} \cup {Coming}
        BY <2>1, <3>2 DEF Printable
      <4>2. results \in Seq(Nat) /\ results' = Append(results, Coming)
        BY <1>5, <3>2 DEF OnNext
      <4>3. Lists(Append(results, Coming), {i \in Printable : i <= delivered} \cup {Coming})
        <5>1. Lists(results, {i \in Printable : i <= delivered})
          BY DEF Invariant
        <5>2. Coming \in Nat /\ \A i \in {i \in Printable : i <= delivered} : i < Coming
          BY <2>1 DEF Printable
        <5> QED
          BY ONLY <4>2, <5>1, <5>2, ListsAppend
      <4> QED
        BY <4>1, <4>2, <4>3
    <3> QED
      BY <3>1, <3>2
  <2>3. MethodType = "UNARY" => delivered = 0
    BY <1>5 DEF OnNext, Refused
  <2>4. call = "open" /\ future = "pending" /\ ~Early
    BY <1>5 DEF OnNext, Invariant
  <2>5. AnswerExact'
    BY <1>5, <1>s DEF OnNext, Invariant, AnswerExact, IsObject, Lists
  <2>6. {i \in Printable : i <= delivered}' = {i \in Printable : i <= Coming}
    BY <1>s, <2>1
  <2>7. Lists(results, {i \in Printable : i <= delivered})'
    BY <2>2, <2>6 DEF Lists
  <2> QED
    BY <1>5, <1>s, <2>1, <2>3, <2>4, <2>5, <2>7 DEF OnNext, Invariant
<1>6. ASSUME OnCompleted PROVE Invariant'
  BY <1>6, <1>s DEF OnCompleted, Invariant, AnswerExact, IsObject, Lists
<1>7. ASSUME OnError PROVE Invariant'
  BY <1>7, <1>s DEF OnError, Invariant, AnswerExact, IsObject, Lists
<1> QED
  BY <1>1, <1>2, <1>3, <1>4, <1>5, <1>6, <1>7
  DEF Next, Callback, Http, BadRequest, NoEndpoint, CreateChannel, ResolveFails, Resolve,
      SendRequest, GetThrows, Interrupted, Shutdown

LEMMA InvariantHolds == Spec => [](TypeOK /\ Invariant)
<1>1. Init => TypeOK /\ Invariant
  BY ScriptTyped DEF Init, TypeOK, Invariant, Lists, Printable, AnswerExact
<1>2. TypeOK /\ Invariant /\ [Next]_vars => TypeOK' /\ Invariant'
  <2>1. TypeOK /\ Invariant /\ UNCHANGED vars => TypeOK'
    BY DEF vars, TypeOK
  <2>2. TypeOK /\ Invariant /\ UNCHANGED vars => Invariant'
    BY DEF vars, Invariant, Lists, Printable, AnswerExact, IsObject, MethodType
  <2> QED
    BY <2>1, <2>2, TypingStep, InvariantStep
<1> QED
  BY <1>1, <1>2, PTL DEF Spec

\* The types of all variables.
THEOREM Typing == Spec => []TypeOK
  BY InvariantHolds, PTL

\* Whatever the server does and whenever it fails, an answer holds all printable
\* results of a call that ended well, in order.
THEOREM AnswerIsExact == Spec => []AnswerExact
<1>1. Invariant => AnswerExact
  BY DEF Invariant
<1> QED
  BY <1>1, InvariantHolds, PTL

\* The list of results is at rest when the HTTP thread is let to read it.
THEOREM ResultsAtRest == Spec => NoLateWrites
<1>1. TypeOK /\ Invariant /\ [Next]_vars => [future # "pending" => UNCHANGED results]_vars
  BY DEF Invariant, Next, Callback, Http, BadRequest, NoEndpoint, CreateChannel, ResolveFails,
    Resolve, StartCall, SendRequest, GetResults, GetThrows, Interrupted, Shutdown, OnNext,
    OnCompleted, OnError, callbackVars, vars
<1> QED
  BY <1>1, InvariantHolds, PTL DEF Spec, NoLateWrites
=============================================================================
