----------------------- MODULE ReflectionLookupProofs -----------------------
(***************************************************************************)
(* What ReflectionLookup guarantees for every set of files and servers.    *)
(***************************************************************************)
EXTENDS ReflectionLookup, FiniteSetTheorems, TLAPS

LEMMA ServerFixed == [Next]_vars => UNCHANGED server
<1> SUFFICES ASSUME [Next]_vars PROVE server' = server
  OBVIOUS
<1>1. CASE Caller
  BY <1>1 DEF Caller, StartSend, StartLoad, StartStore, Get
<1>2. CASE Handler
  BY <1>2 DEF Handler, ProcessDependencies, LoadOutstanding, RequestDependency,
              ReleaseStore, TestZero
<1>3. CASE Arrival
  BY <1>3 DEF Arrival, OnNextDescriptors, OnNextOther, OnCompleted
<1>4. CASE OnError
  BY <1>4 DEF OnError
<1>5. CASE UNCHANGED vars
  BY <1>5 DEF vars
<1> QED
  BY <1>1, <1>2, <1>3, <1>4, <1>5 DEF Next

\* The variables keep their types.
THEOREM Typing == Spec => []TypeOK
<1>1. Init => TypeOK
  BY DEF Init, TypeOK
<1>2. TypeOK /\ [Next]_vars => TypeOK'
  <2> SUFFICES ASSUME TypeOK, [Next]_vars PROVE TypeOK'
    OBVIOUS
  <2> USE DEF TypeOK
  <2>0. server \in ServerType
    BY LookupAssumption
  <2>1. CASE Caller
    <3>1. CASE StartSend
      BY <3>1 DEF StartSend, Request, callbackVars, futureVars
    <3>2. CASE StartLoad
      BY <3>2 DEF StartLoad, callbackVars, futureVars
    <3>3. CASE StartStore
      BY <3>3 DEF StartStore, callbackVars, futureVars
    <3>4. CASE Get
      BY <3>4 DEF Get, callbackVars, futureVars
    <3> QED
      BY <2>1, <3>1, <3>2, <3>3, <3>4 DEF Caller
  <2>2. CASE Handler
    <3>1. ASSUME NEW d \in File, ProcessDependencies(d) PROVE TypeOK'
      BY <2>0, <3>1 DEF ProcessDependencies, callerVars, futureVars, ServerType, Processing
    <3>2. CASE LoadOutstanding
      BY <3>2 DEF LoadOutstanding, callerVars, futureVars, Processing
    <3>3. ASSUME NEW dep \in File, RequestDependency(dep) PROVE TypeOK'
      BY <3>3 DEF RequestDependency, CancelCall, callerVars, futureVars, Processing, Request
    <3>4. CASE ReleaseStore
      BY <3>4 DEF ReleaseStore, callerVars, futureVars, Processing
    <3>5. CASE TestZero
      BY <3>5 DEF TestZero, CancelCall, callerVars, futureVars, Processing
    <3> QED
      BY <2>2, <3>1, <3>2, <3>3, <3>4, <3>5 DEF Handler
  <2>3. CASE Arrival
    <3>1. ASSUME NEW r \in Request, OnNextDescriptors(r) PROVE TypeOK'
      <4>1. Target(r) \in File
        BY LookupAssumption DEF Target, Request
      <4>2. Parsed(r) \subseteq File
        BY <4>1, <2>0 DEF Parsed, Closure, ServerType, Batching
      <4> QED
        BY <3>1, <4>2 DEF OnNextDescriptors, callerVars, futureVars
    <3>2. ASSUME NEW r \in Request, OnNextOther(r) PROVE TypeOK'
      BY <3>2 DEF OnNextOther, callerVars, futureVars, callbackVars
    <3>3. CASE OnCompleted
      BY <3>3 DEF OnCompleted, callerVars, futureVars, callbackVars
    <3> QED
      BY <2>3, <3>1, <3>2, <3>3 DEF Arrival
  <2>4. CASE OnError
    BY <2>4 DEF OnError, callerVars, futureVars, callbackVars
  <2>5. CASE UNCHANGED vars
    BY <2>5 DEF vars, callerVars, futureVars, callbackVars
  <2> QED
    BY <2>1, <2>2, <2>3, <2>4, <2>5 DEF Next
<1> QED
  BY <1>1, <1>2, PTL DEF Spec

-----------------------------------------------------------------------------
(***************************************************************************)
(* Files reachable through imports.                                        *)
(***************************************************************************)

LEMMA ClosureType ==
  ASSUME NEW f \in File PROVE Closure(f) \subseteq File /\ f \in Closure(f)
BY DEF Closure

LEMMA ClosureClosed ==
  ASSUME TypeOK, NEW f \in File, NEW g \in Closure(f)
  PROVE  server.deps[g] \subseteq Closure(f)
<1>1. server.deps[g] \subseteq File
  BY LookupAssumption DEF TypeOK, ServerType, Closure
<1> SUFFICES ASSUME NEW d \in server.deps[g], NEW S \in SUBSET File,
                    f \in S, \A h \in S : server.deps[h] \subseteq S
             PROVE  d \in S
  BY <1>1 DEF Closure
<1>2. g \in S
  BY DEF Closure
<1> QED
  BY <1>2

LEMMA ClosureLeast ==
  ASSUME NEW f \in File, NEW S \in SUBSET File,
         f \in S, \A h \in S : server.deps[h] \subseteq S
  PROVE  Closure(f) \subseteq S
BY DEF Closure

LEMMA ClosureTransitive ==
  ASSUME TypeOK, NEW f \in File, NEW g \in Closure(f)
  PROVE  Closure(g) \subseteq Closure(f)
<1>1. g \in File /\ Closure(f) \in SUBSET File
  BY DEF Closure
<1>2. \A h \in Closure(f) : server.deps[h] \subseteq Closure(f)
  BY ClosureClosed
<1> HIDE DEF Closure
<1> QED
  BY <1>1, <1>2, ClosureLeast

-----------------------------------------------------------------------------
LEMMA ClosureHolds == Spec => []WithinClosure
<1> USE LookupAssumption
<1>1. Init /\ TypeOK => WithinClosure
  BY DEF Init, WithinClosure
<1>2. TypeOK /\ WithinClosure /\ [Next]_vars => WithinClosure'
  <2> SUFFICES ASSUME TypeOK, WithinClosure, [Next]_vars PROVE WithinClosure'
    OBVIOUS
  <2>1. CASE UNCHANGED server
    <3>1. Closure(Root)' = Closure(Root)
      BY <2>1 DEF Closure
    <3> USE <3>1 DEF WithinClosure
    <3>2. CASE Caller
      BY <3>2 DEF Caller, StartSend, StartLoad, StartStore, Get, callbackVars, futureVars
    <3>3. ASSUME NEW d \in File, ProcessDependencies(d) PROVE WithinClosure'
      <4>1. server.deps[d] \subseteq Closure(Root)
        BY <3>3, ClosureClosed DEF ProcessDependencies
      <4> QED
        BY <3>3, <4>1 DEF ProcessDependencies, futureVars
    <3>4. CASE LoadOutstanding
      BY <3>4 DEF LoadOutstanding, futureVars
    <3>5. ASSUME NEW dep \in File, RequestDependency(dep) PROVE WithinClosure'
      BY <3>5 DEF RequestDependency, CancelCall, futureVars
    <3>6. CASE ReleaseStore
      BY <3>6 DEF ReleaseStore, futureVars
    <3>7. CASE TestZero
      BY <3>7 DEF TestZero, CancelCall, futureVars
    <3>8. ASSUME NEW r \in Request, OnNextDescriptors(r) PROVE WithinClosure'
      <4>1. Target(r) \in Closure(Root)
        BY <3>8, ClosureType DEF OnNextDescriptors, CanAnswer, Target
      <4>2. Closure(Target(r)) \subseteq Closure(Root)
        BY <4>1, ClosureTransitive
      <4>3. Parsed(r) \subseteq Closure(Root)
        BY <4>1, <4>2 DEF Parsed
      <4> QED
        BY <3>8, <4>3 DEF OnNextDescriptors, futureVars
    <3>9. ASSUME NEW r \in Request, OnNextOther(r) PROVE WithinClosure'
      BY <3>9 DEF OnNextOther, callbackVars, futureVars
    <3>10. CASE OnCompleted \/ OnError
      BY <3>10 DEF OnCompleted, OnError, callbackVars
    <3>11. CASE UNCHANGED vars
      BY <3>11 DEF vars, callbackVars, futureVars
    <3> QED
      BY <3>2, <3>3, <3>4, <3>5, <3>6, <3>7, <3>8, <3>9, <3>10, <3>11
         DEF Next, Handler, Arrival
  <2> QED
    BY <2>1, ServerFixed
<1> QED
  BY <1>1, <1>2, Typing, PTL DEF Spec

LEMMA FreshHolds == Spec => []FreshIsNew
<1>1. Init => FreshIsNew
  BY DEF Init, FreshIsNew
<1>2. FreshIsNew /\ [Next]_vars => FreshIsNew'
  <2> SUFFICES ASSUME FreshIsNew, [Next]_vars PROVE FreshIsNew'
    OBVIOUS
  <2> USE DEF FreshIsNew
  <2>1. CASE Caller
    BY <2>1 DEF Caller, StartSend, StartLoad, StartStore, Get, callbackVars
  <2>2. CASE Handler
    BY <2>2 DEF Handler, ProcessDependencies, LoadOutstanding, RequestDependency,
       ReleaseStore, TestZero, CancelCall
  <2>3. CASE Arrival \/ OnError
    BY <2>3 DEF Arrival, OnNextDescriptors, OnNextOther, OnCompleted, OnError,
       CanAnswer, callbackVars
  <2>4. CASE UNCHANGED vars
    BY <2>4 DEF vars, callbackVars
  <2> QED
    BY <2>1, <2>2, <2>3, <2>4 DEF Next
<1> QED
  BY <1>1, <1>2, PTL DEF Spec

LEMMA RootComesFirst == Spec => []RootFirst
<1> USE LookupAssumption
<1>1. Init => RootFirst
  BY DEF Init, RootFirst
<1>2. TypeOK /\ WithinClosure /\ RootFirst /\ [Next]_vars => RootFirst'
  <2> SUFFICES ASSUME TypeOK, WithinClosure, RootFirst, [Next]_vars,
                      Root \notin server.missing \cup server.garbled
               PROVE  /\ pc' # "idle" \/ requested' # {} => Root \in resolved'
                      /\ future' = "done" => Root \in value'
    BY ServerFixed DEF RootFirst
  <2> USE DEF RootFirst, futureVars, callbackVars
  <2>1. CASE Caller
    BY <2>1 DEF Caller, StartSend, StartLoad, StartStore, Get
  <2>2. CASE Handler
    BY <2>2 DEF Handler, ProcessDependencies, LoadOutstanding, RequestDependency,
       ReleaseStore, TestZero, CancelCall
  <2>3. ASSUME NEW r \in Request, OnNextDescriptors(r)
        PROVE  Root \in resolved' /\ UNCHANGED <<futureVars, requested>>
    <3>1. CASE r = Symbol
      <4>1. Target(r) = Root /\ Root \in Closure(Root)
        BY <3>1, ClosureType DEF Target
      <4>2. Root \in resolved \cup Parsed(r)
        BY <4>1 DEF Parsed
      <4> QED
        BY <2>3, <4>2 DEF OnNextDescriptors
    <3>2. CASE r # Symbol
      <4>1. r \in requested
        BY <2>3, <3>2 DEF OnNextDescriptors, CanAnswer, WithinClosure
      <4> QED
        BY <2>3, <4>1 DEF OnNextDescriptors
    <3> QED
      BY <3>1, <3>2
  <2>4. ASSUME NEW r \in Request, OnNextOther(r)
        PROVE  UNCHANGED <<futureVars, requested, resolved, pc>>
    BY <2>4 DEF OnNextOther
  <2>5. CASE OnCompleted \/ OnError
    BY <2>5 DEF OnCompleted, OnError
  <2>6. CASE UNCHANGED vars
    BY <2>6 DEF vars
  <2> QED
    BY <2>1, <2>2, <2>3, <2>4, <2>5, <2>6 DEF Next, Arrival
<1> QED
  BY <1>1, <1>2, ClosureHolds, Typing, PTL DEF Spec

LEMMA ImportsAskedFor == Spec => []AskedFor
<1>1. Init => AskedFor
  BY DEF Init, AskedFor
<1>2. TypeOK /\ FreshIsNew /\ AskedFor /\ [Next]_vars => AskedFor'
  <2> SUFFICES ASSUME TypeOK, FreshIsNew, AskedFor, [Next]_vars,
                      server.batching = "single"
               PROVE  /\ pc' # "next" => todo' = {}
                      /\ \A f, g \in todo' : f = g
                      /\ stream' # "closed" => \A f \in resolved' \ todo' :
                           server.deps[f] \subseteq resolved' \cup requested' \cup fresh'
                      /\ future' = "done" =>
                           \A f \in value' : server.deps[f] \subseteq value' \cup requested'
    BY ServerFixed DEF AskedFor
  <2> USE DEF AskedFor, futureVars, callbackVars
  <2>1. CASE Caller
    BY <2>1 DEF Caller, StartSend, StartLoad, StartStore, Get
  <2>2. ASSUME NEW d \in File, ProcessDependencies(d) PROVE AskedFor'
    BY <2>2, ServerFixed DEF ProcessDependencies, FreshIsNew
  <2>3. CASE LoadOutstanding
    BY <2>3 DEF LoadOutstanding
  <2>4. ASSUME NEW dep \in File, RequestDependency(dep)
        PROVE  /\ pc' # "next" /\ todo' = {}
               /\ stream' # "closed" => \A f \in resolved' \ todo' :
                    server.deps[f] \subseteq resolved' \cup requested' \cup fresh'
               /\ requested \subseteq requested' /\ value' = value
               /\ future' = "done" => future = "done"
    BY <2>4 DEF RequestDependency, CancelCall
  <2>5. CASE ReleaseStore
    BY <2>5 DEF ReleaseStore
  <2>6. CASE TestZero
    BY <2>6 DEF TestZero, CancelCall, FreshIsNew
  <2>7. ASSUME NEW r \in Request, OnNextDescriptors(r) PROVE AskedFor'
    <3>1. \A f, g \in Parsed(r) : f = g
      BY DEF Parsed
    <3> QED
      BY <2>7, <3>1 DEF OnNextDescriptors, CanAnswer
  <2>8. ASSUME NEW r \in Request, OnNextOther(r)
        PROVE  UNCHANGED <<futureVars, callbackVars, requested, resolved, stream>>
    BY <2>8 DEF OnNextOther
  <2>9. CASE OnCompleted \/ OnError
    BY <2>9 DEF OnCompleted, OnError
  <2>10. CASE UNCHANGED vars
    BY <2>10 DEF vars
  <2> QED
    BY <2>1, <2>2, <2>3, <2>4, <2>5, <2>6, <2>7, <2>8, <2>9, <2>10, ServerFixed
       DEF Next, Handler, Arrival
<1> QED
  BY <1>1, <1>2, FreshHolds, Typing, PTL DEF Spec

\* Whatever the server packs into its answers or leaves out, and however the two
\* threads interleave: a result is about the service, and lacks no file for want of
\* asking.
THEOREM ResultIsOfService == Spec => []ResultOfService
<1>1. WithinClosure /\ RootFirst /\ AskedFor => ResultOfService
  BY DEF WithinClosure, RootFirst, AskedFor, ResultOfService
<1> QED
  BY <1>1, ClosureHolds, RootComesFirst, ImportsAskedFor, PTL

-----------------------------------------------------------------------------
(***************************************************************************)
(* The counter of an orderly lookup.                                       *)
(***************************************************************************)

LEMMA OwedFinite == TypeOK => IsFiniteSet(Owed) /\ Cardinality(Owed) \in Nat
<1> SUFFICES ASSUME TypeOK PROVE IsFiniteSet(Owed)
  BY FS_CardinalityType
<1>1. Owed \subseteq File
  BY LookupAssumption DEF TypeOK, Owed
<1> QED
  BY <1>1, FS_Subset, LookupAssumption

LEMMA AccountsInit == Init => Accounts
<1> SUFFICES ASSUME Init PROVE Accounts
  OBVIOUS
<1> USE DEF Init
<1>1. Bookkeeping
  BY DEF Bookkeeping, Started
<1>2. SingleCounts
  BY DEF SingleCounts, Started, Owed
<1>3. ClosureCounts
  BY DEF ClosureCounts, Started
<1>4. CompleteResult
  BY DEF CompleteResult
<1> QED
  BY <1>1, <1>2, <1>3, <1>4 DEF Accounts

\* The caller's own steps: the request goes out, then the counter becomes one.
LEMMA CallerKeeps ==
  ASSUME TypeOK, Accounts, Caller PROVE Accounts'
<1> USE DEF Accounts, Bookkeeping, Started
<1>1. CASE StartSend
  <2> USE <1>1 DEF StartSend, callbackVars, futureVars
  <2>1. Bookkeeping'
    OBVIOUS
  <2>2. SingleCounts'
    BY LookupAssumption DEF SingleCounts, Owed, Holding, Target
  <2>3. ClosureCounts'
    BY DEF ClosureCounts
  <2> QED
    BY <2>1, <2>2, <2>3 DEF CompleteResult
<1>2. CASE StartLoad
  <2> USE <1>2 DEF StartLoad, callbackVars, futureVars
  <2>1. Bookkeeping'
    OBVIOUS
  <2>2. SingleCounts'
    BY DEF SingleCounts, Owed, Holding
  <2>3. ClosureCounts'
    BY DEF ClosureCounts
  <2> QED
    BY <2>1, <2>2, <2>3 DEF CompleteResult
<1>3. CASE StartStore
  <2> USE <1>3 DEF StartStore, callbackVars, futureVars
  <2>1. Bookkeeping'
    OBVIOUS
  <2>2. SingleCounts'
    <3>1. Owed = {Root} /\ Owed' = {Root}
      BY DEF Owed
    <3>2. Cardinality({Root}) = 1
      BY FS_Singleton
    <3> QED
      BY <3>1, <3>2 DEF SingleCounts, Holding, Target, Owed
  <2>3. ClosureCounts'
    BY DEF ClosureCounts
  <2> QED
    BY <2>1, <2>2, <2>3 DEF CompleteResult
<1>4. CASE Get
  <2> USE <1>4 DEF Get, callbackVars, futureVars
  <2>1. Bookkeeping'
    OBVIOUS
  <2>2. SingleCounts'
    BY DEF SingleCounts, Owed, Holding
  <2>3. ClosureCounts'
    BY DEF ClosureCounts, Closure
  <2> QED
    BY <2>1, <2>2, <2>3 DEF CompleteResult
<1> QED
  BY <1>1, <1>2, <1>3, <1>4 DEF Caller

\* The callback takes up one descriptor: it leaves todo and is held instead.
LEMMA ProcessKeeps ==
  ASSUME TypeOK, Accounts, NEW d \in File, ProcessDependencies(d)
  PROVE  Accounts'
<1> USE DEF Accounts, ProcessDependencies, futureVars, callerVars
<1>0. server.deps[d] \subseteq File
  BY LookupAssumption DEF TypeOK, ServerType
<1>1. Bookkeeping'
  BY <1>0 DEF Bookkeeping, Started
<1>2. SingleCounts'
  <2> SUFFICES ASSUME server.batching = "single" PROVE SingleCounts'
    BY DEF SingleCounts
  <2> USE DEF Bookkeeping, SingleCounts
  <2>1. d \in Owed /\ Owed' = Owed \ {d}
    BY DEF Owed
  <2>2. Cardinality(Owed') = Cardinality(Owed) - 1 /\ Cardinality(Owed) \in Nat
    BY <2>1, OwedFinite, FS_RemoveElement
  <2>3. Started' => outstanding' = Cardinality(Owed') + (IF Holding' THEN 1 ELSE 0)
    BY <2>2 DEF Started, Holding, TypeOK
  <2>4. \A r \in unanswered' : Target(r) \in (Owed \ todo)'
    BY <2>1
  <2>5. \A f \in (resolved \ todo)' :
          server'.deps[f] \subseteq (resolved \cup requested \cup fresh)'
    BY DEF TypeOK
  <2> QED
    BY <2>3, <2>4, <2>5
<1>3. ClosureCounts'
  <2> SUFFICES ASSUME server.batching # "single" PROVE ClosureCounts'
    BY DEF ClosureCounts
  <2> USE DEF Bookkeeping, ClosureCounts
  <2>1. resolved = Closure(Root) /\ Closure(Root)' = Closure(Root)
    BY DEF Closure
  <2>2. server.deps[d] \subseteq resolved
    BY <2>1, ClosureClosed, LookupAssumption
  <2> QED
    BY <2>1, <2>2 DEF Started
<1>4. CompleteResult'
  BY DEF CompleteResult
<1> QED
  BY <1>1, <1>2, <1>3, <1>4

LEMMA LoadKeeps ==
  ASSUME TypeOK, Accounts, LoadOutstanding PROVE Accounts'
<1> USE DEF Accounts, LoadOutstanding, futureVars, callerVars
<1>1. Bookkeeping'
  BY DEF Bookkeeping, Started
<1>2. SingleCounts'
  <2>1. Owed' = Owed /\ Holding' = Holding
    BY DEF Owed, Holding
  <2> QED
    BY <2>1 DEF SingleCounts, Started
<1>3. ClosureCounts'
  BY DEF ClosureCounts, Closure, Started, Bookkeeping
<1>4. CompleteResult'
  BY DEF CompleteResult
<1> QED
  BY <1>1, <1>2, <1>3, <1>4

\* One more import is asked for, and so owed.
LEMMA RequestKeeps ==
  ASSUME TypeOK, Accounts, NEW dep \in File, RequestDependency(dep)
  PROVE  Accounts'
<1> USE DEF Accounts, RequestDependency, futureVars, callerVars
<1>1. server.batching = "single" /\ stream = "open"
  BY DEF ClosureCounts, SingleCounts, Bookkeeping, TypeOK
<1> USE <1>1
<1>2. Bookkeeping'
  BY DEF Bookkeeping, Started, CancelCall
<1>3. SingleCounts'
  <2> USE DEF Bookkeeping, SingleCounts, CancelCall
  <2>1. dep \notin Owed /\ Owed' = Owed \cup {dep}
    BY DEF Owed
  <2>2. Cardinality(Owed') = Cardinality(Owed) + 1
    BY <2>1, OwedFinite, FS_AddElement
  <2>3. Started' => outstanding' = Cardinality(Owed') + (IF Holding' THEN 1 ELSE 0)
    BY <2>2, OwedFinite DEF Started, Holding, TypeOK
  <2>4. \A r \in unanswered' : Target(r) \in (Owed \ todo)'
    BY <2>1, LookupAssumption DEF Target
  <2> QED
    BY <2>3, <2>4
<1>4. ClosureCounts'
  BY DEF ClosureCounts
<1>5. CompleteResult'
  BY DEF CompleteResult, CancelCall
<1> QED
  BY <1>2, <1>3, <1>4, <1>5

LEMMA ReleaseKeeps ==
  ASSUME TypeOK, Accounts, ReleaseStore PROVE Accounts'
<1> USE DEF Accounts, ReleaseStore, futureVars, callerVars
<1>1. Bookkeeping'
  BY DEF Bookkeeping, Started, TypeOK
<1>2. SingleCounts'
  <2>1. Owed' = Owed
    BY DEF Owed
  <2> QED
    BY <2>1, OwedFinite DEF SingleCounts, Started, Holding, Bookkeeping, TypeOK
<1>3. ClosureCounts'
  BY DEF ClosureCounts, Closure, Started, Bookkeeping, TypeOK
<1>4. CompleteResult'
  BY DEF CompleteResult
<1> QED
  BY <1>1, <1>2, <1>3, <1>4

\* Zero is seen only when nothing is owed: all imports have been received.
LEMMA TestKeeps ==
  ASSUME TypeOK, Accounts, TestZero PROVE Accounts'
<1> USE DEF Accounts, TestZero, futureVars, callerVars
<1>1. loaded - 1 = outstanding
  BY DEF Bookkeeping, TypeOK
<1>2. ~CancelCall \/ outstanding # 0
  BY <1>1 DEF CancelCall, SingleCounts, ClosureCounts
<1>3. CASE outstanding # 0
  <2> USE <1>1, <1>3
  <2>0. UNCHANGED <<future, value, stream, todo, fresh, loaded>>
        /\ pc' = IF todo = {} THEN "idle" ELSE "next"
    OBVIOUS
  <2> HIDE DEF TestZero
  <2>a. UNCHANGED <<server, caller, callerLoad, outstanding, requested, resolved, unanswered>>
        /\ pc = "test"
    BY DEF TestZero
  <2> USE <2>0, <2>a
  <2>1. Bookkeeping'
    BY DEF Bookkeeping, Started
  <2>2. SingleCounts'
    <3>1. Owed' = Owed /\ (server.batching = "single" => Owed # {})
      BY FS_EmptySet DEF SingleCounts, Owed, Holding, Bookkeeping
    <3> QED
      BY <3>1 DEF SingleCounts, Started, Holding, Bookkeeping
  <2>3. ClosureCounts'
    BY DEF ClosureCounts, Closure, Started, Bookkeeping, TypeOK
  <2>4. CompleteResult'
    BY DEF CompleteResult
  <2> QED
    BY <2>1, <2>2, <2>3, <2>4
<1>4. CASE outstanding = 0
  <2>0. /\ UNCHANGED <<server, caller, callerLoad, outstanding, requested, resolved, unanswered>>
        /\ UNCHANGED <<todo, fresh, loaded>>
        /\ pc = "test" /\ stream = "open" /\ stream' = "halfClosed"
        /\ future' = "done" /\ value' = resolved
        /\ pc' = IF todo = {} THEN "idle" ELSE "next"
    BY <1>1, <1>2, <1>4
  <2> HIDE DEF TestZero
  <2> USE <2>0
  <2>1. Bookkeeping'
    BY DEF Bookkeeping, Started
  <2>2. CASE server.batching = "single"
    <3>1. Owed = {}
      BY <1>4, <2>2, OwedFinite, FS_EmptySet
         DEF SingleCounts, Bookkeeping, Started, Holding
    <3>2. SingleCounts'
      BY <2>2, <3>1 DEF SingleCounts, Owed, Holding, Started, Bookkeeping
    <3>3. ClosureCounts'
      BY <2>2 DEF ClosureCounts
    <3>4. CompleteResult'
      BY <2>2, <3>1 DEF CompleteResult, SingleCounts, Owed, Bookkeeping
    <3> QED
      BY <2>1, <3>2, <3>3, <3>4
  <2>3. CASE server.batching # "single"
    <3>1. SingleCounts'
      BY <2>3 DEF SingleCounts
    <3>2. resolved = Closure(Root)
      BY <2>3 DEF ClosureCounts, Bookkeeping
    <3>3. ClosureCounts'
      BY <1>4, <2>3 DEF ClosureCounts, Closure, Started, Bookkeeping, TypeOK
    <3>4. CompleteResult'
      BY <3>2, ClosureType, ClosureClosed, LookupAssumption DEF CompleteResult
    <3> QED
      BY <2>1, <3>1, <3>3, <3>4
  <2> QED
    BY <2>2, <2>3
<1> QED
  BY <1>3, <1>4

-----------------------------------------------------------------------------
\* Different requests ask for different files.
LEMMA TargetsDiffer ==
  ASSUME TypeOK, Accounts, server.batching = "single",
         NEW r \in unanswered, NEW q \in unanswered, r # q
  PROVE  Target(r) # Target(q)
BY LookupAssumption DEF Accounts, SingleCounts, Target, TypeOK

\* An answer with descriptors.  A file per answer: what was owed as expected is
\* now owed as unprocessed.  Everything at once: resolved is the whole closure.
LEMMA AnswerKeeps ==
  ASSUME Orderly,
         TypeOK, Accounts, NEW r \in Request, OnNextDescriptors(r)
  PROVE  Accounts'
<1> USE DEF Accounts, OnNextDescriptors, CanAnswer, Orderly, futureVars, callerVars
<1>1. Target(r) \in File /\ r \in unanswered
  BY LookupAssumption DEF Target, Request
<1>2. CASE server.batching = "single"
  <2> USE <1>2
  <2>1. Parsed(r) \subseteq {Target(r)}
    BY DEF Parsed
  <2>2. Parsed(r) = {} \/ Parsed(r) = {Target(r)}
    BY <2>1
  <2>3. Owed' = Owed
    <3>1. todo = {} /\ Target(r) \in ({Root} \cup requested) \ resolved
      BY <1>1 DEF Bookkeeping, SingleCounts, Owed
    <3> QED
      BY <2>2, <3>1 DEF Owed
  <2>4. Root \in resolved \/ Target(r) = Root
    BY <1>1 DEF Bookkeeping, SingleCounts, Target
  <2>5. Bookkeeping'
    BY <1>1, <2>2, <2>4 DEF Bookkeeping, Started
  <2>6. SingleCounts'
    <3> HIDE DEF OnNextDescriptors
    <3>0. /\ UNCHANGED <<server, caller, outstanding, requested, stream, fresh>>
          /\ unanswered' = unanswered \ {r} /\ resolved' = resolved \cup Parsed(r)
          /\ todo' = Parsed(r) /\ pc' = (IF Parsed(r) = {} THEN "idle" ELSE "next")
          /\ pc = "idle"
      BY DEF OnNextDescriptors
    <3>1. \A q \in unanswered' : Target(q) \in Owed' \ todo'
      <4> SUFFICES ASSUME NEW q \in unanswered, q # r
                   PROVE  Target(q) \in Owed' \ todo'
        BY <3>0
      <4>1. Target(q) \in Owed
        BY DEF SingleCounts
      <4>2. Target(q) # Target(r)
        BY <1>1, TargetsDiffer
      <4> QED
        BY <2>1, <2>3, <3>0, <4>1, <4>2
    <3>2. Started' => outstanding' = Cardinality(Owed') + (IF Holding' THEN 1 ELSE 0)
      BY <2>3, <3>0 DEF SingleCounts, Started, Holding
    <3>3. stream = "halfClosed" => FALSE
      BY <1>1, <3>0 DEF SingleCounts
    <3>4. \A f \in (resolved \ todo)' :
            server'.deps[f] \subseteq (resolved \cup requested \cup fresh)'
      BY <3>0 DEF SingleCounts, Bookkeeping
    <3> QED
      BY <1>1, <2>3, <3>0, <3>1, <3>2, <3>3, <3>4 DEF SingleCounts
  <2>7. ClosureCounts'
    BY DEF ClosureCounts
  <2> QED
    BY <2>5, <2>6, <2>7 DEF CompleteResult
<1>3. CASE server.batching # "single"
  <2> USE <1>3
  <2>1. r = Symbol /\ Target(r) = Root /\ resolved = {} /\ unanswered = {Symbol}
    BY <1>1 DEF ClosureCounts, Target
  <2>2. server.missing = {} /\ server.garbled = {}
    BY DEF Orderly, Clean
  <2>3. Parsed(r) = Closure(Root) /\ Root \in Closure(Root)
    BY <2>1, <2>2, ClosureType, LookupAssumption DEF Parsed
  <2>4. Closure(Root)' = Closure(Root)
    BY DEF Closure
  <2>5. Bookkeeping'
    BY <2>1, <2>3 DEF Bookkeeping, Started
  <2>6. SingleCounts'
    BY DEF SingleCounts
  <2>7. ClosureCounts'
    BY <2>1, <2>3, <2>4 DEF ClosureCounts, Bookkeeping, Started
  <2> QED
    BY <2>5, <2>6, <2>7 DEF CompleteResult
<1> QED
  BY <1>2, <1>3

\* An error answer leaves its file owed for ever.
LEMMA ErrorAnswerKeeps ==
  ASSUME Orderly,
         TypeOK, Accounts, NEW r \in Request, OnNextOther(r)
  PROVE  Accounts'
<1> USE DEF Accounts, OnNextOther, CanAnswer, futureVars, callerVars, callbackVars
<1>1. server.batching = "single"
  BY DEF Orderly, Clean
<1>2. Bookkeeping'
  BY DEF Bookkeeping, Started
<1>3. SingleCounts'
  <2>1. Owed' = Owed /\ Holding' = Holding
    BY DEF Owed, Holding
  <2> QED
    BY <2>1 DEF SingleCounts, Started
<1>4. ClosureCounts'
  BY <1>1 DEF ClosureCounts
<1> QED
  BY <1>2, <1>3, <1>4 DEF CompleteResult

LEMMA EndKeeps ==
  ASSUME TypeOK, Accounts, OnError \/ OnCompleted PROVE Accounts'
<1> USE DEF Accounts, OnError, OnCompleted, futureVars, callerVars, callbackVars
<1>1. Bookkeeping'
  BY DEF Bookkeeping, Started, TypeOK
<1>2. SingleCounts'
  <2>1. Owed' = Owed /\ Holding' = Holding
    BY DEF Owed, Holding
  <2> QED
    BY <2>1 DEF SingleCounts, Started
<1>3. ClosureCounts'
  BY DEF ClosureCounts, Closure, Started
<1> QED
  BY <1>1, <1>2, <1>3 DEF CompleteResult

LEMMA StutterKeeps == Accounts /\ UNCHANGED vars => Accounts'
<1> SUFFICES ASSUME Accounts, UNCHANGED vars PROVE Accounts'
  OBVIOUS
<1> USE DEF Accounts, vars, futureVars, callerVars, callbackVars
<1>1. Bookkeeping'
  BY DEF Bookkeeping, Started
<1>2. SingleCounts'
  BY DEF SingleCounts, Started, Owed, Holding
<1>3. ClosureCounts'
  BY DEF ClosureCounts, Closure, Started
<1> QED
  BY <1>1, <1>2, <1>3 DEF CompleteResult

LEMMA AccountsStep ==
  ASSUME Orderly, TypeOK, Accounts, [Next]_vars PROVE Accounts'
<1>1. CASE Caller
  BY <1>1, CallerKeeps
<1>2. CASE Handler
  BY <1>2, ProcessKeeps, LoadKeeps, RequestKeeps, ReleaseKeeps, TestKeeps DEF Handler
<1>3. CASE Arrival
  BY <1>3, AnswerKeeps, ErrorAnswerKeeps, EndKeeps DEF Arrival
<1>4. CASE OnError
  BY <1>4, EndKeeps
<1>5. CASE UNCHANGED vars
  BY <1>5, StutterKeeps
<1> QED
  BY <1>1, <1>2, <1>3, <1>4, <1>5 DEF Next

\* With any server: while the lookup is orderly the counter is what is owed.
THEOREM CounterCounts == Spec => []Invariant
<1>1. Init => Invariant
  BY AccountsInit DEF Invariant
<1>2. TypeOK /\ Invariant /\ [Next]_vars => Invariant'
  <2> SUFFICES ASSUME TypeOK, Invariant, [Next]_vars, Orderly' PROVE Accounts'
    BY DEF Invariant
  <2>1. Orderly
    BY ServerFixed DEF Orderly, Clean
  <2> QED
    BY <2>1, AccountsStep DEF Invariant
<1> QED
  BY <1>1, <1>2, Typing, PTL DEF Spec

\* When no answer overtakes start() and no file of an answer is lost, a result
\* holds the service's file and all it imports, as the javadoc promises.
THEOREM ResultIsComplete == Spec => []OrderlyComplete
<1>1. Invariant => OrderlyComplete
  BY DEF Invariant, Accounts, OrderlyComplete
<1> QED
  BY <1>1, CounterCounts, PTL

\* Under the same conditions the counter reaches zero exactly when the last file
\* asked for has been processed, so that no lookup waits for its deadline.
THEOREM EndIsNoticed == Spec => []NoticesEnd
<1>1. TypeOK /\ Invariant => NoticesEnd
  <2> SUFFICES ASSUME TypeOK, Accounts, Started, pc = "idle", Root \in resolved,
                      requested \subseteq resolved, future = "pending"
               PROVE  FALSE
    BY DEF NoticesEnd, Invariant
  <2> USE DEF Accounts
  <2>1. stream = "open" /\ todo = {}
    BY DEF Bookkeeping
  <2>2. server.batching = "single"
    BY <2>1 DEF ClosureCounts
  <2> QED
    BY <2>1, <2>2 DEF SingleCounts, Owed
<1> QED
  BY <1>1, CounterCounts, Typing, PTL

\* ... and the handler is done with the request stream once it has closed it.
THEOREM StreamUsedProperly == Spec => []NoUseAfterHalfClose
<1>1. TypeOK /\ Invariant => NoUseAfterHalfClose
  <2> SUFFICES ASSUME TypeOK, Accounts, stream = "halfClosed"
               PROVE  ~(pc = "request" \/ (pc = "test" /\ (loaded = 1 \/ outstanding = 0)))
    BY DEF Invariant, NoUseAfterHalfClose
  <2> QED
    BY DEF Accounts, Bookkeeping, SingleCounts, ClosureCounts, TypeOK
<1> QED
  BY <1>1, CounterCounts, Typing, PTL

-----------------------------------------------------------------------------
\* In every interleaving the future is settled with the stream: only once, and while it
\* is pending the call can still be ended, by the deadline at the latest.
THEOREM SettledOnce == Spec => []SettledWithStream
<1>1. Init => SettledWithStream
  BY DEF Init, SettledWithStream
<1>2. TypeOK /\ SettledWithStream /\ [Next]_vars => SettledWithStream'
  <2> SUFFICES ASSUME TypeOK, SettledWithStream, [Next]_vars PROVE SettledWithStream'
    OBVIOUS
  <2> USE DEF SettledWithStream, futureVars
  <2>1. CASE Caller
    BY <2>1 DEF Caller, StartSend, StartLoad, StartStore, Get
  <2>2. CASE Handler
    BY <2>2 DEF Handler, ProcessDependencies, LoadOutstanding, RequestDependency,
       ReleaseStore, TestZero, CancelCall
  <2>3. CASE Arrival \/ OnError
    BY <2>3 DEF Arrival, OnNextDescriptors, OnNextOther, OnCompleted, OnError, TypeOK
  <2>4. CASE UNCHANGED vars
    BY <2>4 DEF vars
  <2> QED
    BY <2>1, <2>2, <2>3, <2>4 DEF Next
<1> QED
  BY <1>1, <1>2, Typing, PTL DEF Spec

\* The lookup implements the promise, but for its liveness, with any server and in
\* any interleaving: what has settled stays as it is, and the success of an orderly
\* lookup is complete.
THEOREM LookupKeepsPromise == Spec => KeepsPromise
<1>1. Init => Promise!Init
  BY DEF Init, Promise!Init
<1>2. TypeOK /\ TypeOK' /\ SettledWithStream /\ OrderlyComplete' /\ [Next]_vars
        => [Promise!Next]_(Promise!vars)
  <2> SUFFICES ASSUME TypeOK, TypeOK', SettledWithStream, OrderlyComplete', [Next]_vars
               PROVE  [Promise!Next]_(Promise!vars)
    OBVIOUS
  <2> USE DEF Promise!Next, Promise!vars
  <2>0. server' = server /\ Orderly' = Orderly
    BY ServerFixed DEF Orderly, Clean
  <2>1. CASE Caller
    BY <2>0, <2>1 DEF Caller, StartSend, StartLoad, StartStore, Get, futureVars
  <2>2. ASSUME CancelCall PROVE Promise!Fail \/ UNCHANGED <<future, value>>
    BY <2>0, <2>2 DEF CancelCall, Promise!Fail
  <2>3. CASE TestZero
    <3>1. CASE UNCHANGED futureVars
      BY <2>0, <3>1 DEF futureVars
    <3>2. CASE stream = "open" /\ future' = "done" /\ value' = resolved
      <4>1. future = "pending" /\ value' \in SUBSET File
        BY <3>2 DEF SettledWithStream, TypeOK
      <4>2. Orderly => Promise!Complete(value')
        BY <2>0, <3>2 DEF OrderlyComplete, CompleteResult, Promise!Complete, Promise!Closed
      <4> QED
        BY <2>0, <3>2, <4>1, <4>2 DEF Promise!Succeed
    <3> QED
      BY <2>0, <2>2, <2>3, <3>1, <3>2 DEF TestZero
  <2>4. CASE Handler /\ ~TestZero
    BY <2>0, <2>2, <2>4 DEF Handler, ProcessDependencies, LoadOutstanding,
       RequestDependency, ReleaseStore, futureVars
  <2>5. CASE Arrival \/ OnError
    BY <2>0, <2>5 DEF Arrival, OnNextDescriptors, OnNextOther, OnCompleted, OnError,
       futureVars, Promise!Fail
  <2>6. CASE UNCHANGED vars
    BY <2>0, <2>6 DEF vars, futureVars
  <2> QED
    BY <2>1, <2>3, <2>4, <2>5, <2>6 DEF Next
<1> QED
  BY <1>1, <1>2, SettledOnce, ResultIsComplete, Typing, PTL DEF Spec, KeepsPromise, Promise!Spec

-----------------------------------------------------------------------------
\* No file is asked for twice or after it has come, in any interleaving and
\* with any server: an import cycle cannot keep a lookup going.
THEOREM EachFileAskedOnce == Spec => AsksOnce
<1>1. FreshIsNew /\ [Next]_vars =>
        [\A f \in File : f \in unanswered' \ unanswered
            => f \notin requested \cup resolved]_vars
  <2> SUFFICES ASSUME FreshIsNew, Next, NEW f \in File, f \in unanswered' \ unanswered
               PROVE  f \notin requested \cup resolved
    OBVIOUS
  <2>1. CASE Caller
    BY <2>1, LookupAssumption DEF Caller, StartSend, StartLoad, StartStore, Get
  <2>2. CASE Handler
    BY <2>2 DEF Handler, ProcessDependencies, LoadOutstanding, RequestDependency,
       ReleaseStore, TestZero, CancelCall, FreshIsNew
  <2>3. CASE Arrival \/ OnError
    BY <2>3 DEF Arrival, OnNextDescriptors, OnNextOther, OnCompleted, OnError
  <2> QED
    BY <2>1, <2>2, <2>3 DEF Next
<1> QED
  BY <1>1, FreshHolds, PTL DEF Spec, AsksOnce
=============================================================================
