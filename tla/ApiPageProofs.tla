---------------------------- MODULE ApiPageProofs ----------------------------
(***************************************************************************)
(* What ApiPage guarantees for any documents, operations and visits.       *)
(***************************************************************************)
EXTENDS ApiPage, TLAPS

LEMMA OneMore ==
  ASSUME NEW n \in Nat, NEW S \in SUBSET (1..n)
  PROVE  S \cup {n + 1} \subseteq 1..(n + 1)
<1>1. \A m \in 1..n : m \in 1..(n + 1)
  OBVIOUS
<1>2. n + 1 \in 1..(n + 1)
  OBVIOUS
<1> QED
  BY <1>1, <1>2

\* Only operations ask to be resolved.
LEMMA AskTypes == Unresolved' \subseteq Operation
BY DEF Unresolved, OnDisplay

LEMMA DrawTypes ==
  ASSUME TypeOK, Draw
  PROVE  /\ batch' \subseteq Operation \cup {Schemes}
         /\ system' \in BOOLEAN /\ timer' \in BOOLEAN
BY AskTypes DEF Draw, RequestResolvedSubtree, TypeOK, ResolveTypes

\* The variables keep their types.
THEOREM Typing == Spec => []TypeOK
<1> USE PageAssumption DEF None
<1>1. Init => TypeOK
  <2> SUFFICES ASSUME Init PROVE TypeOK
    OBVIOUS
  <2> USE DEF Init
  <2>1. DocTypes
    BY DEF DocTypes
  <2>2. ResolveTypes
    <3>1. 0 \in 0..Len(downloads)
      OBVIOUS
    <3>2. Idle \in Run
      BY <3>1 DEF Idle, Run
    <3> QED
      BY <3>1, <3>2 DEF ResolveTypes
  <2>3. CallTypes
    BY DEF CallTypes
  <2> QED
    BY <2>1, <2>2, <2>3 DEF TypeOK
<1>2. TypeOK /\ [Next]_vars => TypeOK'
  <2> SUFFICES ASSUME TypeOK, [Next]_vars PROVE TypeOK'
    OBVIOUS
  <2> USE DEF TypeOK
  <2>a. ASSUME UNCHANGED callVars PROVE CallTypes'
    BY <2>a DEF CallTypes, callVars
  <2>b. ASSUME UNCHANGED <<visit, docVars>> PROVE DocTypes'
    BY <2>b DEF DocTypes, docVars
  <2>c. ASSUME Draw, UNCHANGED <<downloads, resolved, running, viewVars>> PROVE ResolveTypes'
    <3>1. Run' = Run
      BY <2>c DEF Run
    <3> QED
      BY <2>c, <3>1, DrawTypes DEF ResolveTypes, viewVars
  <2>1. ASSUME NEW u \in Url, LoadSpec(u) PROVE TypeOK'
    <3> USE <2>1 DEF LoadSpec
    <3>1. Len(downloads') = Len(downloads) + 1 /\ downloads' \in Seq(Url)
      BY DEF DocTypes
    <3>2. Run \subseteq Run' /\ 0..Len(downloads) \subseteq 0..Len(downloads')
      BY <3>1 DEF Run, DocTypes
    <3>3. DocTypes'
      <4>0. Len(downloads) \in Nat /\ fetching' = fetching \cup {Len(downloads')}
        BY <3>1 DEF DocTypes
      <4>1. fetching' \subseteq 1..Len(downloads')
        BY <3>1, <4>0, OneMore DEF DocTypes
      <4>2. {text, json}' \subseteq 0..Len(downloads')
        BY <3>1, <4>0 DEF DocTypes
      <4> QED
        BY <3>1, <4>1, <4>2 DEF DocTypes
    <3>4. ResolveTypes'
      BY <3>2 DEF ResolveTypes, resolveVars, batchVars, viewVars
    <3>5. CallTypes'
      BY DEF CallTypes
    <3> QED
      BY <3>3, <3>4, <3>5
  <2>2. ASSUME NEW n \in fetching, Answer(n) PROVE TypeOK'
    <3>0. n \in 1..Len(downloads) /\ downloads[n] \in Url
      BY DEF DocTypes
    <3>1. CASE DownloadFails(n)
      <4> USE <3>1 DEF DownloadFails
      <4>1. DocTypes'
        BY DEF DocTypes
      <4>2. ResolveTypes'
        BY DEF Run, ResolveTypes, resolveVars, batchVars, viewVars
      <4>3. CallTypes'
        BY DEF CallTypes
      <4> QED
        BY <4>1, <4>2, <4>3
    <3>2. CASE Downloaded(n)
      <4>1. DocTypes'
        BY <3>0, <3>2 DEF Downloaded, DocTypes
      <4>2. ResolveTypes'
        BY <3>2, AskTypes
           DEF Downloaded, RequestResolvedSubtree, Run, DocTypes, ResolveTypes, viewVars
      <4> QED
        BY <2>a, <3>2, <4>1, <4>2 DEF Downloaded
    <3>3. CASE DownloadedText(n)
      <4>1. DocTypes'
        BY <3>0, <3>3 DEF DownloadedText, DocTypes
      <4> QED
        BY <2>a, <2>c, <3>3, <4>1 DEF DownloadedText
    <3>4. CASE DownloadedBlank(n)
      <4> USE <3>4 DEF DownloadedBlank
      <4>1. DocTypes'
        BY <3>0 DEF DocTypes
      <4>2. ResolveTypes'
        BY DEF RequestResolvedSubtree, Run, ResolveTypes, viewVars
      <4>3. CallTypes'
        BY DEF CallTypes
      <4> QED
        BY <4>1, <4>2, <4>3
    <3> QED
      BY <2>2, <3>1, <3>2, <3>3, <3>4 DEF Answer
  <2>3. ASSUME NEW p \in Operation, Toggle(p) PROVE TypeOK'
    <3>1. ResolveTypes'
      BY <2>3, DrawTypes DEF Toggle, Run, docVars, ResolveTypes
    <3> QED
      BY <2>a, <2>b, <2>3, <3>1 DEF Toggle
  <2>4. CASE OtherChange
    <3>1. ResolveTypes'
      BY <2>4, AskTypes
         DEF OtherChange, Draw, RequestResolvedSubtree, Run, docVars, viewVars, ResolveTypes
    <3> QED
      BY <2>a, <2>b, <2>4, <3>1 DEF OtherChange
  <2>5. ASSUME NEW s \in Slot, DebResolveSubtrees(s) PROVE TypeOK'
    <3> USE <2>5 DEF DebResolveSubtrees
    <3>1. Run' = Run
      BY DEF Run, docVars
    <3>2. [doc |-> json, base |-> resolved, paths |-> batch] \in Run
      BY DEF Run, DocTypes, ResolveTypes
    <3>3. ResolveTypes'
      BY <3>1, <3>2 DEF ResolveTypes, docVars, viewVars
    <3> QED
      BY <2>a, <2>b, <3>3
  <2>6. ASSUME NEW s \in Slot, Resolve(s) \/ ResolveThrows(s) PROVE TypeOK'
    <3> USE <2>6 DEF Resolve, ResolveThrows
    <3>1. Run' = Run /\ downloads' = downloads
      BY DEF Run, docVars
    <3>2. running' \in [Slot -> Run]
      <4>1. Idle \in Run
        BY DEF Run, Idle, DocTypes
      <4> QED
        BY <4>1 DEF ResolveTypes
    <3>3. running[s] \in Run
      BY DEF ResolveTypes
    <3>4. resolved' \in [Operation -> 0..Len(downloads)]
      BY <3>3 DEF Run, ResolveTypes
    <3>5. ResolveTypes'
      BY <3>1, <3>2, <3>4, AskTypes
         DEF RequestResolvedSubtree, ResolveTypes, batchVars, viewVars
    <3> QED
      BY <2>a, <2>b, <3>5
  <2>7. ASSUME NEW p \in Operation, Execute(p) PROVE TypeOK'
    <3> USE <2>7 DEF Execute
    <3>1. Len(calls') = Len(calls) + 1 /\ calls' \in Seq(Operation)
      BY DEF CallTypes
    <3>2. pending' \subseteq 1..Len(calls') /\ busy' \subseteq Operation
      <4>0. Len(calls) \in Nat /\ pending' = pending \cup {Len(calls')}
        BY <3>1 DEF CallTypes
      <4>1. busy' \subseteq Operation
        BY DEF CallTypes
      <4>2. pending' \subseteq 1..Len(calls')
        BY <3>1, <4>0, OneMore DEF CallTypes
      <4> QED
        BY <4>1, <4>2
    <3>3. request' \in [Operation -> 0..Len(calls')] /\ response' \in [Operation -> 0..Len(calls')]
      BY <3>1 DEF CallTypes
    <3>4. CallTypes'
      BY <3>1, <3>2, <3>3 DEF CallTypes
    <3> QED
      BY <2>b, <2>c, <3>4 DEF docVars
  <2>8. ASSUME NEW c \in pending, Respond(c) PROVE TypeOK'
    <3>1. CallTypes'
      BY <2>8 DEF Respond, CallTypes
    <3> QED
      BY <2>b, <2>c, <2>8, <3>1 DEF Respond, docVars
  <2>9. ASSUME NEW p \in Operation, Clear(p) PROVE TypeOK'
    <3>1. CallTypes'
      BY <2>9 DEF Clear, CallTypes
    <3> QED
      BY <2>b, <2>c, <2>9, <3>1 DEF Clear, docVars
  <2>10. ASSUME NEW t \in Tag, Fold(t) PROVE TypeOK'
    <3> USE <2>10 DEF Fold
    <3>1. ResolveTypes'
      BY DrawTypes DEF Run, docVars, ResolveTypes
    <3>2. CallTypes'
      BY DEF CallTypes
    <3> QED
      BY <2>b, <3>1, <3>2
  <2>11. CASE UNCHANGED vars
    <3>1. Run' = Run
      BY <2>11 DEF vars, docVars, Run
    <3>2. ResolveTypes'
      BY <2>11, <3>1 DEF vars, docVars, resolveVars, batchVars, viewVars, ResolveTypes
    <3> QED
      BY <2>a, <2>b, <2>11, <3>2 DEF vars
  <2> QED
    BY <2>1, <2>2, <2>3, <2>4, <2>5, <2>6, <2>7, <2>8, <2>9, <2>10, <2>11
       DEF Next, User, Resolving
<1> QED
  BY <1>1, <1>2, PTL DEF Spec

-----------------------------------------------------------------------------
\* However downloads, foldings, openings and runs overlap, the reset of the batch loses
\* none of what is on display: a step that puts an operation there asks for it, and so
\* does one that empties the batch.
THEOREM RequestsAreKept == Spec => []NothingLost
<1> USE PageAssumption DEF None
<1>1. Init => NothingLost
  BY DEF Init, NothingLost, Resolvable
<1>2. TypeOK /\ NothingLost /\ [Next]_vars => NothingLost'
  <2> SUFFICES ASSUME TypeOK, NothingLost, [Next]_vars, Resolvable',
                      NEW p \in Unresolved'
               PROVE  \/ (p \in batch /\ system /\ timer)'
                      \/ \E s \in Slot : (p \in running[s].paths
                           /\ downloads[running[s].doc] \notin Unresolvable)'
    BY DEF NothingLost
  <2>a. ASSUME Draw PROVE (p \in batch /\ system /\ timer)'
    BY <2>a DEF Draw, RequestResolvedSubtree
  <2>1. ASSUME NEW u \in Url, LoadSpec(u) PROVE FALSE
    BY <2>1 DEF LoadSpec, Unresolved, OnDisplay, Mounted
  <2>2. ASSUME NEW n \in fetching, Answer(n) PROVE (p \in batch /\ system /\ timer)'
    <3>1. ~DownloadFails(n)
      BY DEF DownloadFails, Unresolved, OnDisplay, Mounted
    <3>2. CASE Downloaded(n)
      BY <3>2 DEF Downloaded, RequestResolvedSubtree
    <3>3. CASE DownloadedText(n)
      BY <2>a, <3>3 DEF DownloadedText
    <3>4. ~DownloadedBlank(n)
      BY DEF DownloadedBlank, Unresolved, OnDisplay, Mounted
    <3> QED
      BY <2>2, <3>1, <3>2, <3>3, <3>4 DEF Answer
  <2>3. CASE \E q \in Operation : Toggle(q) \/ Execute(q) \/ Clear(q)
    BY <2>a, <2>3 DEF Toggle, Execute, Clear
  <2>4. CASE \E t \in Tag : Fold(t)
    BY <2>a, <2>4 DEF Fold
  <2>5. CASE OtherChange
    BY <2>a, <2>5 DEF OtherChange, RequestResolvedSubtree
  <2>6. ASSUME NEW c \in pending, Respond(c) PROVE (p \in batch /\ system /\ timer)'
    BY <2>a, <2>6 DEF Respond
  <2>7. ASSUME NEW s \in Slot, Resolve(s) PROVE (p \in batch /\ system /\ timer)'
    BY <2>7 DEF Resolve, RequestResolvedSubtree
  <2>b. ASSUME UNCHANGED <<docVars, viewVars, resolved>>
        PROVE  \/ p \in batch /\ system /\ timer
               \/ \E s \in Slot : p \in running[s].paths
                    /\ downloads[running[s].doc] \notin Unresolvable
    <3>1. Resolvable /\ p \in Unresolved
      BY <2>b DEF Resolvable, Unresolved, OnDisplay, Mounted, docVars, viewVars
    <3> QED
      BY <3>1 DEF NothingLost
  <2>8. ASSUME NEW s \in Slot, DebResolveSubtrees(s)
        PROVE  \E t \in Slot : (p \in running[t].paths
                 /\ downloads[running[t].doc] \notin Unresolvable)'
    <3>1. CASE \E t \in Slot : p \in running[t].paths
                 /\ downloads[running[t].doc] \notin Unresolvable
      <4>1. PICK t \in Slot : p \in running[t].paths
                 /\ downloads[running[t].doc] \notin Unresolvable
        BY <3>1
      <4>2. running[s] = Idle => t # s
        BY <4>1 DEF Idle
      <4>3. running'[t] = running[t] /\ downloads' = downloads
        BY <2>8, <4>1, <4>2 DEF DebResolveSubtrees, docVars, TypeOK, ResolveTypes
      <4> QED
        BY <4>1, <4>3
    <3>2. CASE p \in batch /\ system
      <4>1. running'[s].paths = batch /\ running'[s].doc = json /\ UNCHANGED docVars
        BY <2>8, <3>2 DEF DebResolveSubtrees, TypeOK, ResolveTypes
      <4>2. downloads[json] \notin Unresolvable /\ downloads' = downloads
        BY <4>1 DEF Resolvable, docVars
      <4> QED
        BY <3>2, <4>1, <4>2
    <3> QED
      BY <2>8, <2>b, <3>1, <3>2 DEF DebResolveSubtrees
  <2>9. ASSUME NEW s \in Slot, ResolveThrows(s)
         PROVE  \/ (p \in batch /\ system /\ timer)'
                \/ \E t \in Slot : (p \in running[t].paths
                     /\ downloads[running[t].doc] \notin Unresolvable)'
    <3>1. ASSUME NEW t \in Slot, downloads[running[t].doc] \notin Unresolvable
          PROVE  running'[t] = running[t] /\ downloads' = downloads
      BY <2>9, <3>1 DEF ResolveThrows, docVars, TypeOK, ResolveTypes
    <3> QED
      BY <2>9, <2>b, <3>1 DEF ResolveThrows, batchVars
  <2>10. CASE UNCHANGED vars
    BY <2>10, <2>b DEF vars, docVars, resolveVars, batchVars
  <2> QED
    BY <2>1, <2>2, <2>3, <2>4, <2>5, <2>6, <2>7, <2>8, <2>9, <2>10
       DEF Next, User, Resolving
<1> QED
  BY <1>1, <1>2, Typing, PTL DEF Spec

-----------------------------------------------------------------------------
\* In whatever order the downloads are answered, the address is that of the text.
THEOREM AddressIsOfText == Spec => []AddressOfText
<1>1. Init => AddressOfText
  BY DEF Init, AddressOfText
<1>2. AddressOfText /\ [Next]_vars => AddressOfText'
  <2> SUFFICES ASSUME AddressOfText, [Next]_vars PROVE AddressOfText'
    OBVIOUS
  <2> USE DEF AddressOfText
  <2>1. ASSUME NEW u \in Url, LoadSpec(u) PROVE AddressOfText'
    BY <2>1 DEF LoadSpec
  <2>2. ASSUME NEW n \in fetching, Answer(n) PROVE AddressOfText'
    BY <2>2 DEF Answer, DownloadFails, Downloaded, DownloadedText, DownloadedBlank
  <2>3. ASSUME UNCHANGED docVars PROVE AddressOfText'
    BY <2>3 DEF docVars
  <2> QED
    BY <2>1, <2>2, <2>3 DEF Next, User, Resolving, Toggle, Fold, OtherChange, DebResolveSubtrees,
       Resolve, ResolveThrows, Execute, Respond, Clear, vars
<1> QED
  BY <1>1, <1>2, PTL DEF Spec

\* Subtrees of another document can only come from a run a document has overtaken.
THEOREM StaleMeansOvertaken == Spec => StaleOnlyIfOvertaken
<1>1. TypeOK /\ [Next]_vars =>
        [Current /\ ~Current' =>
           \E n \in fetching, s \in Slot : Downloaded(n) /\ running[s] # Idle]_vars
  <2> SUFFICES ASSUME TypeOK, Next, Current,
                      ~\E n \in fetching, s \in Slot : Downloaded(n) /\ running[s] # Idle
               PROVE  Current'
    OBVIOUS
  <2> USE DEF Current
  <2>1. ASSUME UNCHANGED <<json, resolved, running>> PROVE Current'
    BY <2>1
  <2>2. ASSUME NEW n \in fetching, Downloaded(n) PROVE Current'
    <3>1. \A s \in Slot : running'[s] = Idle
      BY <2>2 DEF Downloaded
    <3> QED
      BY <2>2, <3>1 DEF Downloaded
  <2>3. ASSUME NEW s \in Slot, DebResolveSubtrees(s) PROVE Current'
    BY <2>3 DEF DebResolveSubtrees, docVars, TypeOK, ResolveTypes
  <2>4. ASSUME NEW s \in Slot, Resolve(s) PROVE Current'
    BY <2>4 DEF Resolve, docVars, TypeOK, ResolveTypes
  <2>5. ASSUME NEW s \in Slot, ResolveThrows(s) PROVE Current'
    BY <2>5 DEF ResolveThrows, docVars, TypeOK, ResolveTypes
  <2>6. ASSUME NEW n \in fetching, DownloadFails(n) \/ DownloadedText(n) \/ DownloadedBlank(n)
        PROVE  Current'
    BY <2>1, <2>6 DEF DownloadFails, DownloadedText, DownloadedBlank, resolveVars
  <2>7. CASE User
    BY <2>1, <2>7
       DEF User, LoadSpec, Toggle, Fold, OtherChange, Execute, Clear, docVars, resolveVars
  <2>8. ASSUME NEW c \in pending, Respond(c) PROVE Current'
    BY <2>1, <2>8 DEF Respond, docVars
  <2> QED
    BY <2>2, <2>3, <2>4, <2>5, <2>6, <2>7, <2>8 DEF Next, Answer, Resolving
<1> QED
  BY <1>1, Typing, PTL DEF Spec, StaleOnlyIfOvertaken

-----------------------------------------------------------------------------
\* Once all calls of an operation are answered nothing waits, and in order, the
\* answer shown is that of the request shown.
THEOREM CallsAreSettled == Spec => []CallsSettle
<1> USE DEF None
<1>1. Init => CallsInvariant
  BY DEF Init, CallsInvariant, Waiting, Latest, Ordered
<1>2. TypeOK /\ CallsInvariant /\ [Next]_vars => CallsInvariant'
  <2> SUFFICES ASSUME TypeOK, CallsInvariant, [Next]_vars PROVE CallsInvariant'
    OBVIOUS
  <2>0. CallTypes /\ Len(calls) \in Nat
    BY DEF TypeOK, CallTypes
  <2> USE DEF CallTypes, CallsInvariant
  <2>1. ASSUME NEW p \in Operation, Execute(p) PROVE CallsInvariant'
    <3> DEFINE n == Len(calls) + 1
    <3>0. /\ calls' = Append(calls, p) /\ pending' = pending \cup {n}
          /\ request' = [request EXCEPT ![p] = n] /\ busy' = busy \cup {p}
          /\ response' = response /\ visit' = visit
      BY <2>1 DEF Execute
    <3>1. /\ Len(calls') = n /\ calls'[n] = p
          /\ \A c \in 1..Len(calls) : calls'[c] = calls[c]
          /\ \A c \in 1..Len(calls') : c \in 1..Len(calls) \/ c = n
          /\ \A c \in 1..Len(calls) : c < n /\ c <= n
          /\ 1..Len(calls') \ pending' = 1..Len(calls) \ pending
      BY <2>0, <3>0
    <3> HIDE DEF n
    <3>2. Waiting'
      BY <2>0, <3>0, <3>1 DEF Waiting
    <3>3. Latest'
      <4>1. ASSUME NEW c \in 1..Len(calls') PROVE c <= request'[calls'[c]]
        <5>1. CASE c = n
          BY <2>0, <3>0, <3>1, <5>1 DEF n
        <5>2. CASE c \in 1..Len(calls)
          <6>1. calls'[c] = calls[c] /\ calls[c] \in Operation /\ c <= request[calls[c]] /\ c <= n
            BY <2>0, <3>1, <5>2 DEF Latest
          <6>2. request'[calls[c]] = n \/ request'[calls[c]] = request[calls[c]]
            BY <2>0, <3>0, <6>1
          <6> QED
            BY <5>2, <6>1, <6>2
        <5> QED
          BY <3>1, <5>1, <5>2
      <4>2. ASSUME NEW q \in Operation
            PROVE  /\ request'[q] # None => calls'[request'[q]] = q
                   /\ response'[q] # None => calls'[response'[q]] = q
        <5>1. request[q] # None => request[q] \in 1..Len(calls)
          BY <2>0
        <5>2. response[q] # None => response[q] \in 1..Len(calls)
          BY <2>0
        <5>3. (request'[q] = n /\ q = p) \/ request'[q] = request[q]
          BY <2>0, <3>0
        <5> QED
          BY <3>0, <3>1, <5>1, <5>2, <5>3 DEF Latest
      <4> QED
        BY <4>1, <4>2 DEF Latest
    <3>4. Ordered'
      <4> SUFFICES ASSUME visit.inOrder, NEW d \in 1..Len(calls), d \notin pending
                   PROVE  /\ \A c \in pending' : calls'[c] = calls'[d] => d < c
                          /\ response'[calls'[d]] # None => d <= response'[calls'[d]]
        BY <3>0, <3>1 DEF Ordered
      <4>1. \A c \in pending : calls'[c] = calls'[d] => d < c
        BY <2>0, <3>1 DEF Ordered
      <4>2. d < n
        BY <3>1
      <4>3. response'[calls'[d]] # None => d <= response'[calls'[d]]
        BY <3>0, <3>1 DEF Ordered
      <4> QED
        BY <3>0, <4>1, <4>2, <4>3
    <3> QED
      BY <3>2, <3>3, <3>4
  <2>2. ASSUME NEW c \in pending, Respond(c) PROVE CallsInvariant'
    <3>0. /\ pending' = pending \ {c} /\ busy' = busy \ {calls[c]}
          /\ response' = [response EXCEPT ![calls[c]] = c]
          /\ UNCHANGED <<calls, request, visit>>
          /\ visit.inOrder => \A d \in pending : calls[d] = calls[c] => c <= d
          /\ c \in 1..Len(calls) /\ calls[c] \in Operation
      BY <2>0, <2>2 DEF Respond
    <3>1. Waiting'
      BY <2>0, <3>0 DEF Waiting
    <3>2. Latest'
      BY <2>0, <3>0 DEF Latest
    <3>3. Ordered'
      BY <2>0, <3>0 DEF Ordered
    <3> QED
      BY <3>1, <3>2, <3>3
  <2>3. ASSUME NEW p \in Operation, Clear(p) PROVE CallsInvariant'
    BY <2>0, <2>3 DEF Clear, Waiting, Latest, Ordered
  <2>4. ASSUME UNCHANGED <<visit, calls, pending, request, response>>, busy' \subseteq busy
        PROVE  CallsInvariant'
    BY <2>4 DEF Waiting, Latest, Ordered
  <2>5. ASSUME NEW t \in Tag, Fold(t) PROVE CallsInvariant'
    BY <2>4, <2>5 DEF Fold
  <2>6. ASSUME NEW u \in Url, LoadSpec(u) PROVE CallsInvariant'
    BY <2>4, <2>6 DEF LoadSpec
  <2>7. ASSUME NEW n \in fetching, Answer(n) PROVE CallsInvariant'
    BY <2>4, <2>7 DEF Answer, DownloadFails, Downloaded, DownloadedText, DownloadedBlank, callVars
  <2> QED
    BY <2>1, <2>2, <2>3, <2>4, <2>5, <2>6, <2>7 DEF Next, User, Resolving, Toggle, OtherChange,
       DebResolveSubtrees, Resolve, ResolveThrows, vars, callVars
<1>3. TypeOK /\ CallsInvariant => CallsSettle
  <2> SUFFICES ASSUME TypeOK, CallsInvariant, NEW p \in Operation,
                      \A c \in pending : calls[c] # p
               PROVE  p \notin busy /\ (visit.inOrder => response[p] \in {None, request[p]})
    BY DEF CallsSettle
  <2>1. p \notin busy
    BY DEF CallsInvariant, Waiting
  <2>2. ASSUME visit.inOrder, response[p] # None PROVE response[p] = request[p]
    <3>1. response[p] \in 1..Len(calls) /\ request[p] \in 0..Len(calls) /\ Len(calls) \in Nat
      BY <2>2 DEF TypeOK, CallTypes
    <3>2. calls[response[p]] = p /\ response[p] <= request[p]
      BY <2>2, <3>1 DEF CallsInvariant, Latest
    <3>3. request[p] \in 1..Len(calls) \ pending /\ calls[request[p]] = p
      BY <3>1, <3>2 DEF CallsInvariant, Latest
    <3>4. request[p] <= response[p]
      BY <2>2, <3>3 DEF CallsInvariant, Ordered
    <3> QED
      BY <3>1, <3>2, <3>4
  <2> QED
    BY <2>1, <2>2
<1> QED
  BY <1>1, <1>2, <1>3, Typing, PTL DEF Spec
=============================================================================
