----------------------- MODULE ServiceResolutionProofs -----------------------
(***************************************************************************)
(* Theorems about resolutions, for any services, lists and deadline.       *)
(***************************************************************************)
EXTENDS ServiceResolution, TLAPS

-----------------------------------------------------------------------------
(***************************************************************************)
(* The thread's way through the list.  Types and progress need each other: *)
(* a lookup has a number of the list because the list is settled by then.  *)
(***************************************************************************)
Sound == TypeOK /\ Progress

LEMMA SoundInit ==
  Init => Sound
<1> SUFFICES ASSUME Init PROVE Sound
  OBVIOUS
<1> USE ResolutionAssumption DEF Init
<1>1. TypeOK
  BY DEF TypeOK, Outcome
<1>2. Progress
  BY DEF Progress, ResolveExact
<1> QED BY <1>1, <1>2 DEF Sound

\* What it takes to go on to the next lookup, or to leave after the last.
LEMMA Advance ==
  ASSUME Sound, pc = "looking", NextService,
         UNCHANGED <<goal, listVars, now>>,
         lost' \subseteq 1..index, goal # All => lost' = {},
         result' = (1..index) \ lost'
  PROVE  Sound'
<1>1. /\ index \in 1..Len(listed)
      /\ Len(listed) \in Nat
      /\ UNCHANGED <<goal, listCall, listFuture, listed, now>>
      /\ listFuture = "done" /\ listCall # "none"
      /\ goal # All => IsListed(goal)' /\ index = 1
  BY DEF Sound, TypeOK, Progress, Lookups, IsListed, listVars
<1>2. CASE goal = All /\ index < Len(listed)
  <2>1. pc' = "looking" /\ index' = index + 1 /\ lookup' = "pending" /\ due' = now + Deadline
    BY <1>2 DEF NextService, StartLookup
  <2>2. TypeOK'
    BY <1>1, <1>2, <2>1, ResolutionAssumption DEF Sound, TypeOK, Outcome
  <2>3. Progress'
    BY <1>1, <1>2, <2>1 DEF Progress, ResolveExact, Lookups
  <2> QED BY <2>2, <2>3 DEF Sound
<1>3. CASE ~(goal = All /\ index < Len(listed))
  <2>1. pc' = "returned" /\ UNCHANGED <<index, lookup, due>>
    BY <1>3 DEF NextService, Leave
  <2>2. TypeOK'
    BY <1>1, <2>1 DEF Sound, TypeOK
  <2>3. ResolveExact'
    BY <1>1, <1>3, <2>1 DEF ResolveExact
  <2>4. Progress'
    BY <1>1, <2>1, <2>3 DEF Progress
  <2> QED BY <2>2, <2>4 DEF Sound
<1> QED BY <1>2, <1>3

\* What it takes for a resolution to end with an exception.
LEMMA GiveUp ==
  ASSUME Sound, pc \in {"listing", "looking"}, Leave("threw"),
         UNCHANGED <<goal, result, listVars, now>>,
         pc = "looking" => lost' \subseteq 1..index,
         pc = "listing" => lost' = lost
  PROVE  Sound'
<1>1. lost' \subseteq 1..Len(listed)
  <2>1. CASE pc = "looking"
    <3>1. index \in 0..Len(listed) /\ Len(listed) \in Nat
      BY DEF Sound, TypeOK
    <3> QED BY <2>1, <3>1
  <2>2. CASE pc = "listing"
    BY <2>2 DEF Sound, TypeOK
  <2> QED BY <2>1, <2>2
<1>2. TypeOK'
  BY <1>1 DEF Sound, TypeOK, Leave, listVars
<1>3. Progress'
  BY DEF Sound, Progress, ResolveExact, Leave, listVars
<1> QED BY <1>2, <1>3 DEF Sound

LEMMA SoundNext ==
  ASSUME Sound, [Next]_vars
  PROVE  Sound'
<1>1. CASE ListServices
  <2>1. TypeOK'
    BY <1>1, ResolutionAssumption DEF ListServices, Sound, TypeOK
  <2>2. Progress'
    BY <1>1 DEF ListServices, Sound, Progress, ResolveExact
  <2> QED BY <2>1, <2>2 DEF Sound
<1>2. CASE GotList
  <2>1. pc = "listing" /\ listFuture = "done" /\ UNCHANGED <<goal, result, listVars, lost, now>>
    BY <1>2 DEF GotList
  <2>2. CASE (IF goal = All THEN listed # <<>> ELSE IsListed(goal)) /\ StartLookup(1)
    <3>1. Len(listed) \in Nat \ {0}
      BY <2>2 DEF Sound, TypeOK, IsListed
    <3>2. TypeOK'
      BY <2>1, <2>2, <3>1, ResolutionAssumption
         DEF Sound, TypeOK, Outcome, StartLookup, listVars
    <3>3. Progress'
      BY <2>1, <2>2, <3>1
         DEF Sound, Progress, ResolveExact, Lookups, IsListed, StartLookup, listVars
    <3> QED BY <3>2, <3>3 DEF Sound
  <2>3. CASE goal = All /\ listed = <<>> /\ Leave("returned")
    <3>1. TypeOK'
      BY <2>1, <2>3 DEF Sound, TypeOK, Leave, listVars
    <3>2. Progress'
      BY <2>1, <2>3 DEF Sound, Progress, ResolveExact, Leave, listVars
    <3> QED BY <3>1, <3>2 DEF Sound
  <2>4. CASE Leave("threw")
    BY <2>1, <2>4, GiveUp
  <2> QED BY <1>2, <2>2, <2>3, <2>4 DEF GotList
<1>3. CASE NoList
  BY <1>3, GiveUp DEF NoList
<1>4. CASE GotFiles
  <2>1. /\ pc = "looking" /\ lookup = "done" /\ NextService
        /\ result' = result \cup {index}
        /\ UNCHANGED <<goal, listVars, lost, now>>
    BY <1>4 DEF GotFiles
  <2>2. /\ lost \subseteq 1..index /\ index \notin lost
        /\ result = (1..(index - 1)) \ lost
        /\ index \in Nat /\ index >= 1 /\ index <= Lookups
    BY <2>1 DEF Sound, TypeOK, Progress
  <2>3. result' = (1..index) \ lost'
    BY <2>1, <2>2
  <2>4. goal # All => lost = {}
    BY <2>2 DEF Lookups
  <2> QED BY <2>1, <2>2, <2>3, <2>4, Advance
<1>5. CASE NoFiles
  <2>1. /\ pc = "looking" /\ lookup = "failed"
        /\ UNCHANGED <<goal, result, listVars, lost, now>>
    BY <1>5 DEF NoFiles
  <2>2. /\ lost \subseteq 1..index /\ index \in lost
        /\ result = (1..(index - 1)) \ lost
        /\ index \in Nat /\ index >= 1
    BY <2>1 DEF Sound, TypeOK, Progress
  <2>3. result' = (1..index) \ lost'
    BY <2>1, <2>2
  <2>4. CASE goal = All
    BY <1>5, <2>1, <2>2, <2>3, <2>4, Advance DEF NoFiles
  <2>5. CASE goal # All
    BY <1>5, <2>1, <2>2, <2>5, GiveUp DEF NoFiles
  <2> QED BY <2>4, <2>5
<1>6. CASE Interrupted
  <2>1. UNCHANGED <<goal, result, listVars, now>>
    BY <1>6 DEF Interrupted
  <2>2. CASE pc = "listing" /\ Leave("threw") /\ UNCHANGED lost
    BY <2>1, <2>2, GiveUp
  <2>3. CASE pc = "looking" /\ lost' = lost \cup {index}
    <3>1. /\ lost \subseteq 1..index
          /\ result = (1..(index - 1)) \ lost
          /\ index \in Nat /\ index >= 1
      BY <2>3 DEF Sound, TypeOK, Progress
    <3>2. lost' \subseteq 1..index /\ result' = (1..index) \ lost'
      BY <2>1, <2>3, <3>1
    <3>3. CASE goal = All
      BY <1>6, <2>1, <2>3, <3>2, <3>3, Advance DEF Interrupted
    <3>4. CASE goal # All
      BY <1>6, <2>1, <2>3, <3>2, <3>4, GiveUp DEF Interrupted
    <3> QED BY <3>3, <3>4
  <2> QED BY <1>6, <2>2, <2>3 DEF Interrupted
<1>7. CASE ListCallback
  <2>1. /\ UNCHANGED <<threadVars, lookup, lost, now>>
        /\ listCall # "none" /\ listCall' \in {"open", "halfClosed", "closed"}
        /\ \/ UNCHANGED <<listFuture, listed>>
           \/ listFuture = "pending" /\ listFuture' = "done" /\ listed' \in Seq(Service)
           \/ listFuture = "pending" /\ listFuture' = "failed" /\ listed' = listed
    BY <1>7, ResolutionAssumption DEF ListCallback, OnNextList, ListEnds, Sound, TypeOK, Outcome
  <2>2. CASE UNCHANGED <<listFuture, listed>>
    <3>1. TypeOK'
      BY <2>1, <2>2 DEF Sound, TypeOK, threadVars
    <3>2. Progress'
      BY <2>1, <2>2 DEF Sound, Progress, ResolveExact, Lookups, IsListed, threadVars
    <3> QED BY <3>1, <3>2 DEF Sound
  <2>3. CASE listFuture = "pending" /\ listFuture' # "pending"
    <3>1. listed = <<>> /\ pc \notin {"looking", "returned"}
      BY <2>3 DEF Sound, Progress
    <3>2. Len(listed) = 0 /\ index = 0 /\ lost = {} /\ result = {}
      BY <3>1 DEF Sound, TypeOK
    <3>3. listed' \in Seq(Service) /\ Len(listed') \in Nat
      BY <2>1, <2>3 DEF Sound, TypeOK
    <3>4. TypeOK'
      BY <2>1, <2>3, <3>2, <3>3 DEF Sound, TypeOK, Outcome, threadVars
    <3>5. Progress'
      BY <2>1, <2>3, <3>1, <3>2 DEF Sound, Progress, ResolveExact, threadVars
    <3> QED BY <3>4, <3>5 DEF Sound
  <2> QED BY <2>1, <2>2, <2>3
<1>8. CASE LookupDone
  <2>1. TypeOK'
    BY <1>8 DEF LookupDone, Sound, TypeOK, Outcome, threadVars, listVars
  <2>2. Progress'
    BY <1>8 DEF LookupDone, Sound, Progress, ResolveExact, Lookups, IsListed,
                threadVars, listVars
  <2> QED BY <2>1, <2>2 DEF Sound
<1>9. CASE LookupFails
  <2>1. /\ pc = "looking" /\ lookup = "pending" /\ lookup' = "failed"
        /\ lost' = lost \cup {index}
        /\ UNCHANGED <<threadVars, listVars, now>>
    BY <1>9 DEF LookupFails
  <2>2. index \in Nat /\ index >= 1
    BY <2>1 DEF Sound, TypeOK, Progress
  <2>3. TypeOK'
    BY <2>1, <2>2 DEF Sound, TypeOK, Outcome, threadVars, listVars
  <2>4. Progress'
    BY <2>1, <2>2 DEF Sound, Progress, ResolveExact, Lookups, IsListed,
                      threadVars, listVars
  <2> QED BY <2>3, <2>4 DEF Sound
<1>10. CASE Tick
  <2>1. TypeOK'
    BY <1>10 DEF Tick, Sound, TypeOK, threadVars, listVars
  <2>2. Progress'
    BY <1>10 DEF Tick, Sound, Progress, ResolveExact, Lookups, IsListed,
                 threadVars, listVars
  <2> QED BY <2>1, <2>2 DEF Sound
<1>11. CASE UNCHANGED vars
  <2>1. TypeOK'
    BY <1>11 DEF vars, Sound, TypeOK, threadVars, listVars
  <2>2. Progress'
    BY <1>11 DEF vars, Sound, Progress, ResolveExact, Lookups, IsListed,
                 threadVars, listVars
  <2> QED BY <2>1, <2>2 DEF Sound
<1> QED
  BY <1>1, <1>2, <1>3, <1>4, <1>5, <1>6, <1>7, <1>8, <1>9, <1>10, <1>11
     DEF Next, Thread

\* The types hold, and the thread never leaves the list it was given.
LEMMA AlwaysSound ==
  Spec => []Sound
<1>1. Sound /\ [Next]_vars => Sound'
  BY SoundNext
<1> QED BY SoundInit, <1>1, PTL DEF Spec

\* Types of all variables of a resolution.
THEOREM Typing ==
  Spec => []TypeOK
<1>1. Sound => TypeOK
  BY DEF Sound
<1> QED BY AlwaysSound, <1>1, PTL

\* What a registration or a call comes back with, for every list of services
\* and whichever lookups fail or are interrupted.
THEOREM ResolutionIsExact ==
  Spec => []ResolveExact
<1>1. Sound => ResolveExact
  BY DEF Sound, Progress
<1> QED BY AlwaysSound, <1>1, PTL

\* The list does not change any more once the thread may have it.
THEOREM ListIsStable ==
  Spec => StableList
<1>1. ASSUME [Next]_vars, listFuture # "pending"
      PROVE  UNCHANGED <<listFuture, listed>>
  BY <1>1 DEF Next, Thread, ListServices, GotList, NoList, GotFiles, NoFiles, Interrupted,
       ListCallback, OnNextList, ListEnds, LookupDone, LookupFails, Tick,
       vars, listVars
<1>2. [Next]_vars => [listFuture # "pending" => UNCHANGED <<listFuture, listed>>]_vars
  BY <1>1
<1> QED BY <1>2, PTL DEF Spec, StableList

-----------------------------------------------------------------------------
(***************************************************************************)
(* Time.  What a deadline allows is at most one unit of Deadline more than *)
(* the calls before it took.                                               *)
(***************************************************************************)

\* One more call, one more deadline.
LEMMA OneMore ==
  ASSUME NEW i \in Nat, NEW t \in Nat, t <= Deadline * (i + 1)
  PROVE  t + Deadline <= Deadline * ((i + 1) + 1)
<1>1. Deadline \in Nat
  BY ResolutionAssumption
<1>2. Deadline * ((i + 1) + 1) = Deadline * (i + 1) + Deadline
  BY <1>1
<1>3. Deadline * (i + 1) \in Nat
  BY <1>1
<1> QED BY <1>1, <1>2, <1>3

LEMMA NoFewer ==
  ASSUME NEW i \in Nat, NEW j \in Nat, i <= j
  PROVE  Deadline * (i + 1) <= Deadline * (j + 1)
<1>1. Deadline \in Nat
  BY ResolutionAssumption
<1>2. PICK k \in Nat : j = i + k
  <2>1. j - i \in Nat /\ j = i + (j - i)
    OBVIOUS
  <2> QED BY <2>1
<1>3. Deadline * (j + 1) = Deadline * (i + 1) + Deadline * k
  BY <1>1, <1>2
<1>4. Deadline * k \in Nat /\ Deadline * (i + 1) \in Nat
  BY <1>1
<1> QED BY <1>3, <1>4

LEMMA PunctualInit ==
  Init => Punctual
<1> SUFFICES ASSUME Init PROVE Punctual
  OBVIOUS
<1>1. Deadline \in Nat /\ Deadline * (0 + 1) \in Nat
  BY ResolutionAssumption
<1>2. 0 <= Lookups
  BY DEF Init, Lookups
<1> QED BY <1>1, <1>2 DEF Init, Punctual

\* What it takes to start the next lookup in time.
LEMMA PunctualStart ==
  ASSUME Sound, Punctual, StartLookup(index + 1), UNCHANGED now,
         index + 1 <= Lookups', pc # "new"
  PROVE  Punctual'
<1>1. index \in Nat /\ now \in Nat /\ due \in Nat /\ Deadline \in Nat
  BY ResolutionAssumption DEF Sound, TypeOK
<1>2. Deadline * (index + 1) \in Nat
  BY <1>1
<1>3. now <= Deadline * (index + 1)
  BY <1>1, <1>2 DEF Punctual
<1>4. now + Deadline <= Deadline * ((index + 1) + 1)
  BY <1>1, <1>3, OneMore
<1> QED
  BY <1>1, <1>4 DEF Punctual, StartLookup

\* A step that starts no call and takes no time.
LEMMA PunctualStays ==
  ASSUME Punctual, UNCHANGED <<now, due, index>>, index <= Lookups', pc' # "new"
  PROVE  Punctual'
BY DEF Punctual

\* The list of a settled future bounds the number of lookups.
LEMMA PunctualAdvance ==
  ASSUME Sound, Punctual, pc = "looking", NextService, UNCHANGED <<goal, listVars, now>>
  PROVE  Punctual'
<1>1. index <= Lookups /\ Lookups' = Lookups
  BY DEF Punctual, Lookups, listVars
<1>2. CASE goal = All /\ index < Len(listed)
  <2>1. StartLookup(index + 1)
    BY <1>2 DEF NextService
  <2>2. index + 1 <= Lookups'
    BY <1>1, <1>2 DEF Sound, TypeOK, Lookups
  <2> QED BY <2>1, <2>2, PunctualStart
<1>3. CASE ~(goal = All /\ index < Len(listed))
  BY <1>1, <1>3, PunctualStays DEF NextService, Leave
<1> QED BY <1>2, <1>3

LEMMA PunctualNext ==
  ASSUME Sound, Punctual, [Next]_vars
  PROVE  Punctual'
<1>0. index <= Lookups
  BY DEF Punctual
<1>1. CASE ListServices
  <2>1. index = 0 /\ due = 0 /\ now = 0
    BY <1>1 DEF ListServices, Sound, TypeOK, Progress, Punctual
  <2>2. Lookups' = Lookups
    BY <1>1 DEF ListServices, Lookups
  <2>3. Deadline \in Nat /\ Deadline * (0 + 1) = Deadline
    BY ResolutionAssumption
  <2> QED BY <1>0, <1>1, <2>1, <2>2, <2>3 DEF ListServices, Punctual
<1>2. CASE GotList
  <2>1. /\ pc = "listing" /\ index = 0
        /\ UNCHANGED <<goal, listVars, now>> /\ Lookups' = Lookups
    BY <1>2 DEF GotList, Sound, Progress, Lookups, listVars
  <2>2. CASE (IF goal = All THEN listed # <<>> ELSE IsListed(goal)) /\ StartLookup(1)
    <3>1. Len(listed) \in Nat \ {0}
      BY <2>2 DEF Sound, TypeOK, IsListed
    <3>2. index + 1 = 1 /\ 1 <= Lookups'
      BY <2>1, <3>1 DEF Lookups
    <3> QED BY <2>1, <2>2, <3>2, PunctualStart
  <2>3. CASE UNCHANGED <<index, due>> /\ pc' # "new"
    BY <1>0, <2>1, <2>3, PunctualStays
  <2> QED BY <1>2, <2>2, <2>3 DEF GotList, Leave
<1>3. CASE NoList
  <2>1. UNCHANGED <<now, due, index>> /\ Lookups' = Lookups /\ pc' # "new"
    BY <1>3 DEF NoList, Leave, Lookups, listVars
  <2> QED BY <1>0, <2>1, PunctualStays
<1>4. CASE GotFiles
  BY <1>4, PunctualAdvance DEF GotFiles
<1>5. CASE NoFiles \/ Interrupted
  <2>1. UNCHANGED <<goal, listVars, now>> /\ Lookups' = Lookups
    BY <1>5 DEF NoFiles, Interrupted, Lookups, listVars
  <2>2. CASE Leave("threw")
    BY <1>0, <2>1, <2>2, PunctualStays DEF Leave
  <2>3. CASE pc = "looking" /\ NextService
    BY <2>1, <2>3, PunctualAdvance
  <2> QED BY <1>5, <2>2, <2>3 DEF NoFiles, Interrupted
<1>6. CASE ListCallback
  <2>1. UNCHANGED <<threadVars, now>>
    BY <1>6 DEF ListCallback, OnNextList, ListEnds
  <2>2. pc # "new"
    BY <1>6 DEF ListCallback, OnNextList, ListEnds, Sound, Progress
  <2>3. index <= Lookups'
    <3>1. CASE UNCHANGED listed
      BY <1>0, <2>1, <3>1 DEF Lookups, threadVars
    <3>2. CASE listFuture = "pending" /\ listed' \in Seq(Service)
      <4>1. listed = <<>> /\ index \in 0..Len(listed)
        BY <3>2 DEF Sound, TypeOK, Progress
      <4>2. index = 0 /\ Len(listed') \in Nat
        BY <3>2, <4>1
      <4> QED BY <4>2 DEF Lookups
    <3> QED
      BY <1>6, <3>1, <3>2, ResolutionAssumption DEF ListCallback, OnNextList, ListEnds
  <2> QED BY <2>1, <2>2, <2>3, PunctualStays DEF threadVars
<1>7. CASE LookupDone \/ LookupFails
  <2>1. /\ UNCHANGED <<threadVars, now>> /\ Lookups' = Lookups
        /\ pc # "new"
    BY <1>7 DEF LookupDone, LookupFails, Lookups, threadVars, listVars
  <2> QED BY <1>0, <2>1, PunctualStays DEF threadVars
<1>8. CASE Tick
  <2>1. /\ now' = now + 1 /\ now < due /\ UNCHANGED <<pc, due, index>>
        /\ Lookups' = Lookups /\ now \in Nat /\ due \in Nat
    BY <1>8 DEF Tick, Lookups, Sound, TypeOK, threadVars, listVars
  <2> QED BY <2>1 DEF Punctual
<1>9. CASE UNCHANGED vars
  <2>1. UNCHANGED <<pc, now, due, index>> /\ Lookups' = Lookups
    BY <1>9 DEF vars, Lookups, threadVars, listVars
  <2> QED BY <2>1 DEF Punctual
<1> QED
  BY <1>1, <1>2, <1>3, <1>4, <1>5, <1>6, <1>7, <1>8, <1>9 DEF Next, Thread

\* An HTTP request waits for the list and each lookup for one deadline at most,
\* whatever the server does or leaves out.
THEOREM WaitIsBounded ==
  Spec => []TimeBound
<1>1. Sound /\ Punctual => TimeBound
  <2> SUFFICES ASSUME Sound, Punctual PROVE TimeBound
    OBVIOUS
  <2>1. /\ index \in Nat /\ now \in Nat /\ due \in Nat /\ Lookups \in Nat
        /\ Deadline \in Nat
    BY ResolutionAssumption DEF Sound, TypeOK, Lookups
  <2>2. Deadline * (index + 1) \in Nat /\ Deadline * (Lookups + 1) \in Nat
    BY <2>1
  <2>3. Deadline * (index + 1) <= Deadline * (Lookups + 1)
    BY <2>1, NoFewer DEF Punctual
  <2> QED BY <2>1, <2>2, <2>3 DEF Punctual, TimeBound
<1>2. Sound /\ Punctual /\ [Next]_vars => Punctual'
  BY PunctualNext
<1> QED BY AlwaysSound, PunctualInit, <1>1, <1>2, PTL DEF Spec
-----------------------------------------------------------------------------
(***************************************************************************)
(* To a registration or a call, a resolution is a ResolutionPromise.       *)
(***************************************************************************)

\* What a step can do to what the caller sees.
LEMMA StepKinds ==
  ASSUME Sound, [Next]_vars
  PROVE  /\ UNCHANGED goal
         /\ \/ UNCHANGED <<pc, listFuture, listed, result>>
            \/ ~Ended /\ ~Ended' /\ UNCHANGED <<listFuture, listed>>
            \/ /\ UNCHANGED pc /\ listFuture = "pending"
               /\ listFuture' = "done" /\ listed' \in Lists
            \/ /\ UNCHANGED <<pc, listed>> /\ listFuture = "pending"
               /\ listFuture' = "failed"
            \/ ~Ended /\ pc' = "threw" /\ UNCHANGED <<listFuture, listed>>
            \/ ~Ended /\ pc' = "returned" /\ UNCHANGED <<listFuture, listed>>
<1> USE DEF Ended, listVars, threadVars
<1>1. CASE ListServices
  BY <1>1 DEF ListServices
<1>2. CASE GotList
  BY <1>2 DEF GotList, StartLookup, Leave
<1>3. CASE NoList
  BY <1>3 DEF NoList, Leave
<1>4. CASE GotFiles
  BY <1>4 DEF GotFiles, NextService, StartLookup, Leave
<1>5. CASE NoFiles
  BY <1>5 DEF NoFiles, NextService, StartLookup, Leave
<1>6. CASE Interrupted
  BY <1>6 DEF Interrupted, NextService, StartLookup, Leave
<1>7. CASE ListCallback
  <2>1. CASE ListEnds
    BY <2>1 DEF ListEnds
  <2>2. CASE \E l \in Lists : OnNextList(l)
    BY <2>2 DEF OnNextList
  <2> QED BY <1>7, <2>1, <2>2 DEF ListCallback
<1>8. CASE LookupDone \/ LookupFails \/ Tick \/ UNCHANGED vars
  BY <1>8 DEF LookupDone, LookupFails, Tick, vars
<1> QED
  BY <1>1, <1>2, <1>3, <1>4, <1>5, <1>6, <1>7, <1>8 DEF Next, Thread

LEMMA StepIsPromised ==
  ASSUME Sound, Sound', [Next]_vars
  PROVE  [Promise!Next]_(Promise!vars)
<1> USE DEF Promise!vars, Promise!ServicesIn
<1>1. UNCHANGED goal
  BY StepKinds
<1>2. CASE UNCHANGED <<pc, listFuture, listed, result>>
  <2>1. Handed' = Handed /\ Ended' = Ended
    BY <1>1, <1>2 DEF Handed, Ended
  <2> QED BY <1>1, <1>2, <2>1
<1>3. CASE ~Ended /\ ~Ended' /\ UNCHANGED <<listFuture, listed>>
  <2>1. Handed = {} /\ Handed' = {} /\ pc # "threw" /\ pc' # "threw"
    BY <1>3 DEF Handed, Ended
  <2> QED BY <1>1, <1>3, <2>1
<1>4. CASE UNCHANGED pc /\ listFuture = "pending" /\ listFuture' # "pending"
  <2>1. listed = <<>> /\ pc # "returned"
    BY <1>4 DEF Sound, Progress
  <2>2. Handed = {} /\ Handed' = {} /\ Ended' = Ended
    BY <1>4, <2>1 DEF Handed, Ended
  <2>3. CASE pc = "threw"
    BY <1>1, <1>4, <2>2, <2>3 DEF Ended
  <2>4. CASE ~Ended /\ listFuture' = "done" /\ listed' \in Lists
    <3>1. Promise!List
      BY <1>1, <1>4, <2>1, <2>2, <2>4 DEF Promise!List, Ended
    <3> QED BY <3>1 DEF Promise!Next
  <2>5. CASE ~Ended /\ listFuture' = "failed" /\ UNCHANGED listed
    BY <1>1, <1>4, <2>1, <2>2, <2>5 DEF Ended
  <2>6. \/ listFuture' = "done" /\ listed' \in Lists
        \/ listFuture' = "failed" /\ UNCHANGED listed
    BY <1>4, StepKinds DEF Ended
  <2> QED BY <2>1, <2>3, <2>4, <2>5, <2>6 DEF Ended
<1>5. CASE ~Ended /\ pc' = "threw" /\ UNCHANGED <<listFuture, listed>>
  <2>1. Handed = {} /\ Handed' = {} /\ Ended'
    BY <1>5 DEF Handed, Ended
  <2>2. Promise!Throw
    BY <1>1, <1>5, <2>1 DEF Promise!Throw
  <2> QED BY <2>2 DEF Promise!Next
<1>6. CASE ~Ended /\ pc' = "returned" /\ UNCHANGED <<listFuture, listed>>
  <2>1. Handed = {} /\ Ended' /\ pc # "threw"
    BY <1>6 DEF Handed, Ended
  <2>2. listFuture = "done" /\ ResolveExact'
    BY <1>6 DEF Sound, Progress
  <2>3. listed \in Seq(Service) /\ result' \subseteq 1..Len(listed)
    BY <1>6 DEF Sound, TypeOK
  <2>4. DOMAIN listed = 1..Len(listed)
    BY <2>3
  <2>5. IF goal = All THEN Handed' \subseteq Promise!ServicesIn(listed)
                      ELSE goal \in Promise!ServicesIn(listed) /\ Handed' = {goal}
    <3>1. CASE goal = All
      BY <1>1, <1>6, <2>3, <2>4, <3>1 DEF Handed
    <3>2. CASE goal # All
      BY <1>1, <1>6, <2>2, <2>4, <3>2 DEF Handed, ResolveExact, IsListed
    <3> QED BY <3>1, <3>2
  <2>6. Promise!Return
    BY <1>1, <1>6, <2>1, <2>2, <2>5 DEF Promise!Return
  <2> QED BY <2>6 DEF Promise!Next
<1> QED
  BY <1>2, <1>3, <1>4, <1>5, <1>6, StepKinds

\* The steps of resolveServices and resolveService between the first rpc and the
\* return implement ResolutionPromise, whatever the server sends and however
\* lookups fail: one list, taken once, and one result made of it.
THEOREM ResolutionKeepsPromise ==
  Spec => KeepsPromise
<1>1. Init => Promise!Init
  BY DEF Init, Promise!Init, Handed, Ended
<1>2. Sound /\ Sound' /\ [Next]_vars => [Promise!Next]_(Promise!vars)
  BY StepIsPromised
<1> QED
  BY AlwaysSound, <1>1, <1>2, PTL DEF Spec, KeepsPromise, Promise!Spec
=============================================================================
