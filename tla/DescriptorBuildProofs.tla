------------------------ MODULE DescriptorBuildProofs ------------------------
(***************************************************************************)
(* A resolver holds exactly the usable files, for every descriptor set.    *)
(***************************************************************************)
EXTENDS DescriptorBuild, SequenceTheorems, TLAPS

LEMMA SetFixed == [Next]_vars => set' = set
BY DEF Next, vars, TakeFile, Descend, Overflow, MissingImport, BuildFrom, Reject, Finish

LEMMA PushFacts ==
  ASSUME NEW s \in Seq(Frame), NEW x \in Frame
  PROVE  /\ Append(s, x) \in Seq(Frame)
         /\ Len(Append(s, x)) = Len(s) + 1
         /\ \A i \in 1..Len(s) : Append(s, x)[i] = s[i]
         /\ Append(s, x)[Len(s) + 1] = x
BY AppendProperties

LEMMA OneFrame ==
  ASSUME NEW x \in Frame
  PROVE  <<x>> \in Seq(Frame) /\ Len(<<x>>) = 1 /\ <<x>>[1] = x
OBVIOUS

LEMMA StackFacts ==
  ASSUME TypeOK
  PROVE  /\ Len(stack) \in Nat
         /\ stack # <<>> => Len(stack) >= 1 /\ Top \in Frame
         /\ \A i \in 1..Len(stack) : stack[i] \in Frame
<1>1. stack \in Seq(Frame)
  BY DEF TypeOK
<1>2. Len(stack) \in Nat /\ \A i \in 1..Len(stack) : stack[i] \in Frame
  BY <1>1, ElementOfSeq, LenProperties
<1>3. stack # <<>> => Len(stack) \in Nat \ {0}
  BY <1>1, EmptySeq
<1> QED
  BY <1>2, <1>3 DEF Top

LEMMA ReturnFacts ==
  ASSUME TypeOK, Len(stack) > 1
  PROVE  /\ Returned \in Seq(Frame)
         /\ Len(Returned) = Len(stack) - 1
         /\ \A i \in 1..(Len(stack) - 2) : Returned[i] = stack[i]
         /\ Returned[Len(stack) - 1].file = stack[Len(stack) - 1].file
         /\ Returned[Len(stack) - 1].next = stack[Len(stack) - 1].next + 1
<1> DEFINE n == Len(stack) - 1
<1>1. n \in Nat /\ n >= 1 /\ \A i \in 1..n : stack[i] \in Frame
  BY StackFacts
<1>2. Returned = [i \in 1..n |-> IF i = n THEN [stack[i] EXCEPT !.next = @ + 1]
                                          ELSE stack[i]]
  BY DEF Returned
<1>3. \A i \in 1..n : [stack[i] EXCEPT !.next = @ + 1] \in Frame
  BY <1>1 DEF Frame
<1> HIDE DEF n
<1>4. Returned \in [1..n -> Frame]
  BY <1>1, <1>2, <1>3
<1>5. Returned \in Seq(Frame)
  BY <1>1, <1>4, SeqDef
<1>6. Len(Returned) = n
  BY <1>1, <1>4, <1>5, LenProperties
<1>7. Returned[n] = [stack[n] EXCEPT !.next = @ + 1]
  BY <1>1, <1>2
<1>8. Returned[n].file = stack[n].file /\ Returned[n].next = stack[n].next + 1
  BY <1>1, <1>7 DEF Frame
<1>9. \A i \in 1..(n - 1) : Returned[i] = stack[i]
  BY <1>1, <1>2
<1> QED
  BY <1>1, <1>5, <1>6, <1>8, <1>9 DEF n

LEMMA ImportFacts ==
  ASSUME TypeOK, NEW f \in File
  PROVE  /\ Imports(f) \in Seq(File)
         /\ Len(Imports(f)) \in Nat
         /\ \A i \in 1..Len(Imports(f)) : Imports(f)[i] \in File
<1>1. Imports(f) \in Seq(File)
  BY BuildAssumption DEF TypeOK, SetType, Imports
<1> QED
  BY <1>1, ElementOfSeq, LenProperties

\* The variables keep their types.
THEOREM Typing == Spec => []TypeOK
<1>1. Init => TypeOK
  BY EmptySeq, BuildAssumption DEF Init, TypeOK
<1>2. TypeOK /\ [Next]_vars => TypeOK'
  <2> SUFFICES ASSUME TypeOK, [Next]_vars PROVE TypeOK'
    OBVIOUS
  <2>0. set.files \subseteq File
    BY BuildAssumption DEF TypeOK, SetType
  <2>1. ASSUME NEW f \in File, TakeFile(f) PROVE TypeOK'
    <3>1. [file |-> f, next |-> 1] \in Frame
      BY DEF Frame
    <3>2. stack' \in Seq(Frame)
      BY <2>1, <3>1, OneFrame DEF TakeFile
    <3> QED
      BY <2>1, <3>2 DEF TakeFile, TypeOK
  <2>2. CASE Descend
    <3>1. [file |-> NextImport, next |-> 1] \in Frame
      BY <2>0, <2>2 DEF Descend, Frame
    <3>2. stack' \in Seq(Frame)
      BY <2>2, <3>1, PushFacts DEF Descend, TypeOK
    <3> QED
      BY <2>2, <3>2 DEF Descend, TypeOK
  <2>3. CASE MissingImport \/ Overflow
    BY <2>3, EmptySeq DEF MissingImport, Overflow, TypeOK
  <2>4. CASE BuildFrom
    <3>1. stack' \in Seq(Frame)
      BY <2>4, ReturnFacts, EmptySeq DEF BuildFrom
    <3>2. Top.file \in File
      BY <2>4, StackFacts DEF BuildFrom, Frame
    <3>3. built' \in [File -> Nat]
      BY <2>4, <3>2 DEF BuildFrom, TypeOK
    <3>4. result' \subseteq File
      BY <2>4, <3>2 DEF BuildFrom, TypeOK
    <3> QED
      BY <2>4, <3>1, <3>3, <3>4 DEF BuildFrom, TypeOK
  <2>5. CASE Reject
    BY <2>5, EmptySeq DEF Reject, TypeOK
  <2>6. CASE Finish
    BY <2>6 DEF Finish, TypeOK
  <2>7. CASE UNCHANGED vars
    BY <2>7 DEF vars, TypeOK
  <2> QED
    BY <2>1, <2>2, <2>3, <2>4, <2>5, <2>6, <2>7 DEF Next
<1> QED
  BY <1>1, <1>2, PTL DEF Spec

-----------------------------------------------------------------------------
LEMMA UsableFixed ==
  ASSUME set' = set PROVE \A f : Usable(f)' = Usable(f)
BY DEF Usable, Closed, Imports

\* A usable file is valid, in the set, and so are its imports.
LEMMA UsableImports ==
  ASSUME TypeOK, NEW f, Usable(f)
  PROVE  /\ f \in set.files \ set.invalid
         /\ \A i \in 1..Len(Imports(f)) : Usable(Imports(f)[i])
BY DEF Usable, Closed

LEMMA UsableFromImports ==
  ASSUME TypeOK, NEW f \in set.files \ set.invalid,
         \A i \in 1..Len(Imports(f)) : Usable(Imports(f)[i])
  PROVE  Usable(f)
<1> DEFINE S == {g \in set.files \ set.invalid : Usable(g)} \cup {f}
<1>1. \A g \in S : \A i \in 1..Len(Imports(g)) : Usable(Imports(g)[i])
  BY UsableImports
<1>2. \A g \in S : \A i \in 1..Len(Imports(g)) : Imports(g)[i] \in S
  BY <1>1, UsableImports
<1>3. S \in SUBSET (set.files \ set.invalid) /\ f \in S
  OBVIOUS
<1> HIDE DEF S
<1> QED
  BY <1>2, <1>3 DEF Usable, Closed

-----------------------------------------------------------------------------
\* What a file comes to is a matter of the set alone.
LEMMA VerdictFixed ==
  ASSUME set' = set
  PROVE  /\ \A f : Breaks(f)' = Breaks(f)
         /\ \A f, n : Descends(f, n)' = Descends(f, n)
         /\ \A f : Overflows(f)' = Overflows(f)
<1>1. \A f : Usable(f)' = Usable(f)
  BY UsableFixed
<1>2. \A f, i : Reached(f, i)' = Reached(f, i)
  BY <1>1 DEF Reached, Imports
<1>3. \A S : HoldsImporters(S)' = HoldsImporters(S)
  BY <1>2 DEF HoldsImporters, Imports
<1>4. \A f : Breaks(f)' = Breaks(f)
  BY <1>3 DEF Breaks
<1>5. \A f, n : Descends(f, n)' = Descends(f, n)
  BY <1>2 DEF Descends, Imports
<1> QED
  BY <1>4, <1>5 DEF Overflows

\* The files that break are the least set to hold its importers.
LEMMA BreaksIfReached ==
  ASSUME NEW f \in set.files, NEW i \in 1..Len(Imports(f)), Reached(f, i),
         Imports(f)[i] \notin set.files \/ Breaks(Imports(f)[i])
  PROVE  Breaks(f)
BY DEF Breaks, HoldsImporters

LEMMA BreaksOnlyIfReached ==
  ASSUME NEW f \in set.files, Breaks(f)
  PROVE  \E i \in 1..Len(Imports(f)) :
           Reached(f, i) /\ (Imports(f)[i] \notin set.files \/ Breaks(Imports(f)[i]))
<1> DEFINE Reaches(g) == \E i \in 1..Len(Imports(g)) :
             Reached(g, i) /\ (Imports(g)[i] \notin set.files \/ Breaks(Imports(g)[i]))
           S == {g \in set.files : Reaches(g)}
<1>1. \A g \in S : Breaks(g)
  BY BreaksIfReached
<1>2. HoldsImporters(S)
  BY <1>1 DEF HoldsImporters
<1>3. f \in S
  <2>1. S \in SUBSET set.files
    OBVIOUS
  <2> HIDE DEF S
  <2> QED
    BY <1>2, <2>1 DEF Breaks
<1> QED
  BY <1>3

\* A file with all its imports built does not break; a usable one has them.
LEMMA BuiltDoesNotBreak ==
  ASSUME TypeOK, NEW f \in set.files,
         \A i \in 1..Len(Imports(f)) : Usable(Imports(f)[i])
  PROVE  ~Breaks(f)
<1> DEFINE S == {g \in set.files : ~Usable(g)}
<1>1. \A g : Usable(g) => /\ g \in set.files
                         /\ \A i \in 1..Len(Imports(g)) : Usable(Imports(g)[i])
  BY UsableImports
<1>2. \A g : Usable(g) => ~Breaks(g)
  <2>1. S \in SUBSET set.files /\ \A g : Usable(g) => g \notin S
    OBVIOUS
  <2>2. HoldsImporters(S)
    <3> SUFFICES ASSUME NEW g \in set.files, NEW i \in 1..Len(Imports(g)),
                        Imports(g)[i] \notin set.files \/ Imports(g)[i] \in S
                 PROVE  g \in S
      BY DEF HoldsImporters
    <3>1. ~Usable(Imports(g)[i])
      BY <1>1
    <3> QED
      BY <1>1, <3>1
  <2> HIDE DEF S
  <2> QED
    BY <2>1, <2>2 DEF Breaks
<1>3. SUFFICES ASSUME Breaks(f) PROVE FALSE
  OBVIOUS
<1>4. PICK i \in 1..Len(Imports(f)) :
        Imports(f)[i] \notin set.files \/ Breaks(Imports(f)[i])
  BY <1>3, BreaksOnlyIfReached
<1>5. Usable(Imports(f)[i])
  OBVIOUS
<1> QED
  BY <1>1, <1>2, <1>4, <1>5

\* A chain goes on from one of the imports.
LEMMA DescendsThrough ==
  ASSUME NEW f, NEW n \in Nat \ {0}, Descends(f, n + 1)
  PROVE  \E i \in 1..Len(Imports(f)) : Reached(f, i) /\ Descends(Imports(f)[i], n)
<1>1. PICK p \in [1..(n + 1) -> set.files] :
        /\ p[1] = f
        /\ \A i \in 1..n : \E j \in 1..Len(Imports(p[i])) :
             Reached(p[i], j) /\ p[i + 1] = Imports(p[i])[j]
  <2>1. (n + 1) - 1 = n
    OBVIOUS
  <2> QED
    BY <2>1 DEF Descends
<1>2. PICK i \in 1..Len(Imports(f)) : Reached(f, i) /\ p[2] = Imports(f)[i]
  BY <1>1
<1> DEFINE q == [k \in 1..n |-> p[k + 1]]
<1>3. q \in [1..n -> set.files]
  BY <1>1
<1>4. q[1] = Imports(f)[i]
  BY <1>2
<1>5. ASSUME NEW k \in 1..(n - 1)
      PROVE  \E j \in 1..Len(Imports(q[k])) :
               Reached(q[k], j) /\ q[k + 1] = Imports(q[k])[j]
  <2>1. k + 1 \in 1..n /\ q[k] = p[k + 1] /\ q[k + 1] = p[(k + 1) + 1]
    OBVIOUS
  <2> HIDE DEF q
  <2> QED
    BY <1>1, <2>1
<1> HIDE DEF q
<1>6. Descends(Imports(f)[i], n)
  BY <1>3, <1>4, <1>5 DEF Descends
<1> QED
  BY <1>2, <1>6

\* If no chain below an import is too long, none below the file is.
LEMMA DepthFromImports ==
  ASSUME NEW f, NEW n \in Nat \ {0},
         \A i \in 1..Len(Imports(f)) : ~Descends(Imports(f)[i], n)
  PROVE  ~Descends(f, n + 1)
BY DescendsThrough

-----------------------------------------------------------------------------
LEMMA InvariantInit == Init /\ TypeOK => Invariant
<1> SUFFICES ASSUME Init, TypeOK PROVE Invariant
  OBVIOUS
<1>1. stack = <<>> /\ Len(stack) = 0
  BY EmptySeq DEF Init
<1>2. StackOK
  BY <1>1, BuildAssumption DEF StackOK
<1> QED
  BY <1>1, <1>2 DEF Init, Invariant, LoopOK

LEMMA TakeKeeps ==
  ASSUME TypeOK, Invariant, NEW f \in File, TakeFile(f) PROVE Invariant'
<1> USE DEF Invariant, TakeFile
<1>0. \A g : Usable(g)' = Usable(g)
  BY UsableFixed
<1>1. stack' \in Seq(Frame) /\ Len(stack') = 1 /\ stack'[1] = [file |-> f, next |-> 1]
  BY OneFrame DEF Frame
<1>2. f \in set.files /\ Len(Imports(f)) \in Nat
  BY ImportFacts DEF TypeOK
<1>3. StackOK'
  BY <1>1, <1>2, BuildAssumption DEF StackOK, Imports
<1>4. LoopOK'
  BY <1>0, <1>1 DEF LoopOK, TypeOK
<1> QED
  BY <1>3, <1>4

LEMMA DescendKeeps ==
  ASSUME TypeOK, Invariant, Descend PROVE Invariant'
<1> USE DEF Invariant, Descend
<1> DEFINE n == Len(stack)  fr == [file |-> NextImport, next |-> 1]
<1>0. \A g : Usable(g)' = Usable(g) /\ Imports(g)' = Imports(g)
  BY UsableFixed DEF Imports
<1>1. n \in Nat /\ n >= 1 /\ \A i \in 1..n : stack[i] \in Frame
  BY StackFacts DEF Pending
<1>2. fr \in Frame /\ NextImport \in File
  BY BuildAssumption DEF Frame, TypeOK, SetType
<1>3. /\ Len(stack') = n + 1
      /\ \A i \in 1..n : stack'[i] = stack[i]
      /\ stack'[n + 1] = fr
  BY <1>2, PushFacts DEF TypeOK
<1>4. Top = stack[n] /\ Top.next <= Len(Imports(Top.file)) /\ Top.next \in Nat \ {0}
      /\ Top.file \in set.files
  BY <1>1 DEF Top, Pending, Frame, StackOK
<1>5. Len(Imports(NextImport)) \in Nat
  BY <1>2, ImportFacts
<1>6. Usable(stack[1].file) => Usable(NextImport)
  <2>1. Usable(stack[1].file) => Usable(Top.file)
    BY <1>1, <1>4 DEF StackOK
  <2>2. Top.next \in 1..Len(Imports(Top.file))
    BY <1>1, <1>4, ImportFacts DEF Frame
  <2> QED
    BY <2>1, <2>2, UsableImports DEF NextImport
<1> HIDE DEF fr
<1>7. fr.file = NextImport /\ fr.next = 1
  BY DEF fr
<1>8. StackOK'
  <2>1. Len(stack') <= MaxDepth
    BY <1>1, <1>3, BuildAssumption
  <2>2. ASSUME NEW i \in 1..(n + 1)
        PROVE  /\ stack'[i].file \in set.files
               /\ stack'[i].next <= Len(Imports(stack'[i].file)) + 1
               /\ \A j \in 1..(stack'[i].next - 1) : Usable(Imports(stack'[i].file)[j])
               /\ Usable(stack'[1].file) => Usable(stack'[i].file)
    <3>1. CASE i \in 1..n
      BY <1>1, <1>3, <3>1 DEF StackOK
    <3>2. CASE i = n + 1
      BY <1>1, <1>3, <1>5, <1>6, <1>7, <3>2
    <3> QED
      BY <1>1, <3>1, <3>2
  <2>3. ASSUME NEW i \in 1..n
        PROVE  /\ stack'[i].next <= Len(Imports(stack'[i].file))
               /\ stack'[i + 1].file = Imports(stack'[i].file)[stack'[i].next]
    <3>1. CASE i \in 1..(n - 1)
      BY <1>1, <1>3, <3>1 DEF StackOK
    <3>2. CASE i = n
      BY <1>1, <1>3, <1>4, <1>7, <3>2 DEF NextImport
    <3> QED
      BY <1>1, <3>1, <3>2
  <2>4. (\A i \in 1..Len(stack) :
          /\ stack[i].file \in set.files
          /\ stack[i].next <= Len(Imports(stack[i].file)) + 1
          /\ \A j \in 1..(stack[i].next - 1) : Usable(Imports(stack[i].file)[j])
          /\ Usable(stack[1].file) => Usable(stack[i].file))'
    BY <1>0, <1>1, <1>3, <2>2
  <2>5. (\A i \in 1..(Len(stack) - 1) :
          /\ stack[i].next <= Len(Imports(stack[i].file))
          /\ stack[i + 1].file = Imports(stack[i].file)[stack[i].next])'
    <3>1. Len(stack') - 1 = n
      BY <1>1, <1>3
    <3> QED
      BY ONLY <1>0, <2>3, <3>1
  <2> QED
    BY <2>1, <2>4, <2>5 DEF StackOK
<1>9. LoopOK'
  BY <1>0, <1>1, <1>3 DEF LoopOK, Pending
<1> QED
  BY <1>8, <1>9

\* The innermost call ends with a descriptor: the file turns out usable.
LEMMA BuildKeeps ==
  ASSUME TypeOK, Invariant, BuildFrom PROVE Invariant'
<1> USE DEF Invariant, BuildFrom
<1> DEFINE n == Len(stack)
<1>0. \A g : Usable(g)' = Usable(g) /\ Imports(g)' = Imports(g)
  BY UsableFixed DEF Imports
<1>1. n \in Nat /\ n >= 1 /\ \A i \in 1..n : stack[i] \in Frame
  BY StackFacts
<1>2. Top = stack[n] /\ Top.file \in set.files /\ Top.next \in Nat
      /\ Top.file \in File
  BY <1>1 DEF Top, Frame, StackOK
<1>3. Usable(Top.file)
  <2>1. Top.next > Len(Imports(Top.file)) /\ Len(Imports(Top.file)) \in Nat
    BY <1>2, ImportFacts DEF Pending
  <2>2. \A j \in 1..Len(Imports(Top.file)) : Usable(Imports(Top.file)[j])
    BY <1>1, <1>2, <2>1 DEF StackOK
  <2> QED
    BY <1>2, <2>2, UsableFromImports
<1>5. CASE n = 1
  <2>1. stack' = <<>> /\ Len(stack') = 0 /\ result' = result \cup {Top.file}
    BY <1>5, EmptySeq
  <2>2. StackOK'
    BY <2>1, BuildAssumption DEF StackOK
  <2>3. LoopOK'
    BY <1>0, <1>2, <1>3, <1>5, <2>1 DEF LoopOK
  <2> QED
    BY <2>2, <2>3
<1>6. CASE n > 1
  <2>1. /\ stack' \in Seq(Frame) /\ Len(stack') = n - 1
        /\ \A i \in 1..(n - 2) : stack'[i] = stack[i]
        /\ stack'[n - 1].file = stack[n - 1].file
        /\ stack'[n - 1].next = stack[n - 1].next + 1
        /\ result' = result
    <3>1. stack' = Returned /\ Len(stack) > 1 /\ result' = result
      BY <1>1, <1>6
    <3> QED
      BY ONLY <3>1, TypeOK, ReturnFacts
  <2>2. /\ stack[n - 1].next <= Len(Imports(stack[n - 1].file))
        /\ Top.file = Imports(stack[n - 1].file)[stack[n - 1].next]
        /\ stack[n - 1].next \in Nat \ {0} /\ stack[n - 1].file \in File
    <3>1. n - 1 \in 1..(n - 1) /\ n - 1 \in 1..n /\ n - 1 + 1 = n
      BY <1>1, <1>6
    <3> QED
      BY <1>1, <1>2, <3>1 DEF StackOK, Frame
  <2>3. Len(Imports(stack[n - 1].file)) \in Nat
    BY <2>2, ImportFacts
  <2>4. ASSUME NEW i \in 1..(n - 1)
        PROVE  /\ stack'[i].file = stack[i].file
               /\ stack'[i].next = IF i = n - 1 THEN stack[i].next + 1 ELSE stack[i].next
    <3>1. CASE i = n - 1
      BY <2>1, <3>1
    <3>2. CASE i # n - 1
      <4>1. i \in 1..(n - 2)
        BY <1>1, <3>2
      <4> QED
        BY <2>1, <3>2, <4>1
    <3> QED
      BY <3>1, <3>2
  <2>5. (\A i \in 1..Len(stack) :
          /\ stack[i].file \in set.files
          /\ stack[i].next <= Len(Imports(stack[i].file)) + 1
          /\ \A j \in 1..(stack[i].next - 1) : Usable(Imports(stack[i].file)[j])
          /\ Usable(stack[1].file) => Usable(stack[i].file))'
    <3>1. ASSUME NEW i \in 1..(n - 1)
          PROVE  /\ stack'[i].file \in set.files
                 /\ stack'[i].next <= Len(Imports(stack'[i].file)) + 1
                 /\ \A j \in 1..(stack'[i].next - 1) : Usable(Imports(stack'[i].file)[j])
                 /\ Usable(stack'[1].file) => Usable(stack'[i].file)
      <4>1. i \in 1..n /\ 1 \in 1..(n - 1)
        BY <1>1, <1>6
      <4>2. /\ stack[i].file \in set.files
            /\ stack[i].next <= Len(Imports(stack[i].file)) + 1
            /\ \A j \in 1..(stack[i].next - 1) : Usable(Imports(stack[i].file)[j])
            /\ Usable(stack[1].file) => Usable(stack[i].file)
        BY <4>1 DEF StackOK
      <4>3. CASE i # n - 1
        BY <2>4, <4>1, <4>2, <4>3
      <4>4. CASE i = n - 1
        <5>1. \A j \in 1..stack[i].next : Usable(Imports(stack[i].file)[j])
          BY <1>3, <2>2, <4>2, <4>4
        <5>2. stack'[i].next - 1 = stack[i].next
          BY <2>2, <2>4, <4>4
        <5>3. /\ stack'[i].file = stack[i].file
              /\ stack'[1].file = stack[1].file
              /\ stack'[i].next <= Len(Imports(stack[i].file)) + 1
          BY <2>2, <2>3, <2>4, <4>1, <4>4
        <5> QED
          BY ONLY <4>2, <5>1, <5>2, <5>3
      <4> QED
        BY <4>3, <4>4
    <3> QED
      BY <1>0, <2>1, <3>1
  <2>6. (\A i \in 1..(Len(stack) - 1) :
          /\ stack[i].next <= Len(Imports(stack[i].file))
          /\ stack[i + 1].file = Imports(stack[i].file)[stack[i].next])'
    <3>1. ASSUME NEW i \in 1..(n - 2)
          PROVE  /\ stack'[i].next <= Len(Imports(stack'[i].file))
                 /\ stack'[i + 1].file = Imports(stack'[i].file)[stack'[i].next]
      <4>1. i \in 1..(n - 1) /\ i + 1 \in 1..(n - 1) /\ i # n - 1
        BY <1>1
      <4>2. /\ stack[i].next <= Len(Imports(stack[i].file))
            /\ stack[i + 1].file = Imports(stack[i].file)[stack[i].next]
        BY <4>1 DEF StackOK
      <4> QED
        BY <2>4, <4>1, <4>2
    <3>2. Len(stack') - 1 = n - 2
      BY <1>1, <2>1
    <3> QED
      BY ONLY <1>0, <3>1, <3>2
  <2>7. Len(stack') <= MaxDepth
    BY <1>1, <2>1, BuildAssumption DEF StackOK
  <2>8. StackOK'
    BY <2>5, <2>6, <2>7 DEF StackOK
  <2>9. stack # <<>> /\ stack'[1].file = stack[1].file
    BY <1>1, <1>6, <2>4
  <2>10. LoopOK'
    <3>1. stack' # <<>>
      BY <1>1, <1>6, <2>1, EmptySeq
    <3> QED
      BY <1>0, <2>1, <2>9, <3>1 DEF LoopOK
  <2> QED
    BY <2>8, <2>10
<1> QED
  BY <1>1, <1>5, <1>6

\* buildFrom fails: the file taken needs an invalid one.
LEMMA RejectKeeps ==
  ASSUME TypeOK, Invariant, Reject PROVE Invariant'
<1> USE DEF Invariant, Reject
<1>0. \A g : Usable(g)' = Usable(g)
  BY UsableFixed
<1>1. Len(stack) >= 1 /\ Len(stack) \in Nat
  BY StackFacts
<1>2. ~Usable(Top.file)
  BY UsableImports
<1>3. ~Usable(stack[1].file)
  BY <1>1, <1>2 DEF StackOK, Top
<1>4. Len(stack') = 0
  BY EmptySeq
<1>5. StackOK'
  BY <1>4, BuildAssumption DEF StackOK
<1>6. LoopOK'
  BY <1>0, <1>3 DEF LoopOK
<1> QED
  BY <1>5, <1>6

LEMMA AbortKeeps ==
  ASSUME TypeOK, Invariant, MissingImport \/ Overflow PROVE Invariant'
<1> USE DEF Invariant, MissingImport, Overflow
<1>1. \A g : Usable(g)' = Usable(g)
  BY UsableFixed
<1>2. Len(stack') = 0
  BY EmptySeq
<1>3. StackOK'
  BY <1>2, BuildAssumption DEF StackOK
<1>4. LoopOK'
  BY <1>1, EmptySeq DEF LoopOK, Pending
<1> QED
  BY <1>3, <1>4

LEMMA FinishKeeps ==
  ASSUME TypeOK, Invariant, Finish \/ UNCHANGED vars PROVE Invariant'
<1> USE DEF Invariant, Finish, vars
<1>0. \A g : Usable(g)' = Usable(g)
  BY UsableFixed
<1>1. StackOK'
  <2>1. stack' = stack /\ set' = set
    OBVIOUS
  <2> QED
    BY ONLY <1>0, <2>1, Invariant DEF StackOK, Imports
<1>2. LoopOK'
  BY <1>0 DEF LoopOK
<1> QED
  BY <1>1, <1>2

THEOREM InvariantHolds == Spec => []Invariant
<1>1. TypeOK /\ Invariant /\ [Next]_vars => Invariant'
  BY TakeKeeps, DescendKeeps, BuildKeeps, RejectKeeps, AbortKeeps, FinishKeeps DEF Next
<1> QED
  BY <1>1, InvariantInit, Typing, PTL DEF Spec

LEMMA ValidFilesStay == Spec => []NoneSkipped
<1>1. Init => NoneSkipped
  BY DEF Init, NoneSkipped
<1>2. TypeOK /\ Invariant /\ NoneSkipped /\ [Next]_vars => NoneSkipped'
  <2> SUFFICES ASSUME TypeOK, Invariant, NoneSkipped, [Next]_vars,
                      set.files \cap set.invalid = {},
                      NEW f \in set.files, f \notin left'
               PROVE  f \in result' \/ outcome' \in {"aborted", "overflow"}
                        \/ (stack' # <<>> /\ f = stack'[1].file)
    BY SetFixed DEF NoneSkipped
  <2> USE DEF NoneSkipped
  <2>1. Len(stack) \in Nat /\ (stack # <<>> => Len(stack) >= 1)
    BY StackFacts
  <2>2. ASSUME NEW g \in File, TakeFile(g)
        PROVE  f \in result' \/ outcome' \in {"aborted", "overflow"}
                 \/ (stack' # <<>> /\ f = stack'[1].file)
    BY <2>2 DEF TakeFile
  <2>3. CASE Descend
    <3>1. stack \in Seq(Frame) /\ [file |-> NextImport, next |-> 1] \in Frame
      BY <2>3, BuildAssumption DEF Descend, TypeOK, Frame, SetType
    <3>2. Len(stack') = Len(stack) + 1 /\ \A i \in 1..Len(stack) : stack'[i] = stack[i]
      BY <2>3, <3>1, PushFacts DEF Descend
    <3>3. stack # <<>> /\ stack' # <<>> /\ stack'[1] = stack[1]
      BY <2>1, <2>3, <3>2, EmptySeq DEF Descend, Pending
    <3> QED
      BY <2>3, <3>3 DEF Descend
  <2>4. CASE MissingImport \/ Overflow
    BY <2>4 DEF MissingImport, Overflow
  <2>5. CASE BuildFrom /\ Len(stack) = 1
    BY <2>5 DEF BuildFrom, Top
  <2>6. ASSUME BuildFrom, Len(stack) > 1
        PROVE  UNCHANGED <<left, result, outcome>> /\ stack # <<>>
               /\ stack'[1].file = stack[1].file /\ stack' # <<>>
    <3> DEFINE n == Len(stack)
    <3>0. n \in Nat /\ n > 1
      BY ONLY <2>1, <2>6
    <3> HIDE DEF n
    <3>1. stack' = Returned /\ stack # <<>> /\ UNCHANGED <<left, result, outcome>>
      <4>1. n # 1
        BY <3>0
      <4> QED
        BY <2>6, <4>1 DEF BuildFrom, n
    <3>2. /\ Len(stack') = n - 1
          /\ \A i \in 1..(n - 2) : stack'[i] = stack[i]
          /\ stack'[n - 1].file = stack[n - 1].file
      BY ONLY <2>6, <3>1, TypeOK, ReturnFacts DEF n
    <3>3. 1 = n - 1 \/ 1 \in 1..(n - 2)
      BY <3>0
    <3>4. n - 1 # 0
      BY <3>0
    <3>5. stack'[1].file = stack[1].file /\ stack' # <<>>
      BY <3>2, <3>3, <3>4, EmptySeq
    <3> QED
      BY <3>1, <3>5
  <2>7. ~Reject
    <3> SUFFICES ASSUME Reject PROVE FALSE
      OBVIOUS
    <3>1. Len(stack) \in 1..Len(stack)
      BY <2>1 DEF Reject
    <3>2. Top.file \in set.files
      BY <3>1 DEF Invariant, StackOK, Top
    <3> QED
      BY <3>2 DEF Reject
  <2>8. CASE Finish \/ UNCHANGED vars
    BY <2>8 DEF Finish, vars
  <2> QED
    BY <2>2, <2>3, <2>4, <2>5, <2>6, <2>7, <2>8 DEF Next, BuildFrom
<1> QED
  BY <1>1, <1>2, InvariantHolds, Typing, PTL DEF Spec

\* For every descriptor set: if the resolver is made at all, it holds exactly the
\* files that are valid with all they import, and of valid files all or none.
THEOREM ResolverIsExact == Spec => []ResultExact
<1>1. TypeOK /\ Invariant /\ NoneSkipped => ResultExact
  <2> SUFFICES ASSUME TypeOK, Invariant, NoneSkipped, outcome = "done"
               PROVE  /\ result = {f \in set.files : Usable(f)}
                      /\ set.files \cap set.invalid = {} => result = set.files
    BY DEF ResultExact
  <2>1. left = {} /\ stack = <<>>
    BY DEF Invariant, LoopOK
  <2>2. \A f \in set.files : f \in result \/ ~Usable(f)
    BY <2>1 DEF Invariant, LoopOK
  <2>3. \A f \in result : Usable(f) /\ f \in set.files
    BY UsableImports DEF Invariant, LoopOK
  <2>4. set.files \cap set.invalid = {} => \A f \in set.files : f \in result
    BY <2>1 DEF NoneSkipped
  <2> QED
    BY <2>2, <2>3, <2>4
<1> QED
  BY <1>1, InvariantHolds, ValidFilesStay, Typing, PTL

-----------------------------------------------------------------------------
(***************************************************************************)
(* That there is a resolver does not depend on the order of the files.     *)
(***************************************************************************)
LEMMA VerdictsInit == Init /\ TypeOK => Verdicts
<1> SUFFICES ASSUME Init, TypeOK PROVE Verdicts
  OBVIOUS
<1>1. stack = <<>> /\ Len(stack) = 0
  BY EmptySeq DEF Init
<1> QED
  BY <1>1 DEF Init, Verdicts, BreakOK, DepthOK, FinishedOK, OutcomeFixed

LEMMA TakeKeepsVerdicts ==
  ASSUME TypeOK, Verdicts, NEW f \in File, TakeFile(f) PROVE Verdicts'
<1> USE DEF Verdicts, TakeFile
<1>0. \A g : Breaks(g)' = Breaks(g) /\ Overflows(g)' = Overflows(g)
  BY VerdictFixed
<1>1. stack' \in Seq(Frame) /\ Len(stack') = 1 /\ stack'[1] = [file |-> f, next |-> 1]
  BY OneFrame DEF Frame
<1>2. BreakOK'
  BY <1>1 DEF BreakOK
<1>3. DepthOK'
  <2>1. MaxDepth + 2 - 1 = MaxDepth + 1
    BY BuildAssumption
  <2> QED
    BY <1>1, <2>1 DEF DepthOK, Overflows
<1>4. FinishedOK'
  BY <1>0, <1>1 DEF FinishedOK
<1>5. OutcomeFixed'
  BY DEF OutcomeFixed
<1> QED
  BY <1>2, <1>3, <1>4, <1>5

\* The innermost call is for a file whose next import neither breaks nor has a chain
\* below it too long: then the same is true of the file.
LEMMA DescendKeepsVerdicts ==
  ASSUME TypeOK, Invariant, Verdicts, Descend PROVE Verdicts'
<1> USE DEF Verdicts, Descend
<1> DEFINE n == Len(stack)
<1>0. /\ \A g : Usable(g)' = Usable(g) /\ Breaks(g)' = Breaks(g)
      /\ \A g, m : Descends(g, m)' = Descends(g, m)
      /\ \A g : Overflows(g)' = Overflows(g) /\ Imports(g)' = Imports(g)
  BY UsableFixed, VerdictFixed DEF Imports
<1>1. n \in Nat /\ n >= 1 /\ n < MaxDepth /\ MaxDepth \in Nat
      /\ \A i \in 1..n : stack[i] \in Frame
  BY StackFacts, BuildAssumption DEF Pending
<1>2. [file |-> NextImport, next |-> 1] \in Frame
  BY BuildAssumption DEF Frame, TypeOK, SetType
<1>3. /\ Len(stack') = n + 1
      /\ \A i \in 1..n : stack'[i] = stack[i]
      /\ stack'[n + 1] = [file |-> NextImport, next |-> 1]
  BY <1>2, PushFacts DEF TypeOK
<1>4. Top = stack[n] /\ Top.file \in set.files /\ Top.file \in File
      /\ Top.next \in 1..Len(Imports(Top.file))
      /\ NextImport = Imports(Top.file)[Top.next]
      /\ \A j \in 1..(Top.next - 1) : Usable(Imports(Top.file)[j])
  <2>1. Top = stack[n] /\ Top \in Frame /\ n \in 1..Len(stack)
    BY <1>1 DEF Top
  <2>2. Len(Imports(Top.file)) \in Nat
    BY <2>1, ImportFacts DEF Frame
  <2>3. /\ Top.file \in set.files
        /\ \A j \in 1..(Top.next - 1) : Usable(Imports(Top.file)[j])
    BY <2>1 DEF StackOK, Invariant
  <2> QED
    BY <2>1, <2>2, <2>3 DEF Pending, NextImport, Frame
<1>5. ASSUME ~Usable(NextImport) PROVE ~Usable(Top.file)
  BY <1>4, <1>5, UsableImports
<1>6. ASSUME ~Usable(NextImport), NEW j \in 1..Len(Imports(Top.file)), Reached(Top.file, j)
      PROVE  j = Top.next \/ j \in 1..(Top.next - 1)
  <2>1. Len(Imports(Top.file)) \in Nat
    BY <1>4, ImportFacts
  <2>2. ~(Top.next \in 1..(j - 1))
    BY <1>4, <1>6 DEF Reached
  <2> QED
    BY <1>4, <2>1, <2>2
<1>7. ASSUME ~Usable(NextImport), ~Breaks(NextImport) PROVE ~Breaks(stack[1].file)
  <2>1. ~Breaks(Top.file)
    <3> SUFFICES ASSUME Breaks(Top.file) PROVE FALSE
      OBVIOUS
    <3>1. PICK j \in 1..Len(Imports(Top.file)) :
            /\ Reached(Top.file, j)
            /\ Imports(Top.file)[j] \notin set.files \/ Breaks(Imports(Top.file)[j])
      BY <1>4, BreaksOnlyIfReached
    <3>2. CASE j = Top.next
      BY <1>4, <1>7, <3>1, <3>2
    <3>3. CASE j \in 1..(Top.next - 1)
      <4>1. Usable(Imports(Top.file)[j])
        BY <1>4, <3>3
      <4> QED
        BY <3>1, <4>1, UsableImports, BuiltDoesNotBreak
    <3> QED
      BY <1>6, <1>7, <3>1, <3>2, <3>3
  <2>2. n \in 1..Len(stack)
    BY <1>1
  <2> QED
    BY <1>4, <1>5, <1>7, <2>1, <2>2 DEF BreakOK
<1>8. ASSUME ~Usable(NextImport), ~Descends(NextImport, MaxDepth + 2 - (n + 1))
      PROVE  ~Overflows(stack[1].file)
  <2> DEFINE m == MaxDepth + 1 - n
  <2>1. m \in Nat \ {0} /\ m = MaxDepth + 2 - (n + 1) /\ m + 1 = MaxDepth + 2 - n
    BY <1>1
  <2>2. n \in 1..Len(stack)
    BY <1>1
  <2>3. \A j \in 1..(Top.next - 1) : ~Descends(Imports(Top.file)[j], m)
    BY <1>4, <2>2 DEF DepthOK
  <2> HIDE DEF m
  <2>4. ~Descends(Top.file, m + 1)
    <3> SUFFICES ASSUME Descends(Top.file, m + 1) PROVE FALSE
      OBVIOUS
    <3>1. PICK j \in 1..Len(Imports(Top.file)) :
            Reached(Top.file, j) /\ Descends(Imports(Top.file)[j], m)
      BY <2>1, DescendsThrough
    <3> QED
      BY <1>4, <1>6, <1>8, <2>1, <2>3, <3>1
  <2> QED
    BY <1>4, <1>5, <1>8, <2>1, <2>2, <2>4 DEF DepthOK
<1>9. BreakOK'
  <2>1. \A i \in 1..(n + 1) : i \in 1..n \/ i = n + 1
    BY <1>1
  <2>2. 1 \in 1..n
    BY <1>1
  <2> QED
    BY <1>0, <1>3, <1>7, <2>1, <2>2 DEF BreakOK
<1>10. DepthOK'
  <2>1. \A i \in 1..(n + 1) : i \in 1..n \/ i = n + 1
    BY <1>1
  <2>2. 1 \in 1..n
    BY <1>1
  <2> SUFFICES ASSUME NEW i \in 1..(n + 1)
               PROVE  /\ \A j \in 1..(stack'[i].next - 1) :
                           ~Descends(Imports(stack'[i].file)[j], MaxDepth + 1 - i)
                      /\ ~Usable(stack'[i].file)
                           /\ ~Descends(stack'[i].file, MaxDepth + 2 - i) =>
                           ~Overflows(stack'[1].file)
    BY <1>0, <1>3 DEF DepthOK
  <2>3. CASE i \in 1..n
    BY <1>3, <2>2, <2>3 DEF DepthOK
  <2>4. CASE i = n + 1
    BY <1>3, <1>8, <2>2, <2>4
  <2> QED
    BY <2>1, <2>3, <2>4
<1>11. FinishedOK'
  <2>1. stack # <<>> /\ stack' # <<>> /\ stack'[1] = stack[1]
    BY <1>1, <1>3, EmptySeq DEF Pending
  <2> QED
    BY <1>0, <2>1 DEF FinishedOK
<1>12. OutcomeFixed'
  BY DEF OutcomeFixed, Pending, Invariant, LoopOK
<1> QED
  BY <1>9, <1>10, <1>11, <1>12

\* The innermost call has built all imports of its file.
LEMMA InnermostFinishes ==
  ASSUME TypeOK, Invariant, Verdicts, stack # <<>>, ~Pending
  PROVE  /\ Len(stack) \in Nat /\ Len(stack) \in 1..MaxDepth /\ MaxDepth \in Nat
         /\ Top = stack[Len(stack)]
         /\ Top.file \in set.files
         /\ \A j \in 1..Len(Imports(Top.file)) : Usable(Imports(Top.file)[j])
         /\ ~Breaks(Top.file)
         /\ ~Descends(Top.file, MaxDepth + 2 - Len(stack))
<1> DEFINE n == Len(stack)
<1>1. n \in Nat /\ n >= 1 /\ n <= MaxDepth /\ MaxDepth \in Nat
      /\ Top = stack[n] /\ Top \in Frame
  BY StackFacts, BuildAssumption DEF Top, Invariant, StackOK
<1>2. n \in 1..Len(stack) /\ n \in 1..MaxDepth
  BY <1>1
<1>3. /\ Top.file \in set.files
      /\ \A j \in 1..(Top.next - 1) : Usable(Imports(Top.file)[j])
  BY <1>1, <1>2 DEF Invariant, StackOK
<1>4. Len(Imports(Top.file)) \in Nat
  BY <1>1, ImportFacts DEF Frame
<1>5. \A j \in 1..Len(Imports(Top.file)) : j \in 1..(Top.next - 1)
  BY <1>1, <1>4 DEF Pending, Frame
<1>6. ~Breaks(Top.file)
  BY <1>3, <1>5, BuiltDoesNotBreak
<1>7. ~Descends(Top.file, MaxDepth + 2 - n)
  <2> DEFINE m == MaxDepth + 1 - n
  <2>1. m \in Nat \ {0} /\ m + 1 = MaxDepth + 2 - n
    BY <1>1
  <2>2. \A j \in 1..(Top.next - 1) : ~Descends(Imports(Top.file)[j], m)
    BY <1>1, <1>2 DEF Verdicts, DepthOK
  <2> HIDE DEF m
  <2>3. ~Descends(Top.file, m + 1)
    BY <1>5, <2>1, <2>2, DepthFromImports
  <2> QED
    BY <2>1, <2>3
<1> QED
  BY <1>1, <1>2, <1>3, <1>5, <1>6, <1>7

LEMMA BuildKeepsVerdicts ==
  ASSUME TypeOK, Invariant, Verdicts, BuildFrom PROVE Verdicts'
<1> USE DEF BuildFrom
<1> DEFINE n == Len(stack)
<1>0. /\ \A g : Usable(g)' = Usable(g) /\ Breaks(g)' = Breaks(g)
      /\ \A g, m : Descends(g, m)' = Descends(g, m)
      /\ \A g : Overflows(g)' = Overflows(g) /\ Imports(g)' = Imports(g)
  BY UsableFixed, VerdictFixed DEF Imports
<1>1. /\ n \in Nat /\ n >= 1 /\ n <= MaxDepth /\ MaxDepth \in Nat
      /\ Top = stack[n] /\ \A i \in 1..n : stack[i] \in Frame
      /\ ~Breaks(Top.file)
      /\ ~Descends(Top.file, MaxDepth + 2 - n)
  BY InnermostFinishes, StackFacts
<1>2. OutcomeFixed'
  BY DEF OutcomeFixed, Invariant, LoopOK
<1>3. CASE n = 1
  <2>1. stack' = <<>> /\ Len(stack') = 0
    BY <1>3, EmptySeq
  <2>2. BreakOK' /\ DepthOK'
    BY <2>1 DEF BreakOK, DepthOK
  <2>3. ~Overflows(stack[1].file) /\ ~Breaks(stack[1].file)
    <3>1. MaxDepth + 2 - n = MaxDepth + 1
      BY <1>1, <1>3
    <3> QED
      BY <1>1, <1>3, <3>1 DEF Overflows
  <2>4. FinishedOK'
    BY <1>0, <2>1, <2>3 DEF Verdicts, FinishedOK
  <2> QED
    BY <1>2, <2>2, <2>4 DEF Verdicts
<1>4. CASE n > 1
  <2>1. /\ stack' \in Seq(Frame) /\ Len(stack') = n - 1
        /\ \A i \in 1..(n - 2) : stack'[i] = stack[i]
        /\ stack'[n - 1].file = stack[n - 1].file
        /\ stack'[n - 1].next = stack[n - 1].next + 1
    <3>1. stack' = Returned /\ Len(stack) > 1
      BY <1>1, <1>4
    <3> QED
      BY ONLY <3>1, TypeOK, ReturnFacts
  <2>2. ASSUME NEW i \in 1..(n - 1)
        PROVE  /\ i \in 1..n /\ 1 \in 1..(n - 1)
               /\ stack'[i].file = stack[i].file
               /\ stack'[i].next = IF i = n - 1 THEN stack[i].next + 1 ELSE stack[i].next
    <3>1. i = n - 1 \/ i \in 1..(n - 2)
      BY <1>1
    <3>2. i = n - 1 => i \notin 1..(n - 2)
      BY <1>1
    <3>3. i \in 1..n /\ 1 \in 1..(n - 1)
      BY <1>1, <1>4
    <3> QED
      BY <2>1, <3>1, <3>2, <3>3
  <2>3. Top.file = Imports(stack[n - 1].file)[stack[n - 1].next]
    <3>1. n - 1 \in 1..(Len(stack) - 1) /\ (n - 1) + 1 = n
      BY <1>1, <1>4
    <3> QED
      BY <1>1, <3>1 DEF Invariant, StackOK
  <2>4. BreakOK'
    BY <1>0, <1>1, <2>1, <2>2 DEF Verdicts, BreakOK
  <2>5. DepthOK'
    <3> SUFFICES ASSUME NEW i \in 1..(n - 1)
                 PROVE  /\ \A j \in 1..(stack'[i].next - 1) :
                             ~Descends(Imports(stack'[i].file)[j], MaxDepth + 1 - i)
                        /\ ~Usable(stack'[i].file)
                             /\ ~Descends(stack'[i].file, MaxDepth + 2 - i) =>
                             ~Overflows(stack'[1].file)
      BY <1>0, <2>1 DEF DepthOK
    <3>1. /\ \A j \in 1..(stack[i].next - 1) :
               ~Descends(Imports(stack[i].file)[j], MaxDepth + 1 - i)
          /\ ~Usable(stack[i].file)
               /\ ~Descends(stack[i].file, MaxDepth + 2 - i) =>
               ~Overflows(stack[1].file)
      BY <2>2 DEF Verdicts, DepthOK
    <3>2. stack'[1].file = stack[1].file
      BY <2>2
    <3>3. CASE i # n - 1
      BY <2>2, <3>1, <3>2, <3>3
    <3>4. CASE i = n - 1
      <4>1. ~Descends(Imports(stack[i].file)[stack[i].next], MaxDepth + 1 - i)
        <5>1. MaxDepth + 1 - i = MaxDepth + 2 - n
          BY <1>1, <3>4
        <5> QED
          BY <1>1, <2>3, <3>4, <5>1
      <4>2. stack[i].next \in Nat \ {0}
        BY <1>1, <2>2 DEF Frame
      <4>3. \A j \in 1..stack[i].next : j \in 1..(stack[i].next - 1) \/ j = stack[i].next
        BY <4>2
      <4>4. stack'[i].next - 1 = stack[i].next /\ stack'[i].file = stack[i].file
        <5>1. /\ stack'[i].next = stack[i].next + 1
              /\ stack'[i].file = stack[i].file
          BY ONLY <2>2, <3>4
        <5> QED
          BY ONLY <4>2, <5>1
      <4> QED
        BY ONLY <3>1, <3>2, <4>1, <4>3, <4>4
    <3> QED
      BY <3>3, <3>4
  <2>6. FinishedOK'
    <3>1. stack # <<>> /\ stack' # <<>> /\ stack'[1].file = stack[1].file
      BY <1>1, <1>4, <2>1, <2>2, EmptySeq
    <3> QED
      BY <1>0, <3>1 DEF Verdicts, FinishedOK
  <2> QED
    BY <1>2, <2>4, <2>5, <2>6 DEF Verdicts
<1> QED
  BY <1>1, <1>3, <1>4

\* The invalid file has all its imports, so that the file taken comes to nothing worse.
LEMMA RejectKeepsVerdicts ==
  ASSUME TypeOK, Invariant, Verdicts, Reject PROVE Verdicts'
<1> USE DEF Reject
<1>0. \A g : Breaks(g)' = Breaks(g) /\ Overflows(g)' = Overflows(g)
  BY VerdictFixed
<1>1. /\ Len(stack) \in 1..Len(stack) /\ Top = stack[Len(stack)]
      /\ ~Breaks(Top.file)
      /\ ~Descends(Top.file, MaxDepth + 2 - Len(stack))
  BY InnermostFinishes
<1>2. ~Usable(Top.file)
  BY UsableImports
<1>3. ~Breaks(stack[1].file) /\ ~Overflows(stack[1].file)
  BY <1>1, <1>2 DEF Verdicts, BreakOK, DepthOK
<1>4. stack' = <<>> /\ Len(stack') = 0
  BY EmptySeq
<1>5. BreakOK' /\ DepthOK'
  BY <1>4 DEF BreakOK, DepthOK
<1>6. FinishedOK'
  BY <1>0, <1>3, <1>4 DEF Verdicts, FinishedOK
<1>7. OutcomeFixed'
  BY DEF OutcomeFixed, Invariant, LoopOK
<1> QED
  BY <1>5, <1>6, <1>7 DEF Verdicts

LEMMA AbortKeepsVerdicts ==
  ASSUME TypeOK, Invariant, Verdicts, MissingImport \/ Overflow PROVE Verdicts'
<1> USE DEF MissingImport, Overflow
<1> DEFINE n == Len(stack)
<1>0. \A g : Breaks(g)' = Breaks(g) /\ Overflows(g)' = Overflows(g)
  BY VerdictFixed
<1>1. n \in Nat /\ n >= 1 /\ \A i \in 1..n : stack[i] \in Frame
  BY StackFacts DEF Pending
<1>2. ASSUME NEW i \in 1..n
      PROVE  /\ stack[i].file \in set.files /\ stack[i].next \in Nat \ {0}
             /\ Len(Imports(stack[i].file)) \in Nat
             /\ Reached(stack[i].file, stack[i].next)
  <2>1. stack[i].file \in File /\ stack[i].next \in Nat \ {0}
    BY <1>1 DEF Frame
  <2> QED
    BY <2>1, ImportFacts DEF Invariant, StackOK, Reached
<1>3. /\ Top = stack[n] /\ Top.file \in set.files
      /\ Top.next \in 1..Len(Imports(Top.file)) /\ Reached(Top.file, Top.next)
  <2>1. n \in 1..n /\ Top = stack[n]
    BY <1>1 DEF Top
  <2> QED
    BY <1>2, <2>1 DEF Pending
<1>4. stack' = <<>> /\ Len(stack') = 0
  BY EmptySeq
<1>5. BreakOK' /\ DepthOK' /\ FinishedOK'
  BY <1>4 DEF BreakOK, DepthOK, FinishedOK
<1>6. CASE MissingImport
  <2>1. Breaks(Top.file)
    BY <1>3, <1>6, BreaksIfReached DEF NextImport
  <2> QED
    BY <1>0, <1>3, <1>5, <1>6, <2>1 DEF Verdicts, OutcomeFixed
<1>7. CASE Overflow
  <2> DEFINE p == [i \in 1..MaxDepth + 1 |->
                    IF i <= MaxDepth THEN stack[i].file ELSE NextImport]
  <2>1. n = MaxDepth /\ MaxDepth \in Nat /\ MaxDepth >= 1
    BY <1>7, BuildAssumption
  <2>2. p \in [1..MaxDepth + 1 -> set.files] /\ p[1] = stack[1].file
    BY <1>2, <1>7, <2>1
  <2>3. ASSUME NEW i \in 1..MaxDepth
        PROVE  \E j \in 1..Len(Imports(p[i])) :
                 Reached(p[i], j) /\ p[i + 1] = Imports(p[i])[j]
    <3>1. p[i] = stack[i].file
      BY <2>1
    <3>2. CASE i < MaxDepth
      <4>1. i \in 1..(Len(stack) - 1) /\ i \in 1..n /\ p[i + 1] = stack[i + 1].file
        BY <2>1, <3>2
      <4>2. /\ stack[i].next <= Len(Imports(stack[i].file))
            /\ stack[i + 1].file = Imports(stack[i].file)[stack[i].next]
        BY <4>1 DEF Invariant, StackOK
      <4>3. stack[i].next \in 1..Len(Imports(stack[i].file))
        BY <1>2, <4>1, <4>2
      <4> QED
        BY <1>2, <3>1, <4>1, <4>2, <4>3
    <3>3. CASE i = MaxDepth
      <4>1. p[i + 1] = NextImport
        BY <2>1, <3>3
      <4>2. p[i] = Top.file
        BY <1>3, <2>1, <3>1, <3>3
      <4> SUFFICES \E j \in 1..Len(Imports(Top.file)) :
                     Reached(Top.file, j) /\ NextImport = Imports(Top.file)[j]
        BY <4>1, <4>2
      <4> QED
        BY <1>3 DEF NextImport
    <3>4. i < MaxDepth \/ i = MaxDepth
      BY <2>1
    <3> QED
      BY <3>2, <3>3, <3>4, Zenon
  <2> HIDE DEF p
  <2>4. (MaxDepth + 1) - 1 = MaxDepth
    BY <2>1
  <2>5. Overflows(stack[1].file)
    BY ONLY <2>2, <2>3, <2>4 DEF Overflows, Descends
  <2>6. stack[1].file \in set.files
    BY <1>1, <1>2
  <2> QED
    BY <1>0, <1>5, <1>7, <2>5, <2>6 DEF Verdicts, OutcomeFixed
<1> QED
  BY <1>6, <1>7

LEMMA FinishKeepsVerdicts ==
  ASSUME TypeOK, Invariant, Verdicts, Finish \/ UNCHANGED vars PROVE Verdicts'
<1>0. set' = set /\ stack' = stack /\ left' = left
  BY DEF Finish, vars
<1>1. /\ \A g : Usable(g)' = Usable(g) /\ Breaks(g)' = Breaks(g)
      /\ \A g, m : Descends(g, m)' = Descends(g, m)
      /\ \A g : Overflows(g)' = Overflows(g) /\ Imports(g)' = Imports(g)
  BY <1>0, UsableFixed, VerdictFixed DEF Imports
<1>2. BreakOK'
  BY <1>0, <1>1 DEF Verdicts, BreakOK
<1>3. DepthOK'
  BY <1>0, <1>1 DEF Verdicts, DepthOK
<1>4. CASE Finish
  <2>1. \A f \in set.files : ~Breaks(f) /\ ~Overflows(f)
    BY <1>4 DEF Finish, Verdicts, FinishedOK
  <2>2. FinishedOK' /\ OutcomeFixed'
    BY <1>0, <1>1, <1>4, <2>1 DEF Finish, FinishedOK, OutcomeFixed
  <2> QED
    BY <1>2, <1>3, <2>2 DEF Verdicts
<1>5. CASE UNCHANGED vars
  <2>1. outcome' = outcome
    BY <1>5 DEF vars
  <2>2. FinishedOK' /\ OutcomeFixed'
    BY <1>0, <1>1, <2>1 DEF Verdicts, FinishedOK, OutcomeFixed
  <2> QED
    BY <1>2, <1>3, <2>2 DEF Verdicts
<1> QED
  BY <1>4, <1>5

\* For every descriptor set, with import cycles or without: in whatever order the
\* loop takes the files, it ends with a resolver, or with an exception, for what the
\* files are.
THEOREM OutcomeIsFixed == Spec => []OutcomeFixed
<1>1. TypeOK /\ Invariant /\ Verdicts /\ [Next]_vars => Verdicts'
  BY TakeKeepsVerdicts, DescendKeepsVerdicts, BuildKeepsVerdicts, RejectKeepsVerdicts,
     AbortKeepsVerdicts, FinishKeepsVerdicts DEF Next
<1>2. Verdicts => OutcomeFixed
  BY DEF Verdicts
<1> QED
  BY <1>1, <1>2, VerdictsInit, InvariantHolds, Typing, PTL DEF Spec

\* There is no resolver only for a set that lacks an import, or whose imports are
\* nested deeper than the thread's stack allows.
THEOREM AbortIsJustified == Spec => []AbortJustified
<1>1. OutcomeFixed => AbortJustified
  <2> SUFFICES ASSUME OutcomeFixed PROVE AbortJustified
    OBVIOUS
  <2>1. ASSUME outcome = "aborted" PROVE ~Closed(set.files)
    <3>1. Closed(set.files) => HoldsImporters({})
      BY DEF Closed, HoldsImporters
    <3>2. HoldsImporters({}) => \A f \in set.files : ~Breaks(f)
      BY DEF Breaks
    <3> QED
      BY <2>1, <3>1, <3>2 DEF OutcomeFixed
  <2>2. ASSUME outcome = "overflow"
        PROVE  \E p \in [1..MaxDepth + 1 -> set.files] : \A i \in 1..MaxDepth :
                 \E j \in 1..Len(Imports(p[i])) : p[i + 1] = Imports(p[i])[j]
    <3>1. (MaxDepth + 1) - 1 = MaxDepth
      BY BuildAssumption
    <3> QED
      BY <2>2, <3>1 DEF OutcomeFixed, Overflows, Descends
  <2> QED
    BY <2>1, <2>2 DEF AbortJustified
<1> QED
  BY <1>1, OutcomeIsFixed, PTL
=============================================================================
