--------------------------- MODULE DescriptorBuild ---------------------------
(***************************************************************************)
(* ServiceResolver.fromFileDescriptorSet: turning the set of file protos   *)
(* that a lookup returned into linked file descriptors.                    *)
(*                                                                         *)
(* Every file of the set is built in turn, and building a file first       *)
(* builds, recursively, every file it imports.  descriptorCache is asked   *)
(* first, but nothing is ever put into it, so that it always misses and a  *)
(* file is built again for each path that leads to it.                     *)
(***************************************************************************)
EXTENDS Naturals, Sequences, FiniteSets

CONSTANTS
  File,      \* .proto files
  Sets,      \* the descriptor sets considered
  MaxDepth   \* frames of descriptorFromProto that fit the thread's stack

(***************************************************************************)
(* A descriptor set: the files it holds, the list of imports of each file, *)
(* and the files buildFrom rejects with a DescriptorValidationException.   *)
(***************************************************************************)
SetType ==
  [files : SUBSET File, deps : [File -> Seq(File)], invalid : SUBSET File]

ASSUME BuildAssumption ==
  /\ Sets \subseteq SetType
  /\ MaxDepth \in Nat \ {0}

VARIABLES
  set,      \* the descriptor set
  left,     \* files the loop has not come to yet
  stack,    \* the calls of descriptorFromProto, innermost last
  result,   \* files whose descriptors are in the resolver
  built,    \* how often buildFrom has made a descriptor of each file
  outcome   \* "running", "done", "aborted" or "overflow"

vars == <<set, left, stack, result, built, outcome>>

\* One call: the file, and which of its imports is next.
Frame == [file : File, next : Nat \ {0}]

TypeOK ==
  /\ set \in Sets
  /\ left \subseteq set.files
  /\ stack \in Seq(Frame)
  /\ result \subseteq File
  /\ built \in [File -> Nat]
  /\ outcome \in {"running", "done", "aborted", "overflow"}

Init ==
  /\ set \in Sets
  /\ left = set.files
  /\ stack = <<>>
  /\ result = {}
  /\ built = [f \in File |-> 0]
  /\ outcome = "running"

-----------------------------------------------------------------------------
Top == stack[Len(stack)]
Imports(f) == set.deps[f]

\* TakeFile with an import counted from zero.
TakeFileFromZero(f) ==
  /\ outcome = "running" /\ stack = <<>>
  /\ f \in left
  /\ left' = left \ {f}
  /\ stack' = <<[file |-> f, next |-> 0]>>
  /\ UNCHANGED <<set, result, built, outcome>>

\* The loop takes the next file.  The set lists the values of a HashMap, in an
\* order that says nothing.
TakeFile(f) ==
  /\ outcome = "running" /\ stack = <<>>
  /\ f \in left
  /\ left' = left \ {f}
  /\ stack' = <<[file |-> f, next |-> 1]>>
  /\ UNCHANGED <<set, result, built, outcome>>

\* The innermost call has an import left to build.
Pending == stack # <<>> /\ Top.next <= Len(Imports(Top.file))
NextImport == Imports(Top.file)[Top.next]

\* An import that is in the set is built by a recursive call.
Descend ==
  /\ Pending /\ NextImport \in set.files
  /\ Len(stack) < MaxDepth
  /\ stack' = Append(stack, [file |-> NextImport, next |-> 1])
  /\ UNCHANGED <<set, left, result, built, outcome>>

\* Overflow with no limit: the recursion goes on.
OverflowForever ==
  /\ Pending /\ NextImport \in set.files
  /\ Len(stack) = MaxDepth
  /\ UNCHANGED vars

\* The thread's stack is full: a StackOverflowError, which nothing catches.
Overflow ==
  /\ Pending /\ NextImport \in set.files
  /\ Len(stack) = MaxDepth
  /\ stack' = <<>> /\ outcome' = "overflow"
  /\ UNCHANGED <<set, left, result, built>>

\* MissingImport with the exception caught in the loop.
MissingImportSkipped ==
  /\ Pending /\ NextImport \notin set.files
  /\ stack' = <<>>
  /\ UNCHANGED <<set, left, result, built, outcome>>

\* An import that is not in the set: an IllegalArgumentException, which the loop
\* does not catch.
MissingImport ==
  /\ Pending /\ NextImport \notin set.files
  /\ stack' = <<>> /\ outcome' = "aborted"
  /\ UNCHANGED <<set, left, result, built>>

\* The innermost call is over, and the one above it goes on to its next import.
Returned ==
  LET above == Len(stack) - 1
  IN  [i \in 1..above |->
         IF i = above THEN [stack[i] EXCEPT !.next = @ + 1] ELSE stack[i]]

\* All imports are there: the descriptor is made and returned to the call above,
\* or to the loop.
BuildFrom ==
  /\ stack # <<>> /\ ~Pending
  /\ Top.file \notin set.invalid
  /\ built' = [built EXCEPT ![Top.file] = @ + 1]
  /\ \/ Len(stack) = 1 /\ stack' = <<>> /\ result' = result \cup {Top.file}
     \/ Len(stack) > 1 /\ stack' = Returned /\ UNCHANGED result
  /\ UNCHANGED <<set, left, outcome>>

\* Reject caught in the innermost call, which then returns without the file.
RejectInner ==
  /\ stack # <<>> /\ ~Pending
  /\ Top.file \in set.invalid
  /\ stack' = IF Len(stack) = 1 THEN <<>> ELSE Returned
  /\ UNCHANGED <<set, left, result, built, outcome>>

\* buildFrom rejects the file: the loop skips the file it had taken.
Reject ==
  /\ stack # <<>> /\ ~Pending
  /\ Top.file \in set.invalid
  /\ stack' = <<>>
  /\ UNCHANGED <<set, left, result, built, outcome>>

Finish ==
  /\ outcome = "running" /\ stack = <<>> /\ left = {}
  /\ outcome' = "done"
  /\ UNCHANGED <<set, left, stack, result, built>>

Next ==
  \/ \E f \in File : TakeFile(f)
  \/ Descend \/ Overflow \/ MissingImport \/ BuildFrom \/ Reject \/ Finish

Spec == Init /\ [][Next]_vars

\* The code runs in one thread, to its end.
FairSpec == Spec /\ WF_vars(Next)

-----------------------------------------------------------------------------
(***************************************************************************)
(* Properties.                                                             *)
(***************************************************************************)

\* S holds the imports of its own files.
Closed(S) == \A f \in S : \A i \in 1..Len(Imports(f)) : Imports(f)[i] \in S

\* The file and all it imports, directly or not, are there and valid.
Usable(f) ==
  \E S \in SUBSET (set.files \ set.invalid) : f \in S /\ Closed(S)

\* A resolver holds exactly the usable files, whichever the order in which the
\* files come: one bad file takes along its importers and nothing else, and a set of
\* good files that lacks an import never makes a resolver of some of them.
ResultExact ==
  outcome = "done" =>
    /\ result = {f \in set.files : Usable(f)}
    /\ set.files \cap set.invalid = {} => result = set.files

\* The imports of f before the one numbered i can all be built.
Reached(f, i) == \A j \in 1..(i - 1) : Usable(Imports(f)[j])

\* S has every file that reaches an import which is missing or in S.
HoldsImporters(S) ==
  \A f \in set.files : \A i \in 1..Len(Imports(f)) :
    Reached(f, i) /\ (Imports(f)[i] \notin set.files \/ Imports(f)[i] \in S) => f \in S

\* Building f comes to a missing import before it comes to an invalid file ...
Breaks(f) == \A S \in SUBSET set.files : HoldsImporters(S) => f \in S

\* ... or goes down a chain of n files.
Descends(f, n) ==
  \E p \in [1..n -> set.files] :
    /\ p[1] = f
    /\ \A i \in 1..(n - 1) : \E j \in 1..Len(Imports(p[i])) :
         Reached(p[i], j) /\ p[i + 1] = Imports(p[i])[j]

Overflows(f) == Descends(f, MaxDepth + 1)

\* Whether there is a resolver does not depend on the order of the files: there is
\* one only if no file breaks or overflows, and none only if some file does.
OutcomeFixed ==
  /\ outcome = "done" => \A f \in set.files : ~Breaks(f) /\ ~Overflows(f)
  /\ outcome = "aborted" => \E f \in set.files : Breaks(f)
  /\ outcome = "overflow" => \E f \in set.files : Overflows(f)

\* In short: no resolver at all is the answer only to a set that lacks an import or
\* whose imports are nested too deeply.
AbortJustified ==
  /\ outcome = "aborted" => ~Closed(set.files)
  /\ outcome = "overflow" =>
       \E p \in [1..MaxDepth + 1 -> set.files] : \A i \in 1..MaxDepth :
         \E j \in 1..Len(Imports(p[i])) : p[i + 1] = Imports(p[i])[j]

\* It always comes to an end, import cycles included.
Terminates == <>(outcome # "running")

\* The comment on descriptorFromProto: with the descriptorCache reused across
\* calls a descriptor is made once.
BuiltOnce == \A f \in File : built[f] <= 1

-----------------------------------------------------------------------------
(***************************************************************************)
(* The invariants behind ResultExact and OutcomeFixed.                     *)
(***************************************************************************)

\* Each call builds an import of the call above it, has built all its earlier
\* imports, and is needed for the file the loop has taken.
StackOK ==
  /\ Len(stack) <= MaxDepth
  /\ \A i \in 1..Len(stack) :
       /\ stack[i].file \in set.files
       /\ stack[i].next <= Len(Imports(stack[i].file)) + 1
       /\ \A j \in 1..(stack[i].next - 1) : Usable(Imports(stack[i].file)[j])
       /\ Usable(stack[1].file) => Usable(stack[i].file)
  /\ \A i \in 1..(Len(stack) - 1) :
       /\ stack[i].next <= Len(Imports(stack[i].file))
       /\ stack[i + 1].file = Imports(stack[i].file)[stack[i].next]

\* The files the loop is through with are in the resolver or are not usable.
LoopOK ==
  /\ stack # <<>> => outcome = "running" /\ stack[1].file \notin left
  /\ outcome = "done" => left = {}
  /\ \A f \in result : Usable(f)
  /\ \A f \in set.files \ left :
       f \in result \/ ~Usable(f) \/ outcome \in {"aborted", "overflow"}
         \/ (stack # <<>> /\ f = stack[1].file)

Invariant == StackOK /\ LoopOK

\* If no file is invalid the loop skips none.
NoneSkipped ==
  set.files \cap set.invalid = {} =>
    \A f \in set.files \ left :
      f \in result \/ outcome \in {"aborted", "overflow"}
        \/ (stack # <<>> /\ f = stack[1].file)

\* The file the loop has taken breaks only if the innermost call does, or returns.
BreakOK ==
  \A i \in 1..Len(stack) :
    ~Usable(stack[i].file) /\ ~Breaks(stack[i].file) => ~Breaks(stack[1].file)

\* No chain below an import that is built was too long for the frames left, and a
\* chain that is comes down the stack.
DepthOK ==
  \A i \in 1..Len(stack) :
    /\ \A j \in 1..(stack[i].next - 1) :
         ~Descends(Imports(stack[i].file)[j], MaxDepth + 1 - i)
    /\ ~Usable(stack[i].file) /\ ~Descends(stack[i].file, MaxDepth + 2 - i) =>
         ~Overflows(stack[1].file)

\* The files the loop is through with do not break or overflow.
FinishedOK ==
  \A f \in set.files \ left :
    \/ ~Breaks(f) /\ ~Overflows(f)
    \/ outcome \in {"aborted", "overflow"}
    \/ stack # <<>> /\ f = stack[1].file

Verdicts == BreakOK /\ DepthOK /\ FinishedOK /\ OutcomeFixed
=============================================================================
