-------------------------- MODULE MCDescriptorBuild --------------------------
(***************************************************************************)
(* Descriptor sets for model checking DescriptorBuild on three files.      *)
(***************************************************************************)
EXTENDS DescriptorBuild, SequencesExt

CONSTANTS r0, a, b

\* Import lists without repetition of files of S, in any order.
Lists(S) == UNION {SetToSeqs(T) : T \in SUBSET S}

AcyclicDeps ==
  {[f \in File |-> CASE f = r0 -> l.r [] f = a -> l.a [] f = b -> <<>>] :
     l \in [r : Lists({a, b}), a : Lists({b})]}

CyclicDeps ==
  {[f \in File |-> CASE f = r0 -> <<a>> [] f = a -> <<b, r0>> [] f = b -> <<>>],
   [f \in File |-> CASE f = r0 -> <<a>> [] f = a -> <<b>> [] f = b -> <<a>>]}

AnySets ==
  [files : SUBSET File, deps : AcyclicDeps \cup CyclicDeps, invalid : SUBSET File]

\* What a complete lookup returns.
CompleteSets == [files : {File}, deps : AcyclicDeps, invalid : {{}}]
=============================================================================
