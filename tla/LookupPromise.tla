---------------------------- MODULE LookupPromise ----------------------------
(***************************************************************************)
(* What ServerReflectionClient.lookupService promises its caller, as one   *)
(* future: it starts pending and is settled at most once, either with the  *)
(* descriptors of the file that declares the service and of everything it  *)
(* imports, or with an exception.  Where the lookup is not sound the       *)
(* result may lack some, but it is settled once all the same.              *)
(***************************************************************************)
CONSTANTS File, Root

VARIABLES
  deps,     \* the remote server's import graph; never changes
  sound,    \* whether a result is complete; never changes
  future,   \* "pending", "done" or "failed"
  value     \* the files of the FileDescriptorSet once future = "done"

vars == <<deps, sound, future, value>>

\* A set of files that needs nothing outside itself.
Closed(S) == \A f \in S : deps[f] \subseteq S

\* The results the javadoc allows: the service's file and all it depends on.
Complete(S) == Root \in S /\ Closed(S)

Init ==
  /\ future = "pending"
  /\ value = {}

Succeed ==
  /\ future = "pending"
  /\ future' = "done"
  /\ value' \in SUBSET File
  /\ sound => Complete(value')
  /\ UNCHANGED <<deps, sound>>

Fail ==
  /\ future = "pending"
  /\ future' = "failed"
  /\ UNCHANGED <<deps, sound, value>>

Next == Succeed \/ Fail

Spec == Init /\ [][Next]_vars
=============================================================================
