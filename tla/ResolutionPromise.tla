-------------------------- MODULE ResolutionPromise --------------------------
(***************************************************************************)
(* What GrpcReflectionUtils promises a registration (resolveServices) and  *)
(* a method call (resolveService): the server's list of services is taken  *)
(* once, and then the file sets of some of them, or of the one wanted, are *)
(* returned together, or an exception is thrown.  ServiceRegistry and      *)
(* Invocation use a resolution as this and take no notice of its steps.    *)
(***************************************************************************)
EXTENDS Sequences

CONSTANTS
  All,     \* the goal of resolveServices
  Goals,   \* the goals considered: All, or the service wanted
  Lists    \* the lists of services a server may answer with

VARIABLES
  goal,    \* what is asked for
  state,   \* "asked", "listed", "returned" or "threw"
  list,    \* the services listed
  files    \* the services whose file sets are returned

vars == <<goal, state, list, files>>

ServicesIn(l) == {l[i] : i \in DOMAIN l}

Init ==
  /\ goal \in Goals
  /\ state = "asked" /\ list = <<>> /\ files = {}

List ==
  /\ state = "asked"
  /\ state' = "listed" /\ list' \in Lists
  /\ UNCHANGED <<goal, files>>

\* Of all services those whose lookups were successful; or the one the server has.
Return ==
  /\ state = "listed"
  /\ state' = "returned"
  /\ IF goal = All THEN files' \subseteq ServicesIn(list)
                   ELSE goal \in ServicesIn(list) /\ files' = {goal}
  /\ UNCHANGED <<goal, list>>

Throw ==
  /\ state \in {"asked", "listed"}
  /\ state' = "threw" /\ list' = <<>>
  /\ UNCHANGED <<goal, files>>

Next == List \/ Return \/ Throw

Spec == Init /\ [][Next]_vars
=============================================================================
