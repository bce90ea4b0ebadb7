------------------------- MODULE MCReflectionLookup -------------------------
(***************************************************************************)
(* Servers for model checking ReflectionLookup on three or four files.     *)
(***************************************************************************)
EXTENDS ReflectionLookup

CONSTANTS r0, a, b

\* protoc accepts no import cycle: a file imports only those before it.
Before == [f \in File |-> CASE f = r0 -> {a, b} [] f = a -> {b} [] f = b -> {}]

Acyclic == {g \in [File -> SUBSET File] : \A f \in File : g[f] \subseteq Before[f]}

\* A reflection server is free to report anything, cycles included.
Cyclic == {[f \in File |-> CASE f = r0 -> {a} [] f = a -> {b} [] f = b -> {a}],
           [f \in File |-> CASE f = r0 -> {a, b} [] f = a -> {r0} [] f = b -> {b}]}

Graph == Acyclic \cup Cyclic

ServersOf(graphs, batchings, missings, garbleds, slows) ==
  {s \in [deps : graphs, batching : batchings, missing : missings, garbled : garbleds,
          slow : slows] : s.missing \cap s.garbled = {}}

\* Slow or not, with any packing, and any file missing or garbled.
AnyServers == ServersOf(Graph, Batching, SUBSET File, SUBSET File, BOOLEAN)

\* Servers that find and send every file intact.
FaultlessServers == ServersOf(Graph, Batching, {{}}, {{}}, {FALSE})

\* Everything at once, without some import the server has no descriptor for.
OmittingServers ==
  {s \in ServersOf(Acyclic, {"closure", "unsent"}, SUBSET File, {{}}, {TRUE}) :
     r0 \notin s.missing}
=============================================================================
