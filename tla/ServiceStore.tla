---------------------------- MODULE ServiceStore ----------------------------
(***************************************************************************)
(* The two storages a BaseStorage can be: LocalCacheStorage, a Guava cache *)
(* that drops an entry when it has not been read or written for a time and *)
(* evicts when it is full, and MapStorage, a map without either.           *)
(*                                                                         *)
(* A store is a function from its keys to records of a value and the time  *)
(* since the entry's last access.  An entry that has expired is gone.      *)
(***************************************************************************)
EXTENDS Naturals, FiniteSets

\* The limits of a storage: expire = 0 makes it a MapStorage (StorageUtils).
Limits == [expire : Nat, max : Nat \ {0}]

IsStore(st, Key, Value) ==
  /\ DOMAIN st \subseteq Key
  /\ st \in [DOMAIN st -> [value : Value, idle : Nat]]

NewStorage == [k \in {} |-> {}]

Exists(st, k) == k \in DOMAIN st

\* get: the entry found is as good as new.
AfterGet(st, k) ==
  [j \in DOMAIN st |-> IF j = k THEN [value |-> st[j].value, idle |-> 0] ELSE st[j]]

With(st, k, v) ==
  [j \in DOMAIN st \cup {k} |-> IF j = k THEN [value |-> v, idle |-> 0] ELSE st[j]]

Without(st, k) == [j \in DOMAIN st \ {k} |-> st[j]]

\* put with room for one entry less.
AfterPutEarly(st, k, v, limits) ==
  LET full == limits.expire > 0 /\ Cardinality(DOMAIN st \cup {k}) >= limits.max
      oldest == {j \in DOMAIN st \ {k} :
                   \A i \in DOMAIN st \ {k} : st[i].idle <= st[j].idle}
  IN  IF full THEN {With(Without(st, j), k, v) : j \in oldest}
              ELSE {With(st, k, v)}

\* put: a full cache makes room by evicting an entry not used for longest.
AfterPut(st, k, v, limits) ==
  LET full == limits.expire > 0 /\ Cardinality(DOMAIN st \cup {k}) > limits.max
      oldest == {j \in DOMAIN st \ {k} :
                   \A i \in DOMAIN st \ {k} : st[i].idle <= st[j].idle}
  IN  IF full THEN {With(Without(st, j), k, v) : j \in oldest}
              ELSE {With(st, k, v)}

\* Entries that live a unit too long.
AfterTickLate(st, limits) ==
  IF limits.expire = 0 THEN st
  ELSE [j \in {i \in DOMAIN st : st[i].idle < limits.expire} |->
          [value |-> st[j].value, idle |-> st[j].idle + 1]]

\* A unit of time goes by.
AfterTick(st, limits) ==
  IF limits.expire = 0 THEN st
  ELSE [j \in {i \in DOMAIN st : st[i].idle + 1 < limits.expire} |->
          [value |-> st[j].value, idle |-> st[j].idle + 1]]
=============================================================================
