------------------------ MODULE ServiceRegistryProofs ------------------------
(***************************************************************************)
(* What holds of ServiceRegistry for all services, endpoints, threads and  *)
(* limits.                                                                 *)
(***************************************************************************)
EXTENDS ServiceRegistry, FiniteSetTheorems, TLAPS

-----------------------------------------------------------------------------
(***************************************************************************)
(* The storages.                                                           *)
(***************************************************************************)

\* put leaves the entry it makes, and of the others it changes none.
LEMMA PutEffect ==
  ASSUME NEW Key, NEW Value, NEW st, IsStore(st, Key, Value),
         NEW k \in Key, NEW v \in Value, NEW limits,
         NEW new \in AfterPut(st, k, v, limits)
  PROVE  /\ IsStore(new, Key, Value)
         /\ k \in DOMAIN new /\ new[k] = [value |-> v, idle |-> 0]
         /\ DOMAIN new \subseteq DOMAIN st \cup {k}
         /\ \A j \in DOMAIN new \ {k} : new[j] = st[j]
<1>1. CASE new = With(st, k, v)
  BY <1>1 DEF IsStore, With
<1>2. ASSUME NEW j \in DOMAIN st, j # k, new = With(Without(st, j), k, v)
      PROVE  /\ IsStore(new, Key, Value)
             /\ k \in DOMAIN new /\ new[k] = [value |-> v, idle |-> 0]
             /\ DOMAIN new \subseteq DOMAIN st \cup {k}
             /\ \A i \in DOMAIN new \ {k} : new[i] = st[i]
  BY <1>2 DEF IsStore, With, Without
<1> QED
  BY <1>1, <1>2 DEF AfterPut

\* A put that finds room adds its key and drops none.
LEMMA PutKeeps ==
  ASSUME NEW Key, IsFiniteSet(Key), NEW st, DOMAIN st \subseteq Key,
         NEW k \in Key, NEW v, NEW limits \in Limits,
         limits.expire = 0 \/ limits.max >= Cardinality(Key)
  PROVE  AfterPut(st, k, v, limits) = {With(st, k, v)}
<1>1. DOMAIN st \cup {k} \subseteq Key
  OBVIOUS
<1>2. /\ Cardinality(DOMAIN st \cup {k}) <= Cardinality(Key)
      /\ Cardinality(Key) \in Nat /\ Cardinality(DOMAIN st \cup {k}) \in Nat
  BY <1>1, FS_Subset, FS_CardinalityType
<1> QED
  BY <1>2 DEF AfterPut, Limits

\* get finds what is there and makes it fresh.
LEMMA GetEffect ==
  ASSUME NEW Key, NEW Value, NEW st, IsStore(st, Key, Value), NEW k
  PROVE  /\ IsStore(AfterGet(st, k), Key, Value)
         /\ DOMAIN AfterGet(st, k) = DOMAIN st
         /\ \A j \in DOMAIN st :
              /\ AfterGet(st, k)[j].value = st[j].value
              /\ AfterGet(st, k)[j].idle = IF j = k THEN 0 ELSE st[j].idle
  BY DEF IsStore, AfterGet

\* Time drops entries and otherwise changes their ages only.
LEMMA TickEffect ==
  ASSUME NEW Key, NEW Value, NEW st, IsStore(st, Key, Value), NEW limits \in Limits
  PROVE  /\ IsStore(AfterTick(st, limits), Key, Value)
         /\ DOMAIN AfterTick(st, limits) \subseteq DOMAIN st
         /\ \A j \in DOMAIN AfterTick(st, limits) :
              /\ AfterTick(st, limits)[j].value = st[j].value
              /\ limits.expire > 0 =>
                   /\ st[j].idle + 1 < limits.expire
                   /\ AfterTick(st, limits)[j].idle = st[j].idle + 1
<1>1. CASE limits.expire = 0
  BY <1>1 DEF AfterTick
<1>2. CASE limits.expire # 0
  BY <1>2 DEF AfterTick, IsStore, Limits
<1> QED
  BY <1>1, <1>2

-----------------------------------------------------------------------------
LEMMA SetupTyped == ASSUME TypeOK
                    PROVE /\ setup \in SetupType /\ setup.limits \in Limits
                          /\ setup.registrars \subseteq Thread
                          /\ setup.readers \subseteq Thread
                          /\ setup.limits.expire \in Nat
                          /\ setup.limits.max \in Nat
  BY RegistryAssumption DEF TypeOK, SetupType, Limits

LEMMA OffersTyped == ASSUME NEW e \in Endpoint
                     PROVE \A i \in DOMAIN Offers[e] : i \in Nat /\ Offers[e][i] \subseteq Service
  BY RegistryAssumption

LEMMA AnEndpointTyped == AnEndpoint \in Endpoint
  BY RegistryAssumption DEF AnEndpoint

LEMMA TypingStep == ASSUME TypeOK, PhaseOK, Next PROVE TypeOK'
<1> USE DEF TypeOK
<1> USE SetupTyped, OffersTyped, AnEndpointTyped
<1> DEFINE Locs == {"idle", "resolving", "docs", "configs", "setHost", "render"}
<1>0. Len(heap) \in Nat
  BY DEF TypeOK
<1> DEFINE Handlers == <<setup, heap, stores, started>>
<1>1. ASSUME NEW t \in Thread, NEW e \in Endpoint, Register(t, e) PROVE TypeOK'
  <2>1. started' \in 0..MaxRegistrations
    BY <1>1, RegistryAssumption DEF Register
  <2>2. /\ pc' \in [Thread -> Locs]
        /\ endpoint' \in [Thread -> Endpoint]
    BY <1>1 DEF Register
  <2> QED
    BY <1>1, <2>1, <2>2 DEF Register, stores
<1>2. ASSUME NEW t \in Thread, Answered(t), UNCHANGED Handlers PROVE TypeOK'
  BY <1>2 DEF Answered, stores, NoDoc
<1>3. ASSUME NEW t \in Thread, Resolve(t) PROVE TypeOK'
  <2>1. PICK ok \in SUBSET DOMAIN Offers[endpoint[t]] :
          /\ found' = [found EXCEPT ![t] = ok]
          /\ names' = [names EXCEPT ![t] = Covered(endpoint[t], ok) \ Blocked]
    BY <1>3 DEF Resolve
  <2>2. ok \in SUBSET Nat /\ Covered(endpoint[t], ok) \subseteq Service
    BY OffersTyped DEF Covered
  <2>3. found' \in [Thread -> SUBSET Nat] /\ names' \in [Thread -> SUBSET (Service \ Blocked)]
    BY <2>1, <2>2
  <2>4. pc' \in [Thread -> Locs]
    BY <1>3 DEF Resolve
  <2> QED
    BY <1>3, <2>3, <2>4 DEF Resolve, stores
<1>4. ASSUME NEW t \in Thread, BuildDoc(t) PROVE TypeOK'
  <2>1. heap' \in Seq(Document) /\ Len(heap') = Len(heap) + 1
    BY <1>4 DEF BuildDoc, Document
  <2>2. IsStore(docs', Service, 1..Len(heap'))
    BY <1>4, <2>1 DEF BuildDoc, stores, IsStore
  <2>3. doc' \in [Thread -> 0..Len(heap')]
    BY <1>4, <2>1 DEF BuildDoc
  <2>4. PICK i \in found[t] :
          /\ found' = [found EXCEPT ![t] = @ \ {i}]
          /\ todo' = [todo EXCEPT ![t] = Offers[endpoint[t]][i]]
    BY <1>4 DEF BuildDoc
  <2>5. Offers[endpoint[t]][i] \subseteq Service
    BY <1>4, OffersTyped DEF BuildDoc, PhaseOK, Phase
  <2>6. found' \in [Thread -> SUBSET Nat] /\ todo' \in [Thread -> SUBSET Service]
    BY <2>4, <2>5
  <2> QED
    BY <1>4, <2>1, <2>2, <2>3, <2>6 DEF BuildDoc, stores
<1>5. ASSUME NEW t \in Thread, NEW s \in Service, PutDoc(t, s) PROVE TypeOK'
  <2>1. doc[t] \in 1..Len(heap)
    BY <1>5 DEF PutDoc, PhaseOK, Phase, NoDoc
  <2>2. IsStore(docs', Service, 1..Len(heap))
    BY <1>5, <2>1, PutEffect DEF PutDoc
  <2> QED
    BY <1>5, <2>2 DEF PutDoc, Accessed
<1>6. ASSUME NEW t \in Thread, ListNames(t) PROVE TypeOK'
  BY <1>6 DEF ListNames, stores
<1>7. ASSUME NEW t \in Thread, NEW s \in Service, PutConfig(t, s) PROVE TypeOK'
  <2>1. IsStore(configs', Service \ Blocked, Endpoint)
    BY <1>7, PutEffect DEF PutConfig, PhaseOK, Phase
  <2> QED
    BY <1>7, <2>1 DEF PutConfig, Accessed
<1>8. ASSUME NEW t \in Thread, NEW s \in Service, NEW h \in Host, GetDocument(t, s, h)
      PROVE TypeOK'
  <2>1. CASE Exists(docs, s) /\ docs' = AfterGet(docs, s)
    <3>1. IsStore(docs', Service, 1..Len(heap))
      BY <2>1, GetEffect
    <3>2. docs[s].value \in 1..Len(heap)
      BY <2>1 DEF Exists, IsStore
    <3>3. doc' = [doc EXCEPT ![t] = docs[s].value] /\ since' = [since EXCEPT ![s] = 0]
      BY <1>8, <2>1 DEF GetDocument, Accessed
    <3>5. doc' \in [Thread -> 0..Len(heap)] /\ since' \in [Service -> Nat]
      BY <1>0, <3>2, <3>3
    <3>4. /\ pc' \in [Thread -> Locs]
          /\ asked' \in [Thread -> Host \cup {DefaultHost}]
      BY <1>8 DEF GetDocument
    <3> QED
      BY <1>8, <2>1, <3>1, <3>4, <3>5 DEF GetDocument, registering
  <2>2. CASE ~Exists(docs, s)
    <3>0. doc' = [doc EXCEPT ![t] = 0]
      BY <1>8, <2>2 DEF GetDocument, NoDoc
    <3>1. doc' \in [Thread -> 0..Len(heap)]
      BY <1>0, <3>0
    <3>2. /\ pc' \in [Thread -> Locs]
          /\ asked' \in [Thread -> Host \cup {DefaultHost}]
      BY <1>8 DEF GetDocument
    <3> QED
      BY <1>8, <2>2, <3>1, <3>2 DEF GetDocument, registering
  <2> QED
    BY <1>8, <2>1, <2>2 DEF GetDocument
<1>9. ASSUME NEW t \in Thread, SetHost(t) PROVE TypeOK'
  <2>0. doc[t] \in 1..Len(heap)
    BY <1>0, <1>9 DEF SetHost, PhaseOK, Phase, NoDoc
  <2>1. heap[doc[t]].from \in Endpoint
    <3>1. heap[doc[t]] \in Document
      BY <2>0
    <3> QED
      BY <3>1 DEF Document
  <2>2. [from |-> heap[doc[t]].from, host |-> asked[t]] \in Document
    BY <2>1 DEF Document
  <2>3. heap' = [heap EXCEPT ![doc[t]] = [from |-> heap[doc[t]].from, host |-> asked[t]]]
    BY <1>9 DEF SetHost
  <2>4. heap' \in Seq(Document) /\ Len(heap') = Len(heap)
    BY <2>0, <2>2, <2>3
  <2>5. pc' \in [Thread -> Locs]
    BY <1>9 DEF SetHost
  <2> QED
    BY <1>9, <2>4, <2>5 DEF SetHost, stores, registering
<1>10. ASSUME NEW t \in Thread, NEW s \in Service, GetEndPoint(t, s) PROVE TypeOK'
  <2>1. IsStore(configs', Service \ Blocked, Endpoint)
    BY <1>10, GetEffect DEF GetEndPoint
  <2> QED
    BY <1>10, <2>1 DEF GetEndPoint, Accessed, registering
<1>11. ASSUME Tick PROVE TypeOK'
  <2>1. /\ IsStore(docs', Service, 1..Len(heap))
        /\ IsStore(configs', Service \ Blocked, Endpoint)
    BY <1>11, TickEffect DEF Tick
  <2>2. since' \in [Service -> Nat]
    BY <1>11 DEF Tick
  <2> QED
    BY <1>11, <2>1, <2>2 DEF Tick, registering
<1> QED
  BY <1>1, <1>2, <1>3, <1>4, <1>5, <1>6, <1>7, <1>8, <1>9, <1>10, <1>11
  DEF Next, Registration, Reading, ResolveFails, BuildAborts, Registered, Render

-----------------------------------------------------------------------------
(***************************************************************************)
(* What a step leaves alone.                                               *)
(***************************************************************************)

\* Documents are only added, and stay of the server they were made for.
LEMMA HeapStep ==
  ASSUME TypeOK, PhaseOK, Next
  PROVE  /\ setup' = setup
         /\ Len(heap) \in Nat /\ Len(heap') \in Nat /\ Len(heap) <= Len(heap')
         /\ \A i \in 1..Len(heap) : heap'[i].from = heap[i].from
<1> USE DEF TypeOK
<1>0. Len(heap) \in Nat
  OBVIOUS
<1>1. ASSUME NEW t \in Thread, BuildDoc(t)
      PROVE  /\ Len(heap') = Len(heap) + 1
             /\ \A i \in 1..Len(heap) : heap'[i] = heap[i]
  BY <1>1 DEF BuildDoc
<1>2. ASSUME NEW t \in Thread, SetHost(t)
      PROVE  /\ Len(heap') = Len(heap)
             /\ \A i \in 1..Len(heap) : heap'[i].from = heap[i].from
  BY <1>2 DEF SetHost
<1>3. heap' = heap \/ \E t \in Thread : BuildDoc(t) \/ SetHost(t)
  BY DEF Next, Registration, Reading, Register, ResolveFails, Resolve, BuildAborts,
         PutDoc, ListNames, PutConfig, Registered, GetDocument, GetEndPoint, Render, Tick
<1>4. setup' = setup
  BY DEF Next, Registration, Reading, Register, ResolveFails, Resolve, BuildDoc,
         BuildAborts, PutDoc, ListNames, PutConfig, Registered, GetDocument, SetHost,
         GetEndPoint, Render, Tick
<1> QED
  BY <1>0, <1>1, <1>2, <1>3, <1>4

\* Entries come from puts.
LEMMA StoresStep ==
  ASSUME TypeOK, PhaseOK, Next
  PROVE  /\ \A s \in DOMAIN docs' :
              \/ s \in DOMAIN docs /\ docs'[s].value = docs[s].value
              \/ \E t \in Thread : PutDoc(t, s) /\ docs'[s].value = doc[t]
         /\ \A s \in DOMAIN configs' :
              \/ s \in DOMAIN configs /\ configs'[s].value = configs[s].value
              \/ \E t \in Thread : PutConfig(t, s) /\ configs'[s].value = endpoint[t]
         /\ \A t \in Thread, s \in Service :
              /\ PutDoc(t, s) => docs'[s].value = doc[t]
              /\ PutConfig(t, s) => configs'[s].value = endpoint[t]
<1> DEFINE Goal == /\ \A s \in DOMAIN docs' :
                        \/ s \in DOMAIN docs /\ docs'[s].value = docs[s].value
                        \/ \E t \in Thread : PutDoc(t, s) /\ docs'[s].value = doc[t]
                   /\ \A s \in DOMAIN configs' :
                        \/ s \in DOMAIN configs /\ configs'[s].value = configs[s].value
                        \/ \E t \in Thread : PutConfig(t, s) /\ configs'[s].value = endpoint[t]
<1> USE DEF TypeOK
<1>1. ASSUME NEW t \in Thread, NEW k \in Service, PutDoc(t, k)
      PROVE  /\ configs' = configs
             /\ docs'[k].value = doc[t]
             /\ \A s \in DOMAIN docs' \ {k} : s \in DOMAIN docs /\ docs'[s] = docs[s]
  <2>1. doc[t] \in 1..Len(heap)
    BY <1>1, HeapStep DEF PutDoc, PhaseOK, Phase, NoDoc
  <2>2. docs' \in AfterPut(docs, k, doc[t], setup.limits) /\ configs' = configs
    BY <1>1 DEF PutDoc
  <2>3. IsStore(docs, Service, 1..Len(heap)) /\ doc[t] \in 1..Len(heap)
    BY <2>1
  <2>4. /\ IsStore(docs', Service, 1..Len(heap))
        /\ k \in DOMAIN docs' /\ docs'[k] = [value |-> doc[t], idle |-> 0]
        /\ DOMAIN docs' \subseteq DOMAIN docs \cup {k}
        /\ \A s \in DOMAIN docs' \ {k} : docs'[s] = docs[s]
    BY ONLY <2>1, <2>2, <2>3, k \in Service, PutEffect
  <2> QED
    BY <2>2, <2>4
<1>2. ASSUME NEW t \in Thread, NEW k \in Service, PutConfig(t, k)
      PROVE  /\ docs' = docs
             /\ configs'[k].value = endpoint[t]
             /\ \A s \in DOMAIN configs' \ {k} : s \in DOMAIN configs /\ configs'[s] = configs[s]
  <2>1. k \in Service \ Blocked
    BY <1>2 DEF PutConfig, PhaseOK, Phase
  <2>2. configs' \in AfterPut(configs, k, endpoint[t], setup.limits) /\ docs' = docs
    BY <1>2 DEF PutConfig
  <2>3. IsStore(configs, Service \ Blocked, Endpoint) /\ endpoint[t] \in Endpoint
    BY <2>1
  <2>4. /\ IsStore(configs', Service \ Blocked, Endpoint)
        /\ k \in DOMAIN configs' /\ configs'[k] = [value |-> endpoint[t], idle |-> 0]
        /\ DOMAIN configs' \subseteq DOMAIN configs \cup {k}
        /\ \A s \in DOMAIN configs' \ {k} : configs'[s] = configs[s]
    BY ONLY <2>1, <2>2, <2>3, k \in Service, PutEffect
  <2> QED
    BY <2>2, <2>4
<1>3. ASSUME NEW t \in Thread, NEW k \in Service, NEW h \in Host, GetDocument(t, k, h)
      PROVE  /\ configs' = configs
             /\ \A s \in DOMAIN docs' : s \in DOMAIN docs /\ docs'[s].value = docs[s].value
  BY <1>3, GetEffect DEF GetDocument
<1>4. ASSUME NEW t \in Thread, NEW k \in Service, GetEndPoint(t, k)
      PROVE  /\ docs' = docs
             /\ \A s \in DOMAIN configs' :
                  s \in DOMAIN configs /\ configs'[s].value = configs[s].value
  BY <1>4, GetEffect DEF GetEndPoint
<1>5. ASSUME Tick
      PROVE  /\ \A s \in DOMAIN docs' : s \in DOMAIN docs /\ docs'[s].value = docs[s].value
             /\ \A s \in DOMAIN configs' :
                  s \in DOMAIN configs /\ configs'[s].value = configs[s].value
  BY <1>5, TickEffect, SetupTyped DEF Tick
<1>6. \/ docs' = docs /\ configs' = configs
      \/ Tick
      \/ \E t \in Thread, k \in Service :
           \/ PutDoc(t, k) \/ PutConfig(t, k) \/ GetEndPoint(t, k)
           \/ \E h \in Host : GetDocument(t, k, h)
  BY DEF Next, Registration, Reading, Register, ResolveFails, Resolve, BuildDoc,
         BuildAborts, ListNames, Registered, SetHost, Render, stores
<1> QED
  <2>1. ASSUME docs' = docs, configs' = configs PROVE Goal
    BY <2>1
  <2>2. ASSUME NEW t \in Thread, NEW k \in Service, PutDoc(t, k) PROVE Goal
    BY ONLY <1>1, <2>2, t \in Thread, k \in Service
  <2>3. ASSUME NEW t \in Thread, NEW k \in Service, PutConfig(t, k) PROVE Goal
    BY ONLY <1>2, <2>3, t \in Thread, k \in Service
  <2>4. Goal
    BY <1>3, <1>4, <1>5, <1>6, <2>1, <2>2, <2>3
  <2> QED
    BY <1>1, <1>2, <2>4

-----------------------------------------------------------------------------
(***************************************************************************)
(* The parts of the invariant, one at a time.                              *)
(***************************************************************************)

LEMMA PhaseStep == ASSUME TypeOK, PhaseOK, Next PROVE PhaseOK'
<1> USE DEF TypeOK
<1> SUFFICES ASSUME NEW u \in Thread PROVE Phase(u)'
  BY DEF PhaseOK
<1> DEFINE Same == /\ pc'[u] = pc[u] /\ endpoint'[u] = endpoint[u] /\ found'[u] = found[u]
                   /\ names'[u] = names[u] /\ todo'[u] = todo[u] /\ doc'[u] = doc[u]
<1>p. Phase(u)
  BY DEF PhaseOK
<1>s. setup' = setup
  BY HeapStep
<1>0. ASSUME Same PROVE Phase(u)'
  <2>1. doc[u] # NoDoc => heap'[doc[u]].from = heap[doc[u]].from
    <3>1. doc[u] # NoDoc => doc[u] \in 1..Len(heap)
      BY HeapStep DEF NoDoc
    <3> QED
      BY <3>1, HeapStep
  <2> QED
    BY <1>0, <1>p, <1>s, <2>1 DEF Phase, NoDoc
<1>1. ASSUME NEW t \in Thread, NEW e \in Endpoint, Register(t, e) PROVE Phase(u)'
  <2>1. CASE t # u
    BY <1>0, <1>1, <2>1 DEF Register, registering
  <2>2. CASE t = u
    BY <1>p, <1>s, <1>1, <2>2 DEF Register, Phase, registering
  <2> QED
    BY <2>1, <2>2
<1>2. ASSUME NEW t \in Thread, Answered(t) PROVE Phase(u)'
  <2>1. CASE t # u
    BY <1>0, <1>2, <2>1 DEF Answered, registering
  <2>2. CASE t = u
    BY <1>p, <1>s, <1>2, <2>2 DEF Answered, Phase, registering
  <2> QED
    BY <2>1, <2>2
<1>3. ASSUME NEW t \in Thread, Resolve(t) PROVE Phase(u)'
  <2>1. CASE t # u
    BY <1>0, <1>3, <2>1 DEF Resolve, registering
  <2>2. CASE t = u
    BY <1>p, <1>s, <1>3, <2>2 DEF Resolve, Phase, registering, Covered
  <2> QED
    BY <2>1, <2>2
<1>4. ASSUME NEW t \in Thread, BuildDoc(t) PROVE Phase(u)'
  <2>1. CASE t # u
    BY <1>0, <1>4, <2>1 DEF BuildDoc, registering
  <2>2. CASE t = u
    BY <1>p, <1>s, <1>4, <2>2 DEF BuildDoc, Phase, registering, Covered, NoDoc
  <2> QED
    BY <2>1, <2>2
<1>5. ASSUME NEW t \in Thread, NEW s \in Service, PutDoc(t, s) PROVE Phase(u)'
  <2>1. CASE t # u
    BY <1>0, <1>5, <2>1 DEF PutDoc, registering
  <2>2. CASE t = u
    BY <1>p, <1>s, <1>5, HeapStep, <2>2 DEF PutDoc, Phase, registering
  <2> QED
    BY <2>1, <2>2
<1>6. ASSUME NEW t \in Thread, ListNames(t) PROVE Phase(u)'
  <2>1. CASE t # u
    BY <1>0, <1>6, <2>1 DEF ListNames, registering
  <2>2. CASE t = u
    BY <1>p, <1>s, <1>6, <2>2 DEF ListNames, Phase, registering
  <2> QED
    BY <2>1, <2>2
<1>7. ASSUME NEW t \in Thread, NEW s \in Service, PutConfig(t, s) PROVE Phase(u)'
  <2>1. CASE t # u
    BY <1>0, <1>7, <2>1 DEF PutConfig, registering
  <2>2. CASE t = u
    BY <1>p, <1>s, <1>7, <2>2 DEF PutConfig, Phase, registering
  <2> QED
    BY <2>1, <2>2
<1>8. ASSUME NEW t \in Thread, NEW s \in Service, NEW h \in Host, GetDocument(t, s, h) PROVE Phase(u)'
  <2>1. CASE t # u
    BY <1>0, <1>8, <2>1 DEF GetDocument, registering
  <2>2. CASE t = u
    <3>1. Exists(docs, s) => docs[s].value # NoDoc
      BY HeapStep DEF Exists, IsStore, NoDoc
    <3>2. pc'[u] \in {"setHost", "render"} /\ u \in setup.readers
      BY <1>8, <2>2 DEF GetDocument
    <3>3. pc'[u] = "setHost" => doc'[u] # NoDoc
      BY <1>8, <2>2, <3>1 DEF GetDocument
    <3> QED
      BY <1>s, <3>2, <3>3 DEF Phase
  <2> QED
    BY <2>1, <2>2
<1>9. ASSUME NEW t \in Thread, SetHost(t) PROVE Phase(u)'
  <2>1. CASE t # u
    BY <1>0, <1>9, <2>1 DEF SetHost, registering
  <2>2. CASE t = u
    BY <1>p, <1>s, <1>9, <2>2 DEF SetHost, Phase, registering
  <2> QED
    BY <2>1, <2>2
<1>10. ASSUME NEW t \in Thread, NEW s \in Service, GetEndPoint(t, s) PROVE Phase(u)'
  <2>1. CASE t # u
    BY <1>0, <1>10, <2>1 DEF GetEndPoint, registering
  <2>2. CASE t = u
    BY <1>p, <1>s, <1>10, <2>2 DEF GetEndPoint, Phase, registering
  <2> QED
    BY <2>1, <2>2
<1>11. ASSUME Tick PROVE Phase(u)'
  BY <1>0, <1>11 DEF Tick, registering
<1> QED
  BY <1>1, <1>2, <1>3, <1>4, <1>5, <1>6, <1>7, <1>8, <1>9, <1>10, <1>11
  DEF Next, Registration, Reading, ResolveFails, BuildAborts, Registered, Render

\* With room for all services, the storages lose nothing while a registration puts.
LEMMA NothingLost ==
  ASSUME TypeOK, PhaseOK, Next, RoomForAll, ~Tick
  PROVE  /\ DOMAIN docs \subseteq DOMAIN docs' /\ Listed \subseteq Listed'
         /\ \A t \in Thread, s \in Service : PutDoc(t, s) => s \in DOMAIN docs'
         /\ \A t \in Thread, s \in Service : PutConfig(t, s) => s \in Listed'
<1> USE DEF TypeOK, Listed
<1>l. setup.limits \in Limits /\ IsFiniteSet(Service)
  BY SetupTyped, RegistryAssumption
<1>r. setup.limits.expire = 0 \/ setup.limits.max >= Cardinality(Service)
  BY DEF RoomForAll
<1>1. ASSUME NEW t \in Thread, NEW k \in Service, PutDoc(t, k)
      PROVE  configs' = configs /\ DOMAIN docs' = DOMAIN docs \cup {k}
  <2>2. docs' \in AfterPut(docs, k, doc[t], setup.limits) /\ configs' = configs
    BY <1>1 DEF PutDoc
  <2>3. DOMAIN docs \subseteq Service
    BY DEF IsStore
  <2>4. AfterPut(docs, k, doc[t], setup.limits) = {With(docs, k, doc[t])}
    BY ONLY <1>l, <1>r, <2>3, k \in Service, PutKeeps
  <2>5. DOMAIN docs' = DOMAIN docs \cup {k}
    BY <2>2, <2>4 DEF With
  <2> QED
    BY <2>2, <2>5
<1>2. ASSUME NEW t \in Thread, NEW k \in Service, PutConfig(t, k)
      PROVE  docs' = docs /\ DOMAIN configs' = DOMAIN configs \cup {k}
  <2>2. configs' \in AfterPut(configs, k, endpoint[t], setup.limits) /\ docs' = docs
    BY <1>2 DEF PutConfig
  <2>3. DOMAIN configs \subseteq Service
    BY DEF IsStore
  <2>4. AfterPut(configs, k, endpoint[t], setup.limits) = {With(configs, k, endpoint[t])}
    BY ONLY <1>l, <1>r, <2>3, k \in Service, PutKeeps
  <2>5. DOMAIN configs' = DOMAIN configs \cup {k}
    BY <2>2, <2>4 DEF With
  <2> QED
    BY <2>2, <2>5
<1>3. ASSUME NEW t \in Thread, NEW k \in Service, NEW h \in Host, GetDocument(t, k, h)
      PROVE  configs' = configs /\ DOMAIN docs' = DOMAIN docs
  BY <1>3, GetEffect DEF GetDocument
<1>4. ASSUME NEW t \in Thread, NEW k \in Service, GetEndPoint(t, k)
      PROVE  docs' = docs /\ DOMAIN configs' = DOMAIN configs
  BY <1>4, GetEffect DEF GetEndPoint
<1>5. \/ docs' = docs /\ configs' = configs
      \/ \E t \in Thread, k \in Service :
           \/ PutDoc(t, k) \/ PutConfig(t, k) \/ GetEndPoint(t, k)
           \/ \E h \in Host : GetDocument(t, k, h)
  BY DEF Next, Registration, Reading, Register, ResolveFails, Resolve, BuildDoc,
         BuildAborts, ListNames, Registered, SetHost, Render, stores
<1>6. DOMAIN docs \subseteq DOMAIN docs' /\ DOMAIN configs \subseteq DOMAIN configs'
  BY <1>1, <1>2, <1>3, <1>4, <1>5
<1> QED
  <2>1. \A t \in Thread, s \in Service : PutDoc(t, s) => s \in DOMAIN docs'
    BY ONLY <1>1
  <2>2. \A t \in Thread, s \in Service : PutConfig(t, s) => s \in DOMAIN configs'
    BY ONLY <1>2
  <2> QED
    BY <1>6, <2>1, <2>2

\* What one thread does to the phase of another: nothing.
LEMMA OtherThreads ==
  ASSUME TypeOK, Next, NEW u \in Thread
  PROVE  \/ /\ pc'[u] = pc[u] /\ endpoint'[u] = endpoint[u] /\ found'[u] = found[u]
            /\ names'[u] = names[u] /\ todo'[u] = todo[u] /\ doc'[u] = doc[u]
            /\ asked'[u] = asked[u]
         \/ Registration(u) \/ Reading(u)
<1> USE DEF TypeOK
<1>1. ASSUME Tick
      PROVE  /\ pc'[u] = pc[u] /\ endpoint'[u] = endpoint[u] /\ found'[u] = found[u]
             /\ names'[u] = names[u] /\ todo'[u] = todo[u] /\ doc'[u] = doc[u]
             /\ asked'[u] = asked[u]
  BY <1>1 DEF Tick, registering
<1>2. ASSUME NEW t \in Thread, t # u, Registration(t) \/ Reading(t)
      PROVE  /\ pc'[u] = pc[u] /\ endpoint'[u] = endpoint[u] /\ found'[u] = found[u]
             /\ names'[u] = names[u] /\ todo'[u] = todo[u] /\ doc'[u] = doc[u]
             /\ asked'[u] = asked[u]
  BY <1>2 DEF Registration, Reading, Register, ResolveFails, Resolve, BuildDoc,
    BuildAborts, PutDoc, ListNames, PutConfig, Registered, GetDocument, SetHost,
    GetEndPoint, Render, Answered, registering
<1> QED
  BY <1>1, <1>2 DEF Next

\* A registration's account of what it has put grows with its puts only.
LEMMA PutGrows ==
  ASSUME TypeOK, PhaseOK, Next, NEW u \in Thread
  PROVE  /\ \A s \in Put(u)' : s \in Put(u) \/ PutDoc(u, s)
         /\ Put(u)' # {} => endpoint'[u] = endpoint[u]
         /\ pc'[u] \in {"docs", "configs"} => ~Tick
<1> USE DEF TypeOK
<1>p. Phase(u)
  BY DEF PhaseOK
<1>1. CASE /\ pc'[u] = pc[u] /\ endpoint'[u] = endpoint[u] /\ found'[u] = found[u]
           /\ names'[u] = names[u] /\ todo'[u] = todo[u]
  BY <1>1 DEF Put, Tick
<1> DEFINE Goal == /\ \A s \in Put(u)' : s \in Put(u) \/ PutDoc(u, s)
                   /\ Put(u)' # {} => endpoint'[u] = endpoint[u]
                   /\ ~Tick
<1>2. CASE (\E e \in Endpoint : Register(u, e)) \/ Answered(u)
  BY <1>2 DEF Register, Answered, Put, Tick, registering
<1>3. CASE Resolve(u)
  <2>1. PICK ok : /\ found' = [found EXCEPT ![u] = ok]
                  /\ names' = [names EXCEPT ![u] = Covered(endpoint[u], ok) \ Blocked]
    BY <1>3 DEF Resolve
  <2> QED
    BY <1>3, <2>1 DEF Resolve, Put, Tick
<1>4. CASE BuildDoc(u)
  <2>1. PICK i \in found[u] : /\ found' = [found EXCEPT ![u] = @ \ {i}]
                              /\ todo' = [todo EXCEPT ![u] = Offers[endpoint[u]][i]]
    BY <1>4 DEF BuildDoc
  <2>2. Covered(endpoint[u], found[u]) = Covered(endpoint[u], found'[u]) \cup todo'[u]
    BY <2>1 DEF Covered
  <2>3. pc[u] = "docs" /\ pc' = pc /\ names' = names /\ endpoint' = endpoint /\ todo[u] = {}
    BY <1>4 DEF BuildDoc
  <2> QED
    BY <2>2, <2>3 DEF Put, Tick
<1>5. ASSUME NEW s \in Service, PutDoc(u, s) PROVE Goal
  BY <1>5 DEF PutDoc, Put, Tick
<1>6. CASE ListNames(u)
  <2>1. Covered(endpoint[u], found[u]) = {}
    BY <1>6 DEF ListNames, Covered
  <2> QED
    BY <1>6, <2>1 DEF ListNames, Put, Tick
<1>7. ASSUME NEW s \in Service, PutConfig(u, s) PROVE Goal
  BY <1>7 DEF PutConfig, Put, Tick
<1>8. CASE Reading(u)
  BY <1>8 DEF Reading, GetDocument, SetHost, Render, Answered, GetEndPoint, Put, Tick, registering
<1> QED
  BY <1>1, <1>2, <1>3, <1>4, <1>5, <1>6, <1>7, <1>8, OtherThreads
  DEF Registration, ResolveFails, BuildAborts, Registered

\* Nothing but putting it takes an endpoint off the list of those to put.
LEMMA EndpointsGrow ==
  ASSUME TypeOK, PhaseOK, Next, NEW u \in Thread, pc'[u] = "configs",
         NEW s \in names'[u] \ todo'[u]
  PROVE  PutConfig(u, s) \/ (pc[u] = "configs" /\ s \in names[u] \ todo[u])
<1> USE DEF TypeOK
<1>1. CASE ListNames(u)
  BY <1>1 DEF ListNames
<1>2. ASSUME NEW k \in Service, PutConfig(u, k)
      PROVE  pc[u] = "configs" /\ names' = names /\ todo'[u] = todo[u] \ {k}
  BY <1>2 DEF PutConfig
<1>3. CASE (\E e \in Endpoint : Register(u, e)) \/ Answered(u) \/ Resolve(u)
           \/ BuildDoc(u) \/ \E k \in Service : PutDoc(u, k)
  BY <1>3 DEF Register, Answered, Resolve, BuildDoc, PutDoc
<1>4. CASE Reading(u)
  BY <1>4 DEF Reading, GetDocument, SetHost, Render, Answered, GetEndPoint, registering
<1>5. CASE /\ pc'[u] = pc[u] /\ names'[u] = names[u] /\ todo'[u] = todo[u]
  BY ONLY <1>5, pc'[u] = "configs", s \in names'[u] \ todo'[u]
<1>6. CASE Registration(u)
  BY ONLY <1>1, <1>2, <1>3, <1>6, pc'[u] = "configs", s \in names'[u] \ todo'[u]
  DEF Registration, ResolveFails, BuildAborts, Registered
<1> HIDE DEF TypeOK
<1> QED
  BY <1>4, <1>5, <1>6, OtherThreads

LEMMA PutStep == ASSUME TypeOK, PhaseOK, PutOK, TypeOK', Next PROVE PutOK'
<1> SUFFICES ASSUME RoomForAll', NEW u \in Thread
             PROVE  /\ Put(u)' \subseteq DOMAIN docs'
                    /\ pc'[u] = "configs" => names'[u] \ todo'[u] \subseteq Listed'
  BY DEF PutOK
<1>1. RoomForAll
  BY HeapStep DEF RoomForAll
<1>2. CASE Tick
  BY <1>2, PutGrows DEF Put
<1>3. CASE ~Tick
  <2>1. Put(u) \subseteq DOMAIN docs /\ (pc[u] = "configs" => names[u] \ todo[u] \subseteq Listed)
    BY <1>1 DEF PutOK
  <2>2. Put(u)' \subseteq Service /\ names'[u] \subseteq Service
    BY DEF Put, TypeOK
  <2>3. ASSUME NEW s \in Put(u)' PROVE s \in DOMAIN docs'
    BY <1>1, <1>3, <2>1, <2>2, PutGrows, NothingLost
  <2>4. ASSUME pc'[u] = "configs", NEW s \in names'[u] \ todo'[u] PROVE s \in Listed'
    BY <1>1, <1>3, <2>1, <2>2, <2>4, EndpointsGrow, NothingLost
  <2> QED
    BY <2>3, <2>4
<1> QED
  BY <1>2, <1>3

LEMMA DocumentedStep ==
  ASSUME TypeOK, PhaseOK, PutOK, DocumentedWithoutExpiry, TypeOK', Next
  PROVE  DocumentedWithoutExpiry'
<1> SUFFICES ASSUME setup.limits.expire = 0, NEW s \in DOMAIN configs'
             PROVE  s \in DOMAIN docs'
  BY HeapStep DEF DocumentedWithoutExpiry, Documented, Listed
<1>1. RoomForAll /\ ~Tick
  BY DEF RoomForAll, Tick
<1>2. DOMAIN docs \subseteq DOMAIN docs'
  BY <1>1, NothingLost
<1>3. CASE s \in DOMAIN configs
  BY <1>2, <1>3 DEF DocumentedWithoutExpiry, Documented, Listed
<1>4. ASSUME NEW t \in Thread, PutConfig(t, s) PROVE s \in DOMAIN docs
  BY <1>1, <1>4 DEF PutConfig, PhaseOK, Phase, PutOK, Put
<1> QED
  BY <1>2, <1>3, <1>4, StoresStep

\* A registration that is not aborted puts the endpoints it has to put.
LEMMA UnderWayStays ==
  ASSUME TypeOK, PhaseOK, Next, ~setup.aborts, NEW u \in Thread, NEW s, UnderWay(u, s)
  PROVE  PutConfig(u, s) \/ UnderWay(u, s)'
<1> USE DEF TypeOK, UnderWay
<1>1. CASE ListNames(u)
  BY <1>1 DEF ListNames
<1>2. ASSUME NEW k \in Service, PutConfig(u, k)
      PROVE  pc' = pc /\ names' = names /\ todo'[u] = todo[u] \ {k}
  BY <1>2 DEF PutConfig
<1>3. CASE BuildDoc(u) \/ \E k \in Service : PutDoc(u, k)
  BY <1>3 DEF BuildDoc, PutDoc
<1>4. ~Registered(u) /\ ~BuildAborts(u) /\ ~ResolveFails(u) /\ ~Resolve(u)
      /\ \A e \in Endpoint : ~Register(u, e)
  BY DEF Registered, BuildAborts, ResolveFails, Resolve, Register
<1>5. ~Reading(u)
  BY DEF Reading, GetDocument, SetHost, Render, GetEndPoint
<1>6. CASE /\ pc'[u] = pc[u] /\ names'[u] = names[u] /\ todo'[u] = todo[u]
  BY ONLY <1>6, UnderWay(u, s)
<1>7. CASE Registration(u)
  BY ONLY <1>1, <1>2, <1>3, <1>4, <1>7, UnderWay(u, s) DEF Registration
<1> HIDE DEF TypeOK, UnderWay
<1> QED
  BY <1>5, <1>6, <1>7, OtherThreads

LEMMA OwnStep ==
  ASSUME TypeOK, PhaseOK, OwnOK, TypeOK', Next
  PROVE  OwnOK'
<1> SUFFICES ASSUME Sole(setup.registrars), NEW u \in Thread
             PROVE  /\ \A s \in DOMAIN docs' :
                         s \in Put(u)' => heap'[docs'[s].value].from = endpoint'[u]
                    /\ \A s \in DOMAIN configs' :
                         pc'[u] = "configs" /\ s \in names'[u] \ todo'[u] =>
                           configs'[s].value = endpoint'[u]
  BY HeapStep DEF OwnOK, Listed
<1>1. /\ \A s \in DOMAIN docs : s \in Put(u) => heap[docs[s].value].from = endpoint[u]
      /\ \A s \in DOMAIN configs :
           pc[u] = "configs" /\ s \in names[u] \ todo[u] => configs[s].value = endpoint[u]
  BY DEF OwnOK, Listed
<1>2. \A s \in DOMAIN docs : heap'[docs[s].value].from = heap[docs[s].value].from
  BY HeapStep DEF TypeOK, IsStore
<1>3. DOMAIN docs' \subseteq Service /\ DOMAIN configs' \subseteq Service
  BY DEF TypeOK, IsStore
<1>4. ASSUME NEW t \in Thread, NEW s, PutDoc(t, s)
      PROVE  heap'[doc[t]].from = endpoint[t] /\ t \in setup.registrars
  <2>1. doc[t] # NoDoc /\ heap[doc[t]].from = endpoint[t] /\ t \in setup.registrars
    BY <1>4 DEF PutDoc, PhaseOK, Phase
  <2>2. doc[t] \in 1..Len(heap)
    BY <2>1, HeapStep DEF TypeOK, NoDoc
  <2> QED
    BY <2>1, <2>2, HeapStep
<1>5. ASSUME NEW s \in DOMAIN docs', s \in Put(u)'
      PROVE  heap'[docs'[s].value].from = endpoint'[u]
  <2>1. endpoint'[u] = endpoint[u] /\ (s \in Put(u) \/ PutDoc(u, s))
    BY <1>5, PutGrows
  <2>2. CASE PutDoc(u, s)
    <3>1. s \in Service
      BY <1>3
    <3>2. docs'[s].value = doc[u]
      BY <2>2, <3>1, StoresStep
    <3> QED
      BY <1>4, <2>1, <2>2, <3>2
  <2>3. CASE s \in Put(u) /\ s \in DOMAIN docs /\ docs'[s].value = docs[s].value
    BY <1>1, <1>2, <2>1, <2>3
  <2>4. ASSUME s \in Put(u), NEW t \in Thread, PutDoc(t, s) PROVE t = u
    <3>1. u \in setup.registrars
      BY <2>4 DEF Put, PhaseOK, Phase
    <3> QED
      BY <1>4, <2>4, <3>1 DEF Sole
  <2> QED
    BY <2>1, <2>2, <2>3, <2>4, StoresStep
<1>6. ASSUME NEW s \in DOMAIN configs', pc'[u] = "configs", s \in names'[u] \ todo'[u]
      PROVE  configs'[s].value = endpoint'[u]
  <2>1. PutConfig(u, s) \/ (pc[u] = "configs" /\ s \in names[u] \ todo[u])
    BY <1>6, EndpointsGrow
  <2>2. endpoint'[u] = endpoint[u]
    BY <1>6, PutGrows DEF Put
  <2>3. ASSUME NEW t \in Thread, PutConfig(t, s)
        PROVE  configs'[s].value = endpoint[t] /\ t \in setup.registrars
    <3>1. s \in Service
      BY <1>3
    <3> QED
      BY <2>3, <3>1, StoresStep DEF PutConfig, PhaseOK, Phase
  <2>4. CASE PutConfig(u, s)
    BY <2>2, <2>3, <2>4
  <2>5. ASSUME pc[u] = "configs", NEW t \in Thread, PutConfig(t, s) PROVE t = u
    BY <2>3, <2>5 DEF PhaseOK, Phase, Sole
  <2>6. CASE s \in DOMAIN configs /\ configs'[s].value = configs[s].value
    BY <1>1, <2>1, <2>2, <2>4, <2>6
  <2> QED
    BY <2>1, <2>4, <2>5, <2>6, StoresStep
<1> QED
  BY <1>5, <1>6

LEMMA MatchStep ==
  ASSUME TypeOK, PhaseOK, OwnOK, MatchOK, TypeOK', Next
  PROVE  MatchOK'
<1> SUFFICES ASSUME ~setup.aborts, Sole(setup.registrars),
                    NEW s \in DOMAIN docs' \cap DOMAIN configs'
             PROVE  Match(s)' \/ \E u \in Thread : UnderWay(u, s)'
  BY HeapStep DEF MatchOK, Listed
<1>1. /\ \A u \in Thread : s \in DOMAIN docs /\ s \in Put(u) =>
           heap[docs[s].value].from = endpoint[u]
      /\ s \in DOMAIN docs \cap DOMAIN configs =>
           Match(s) \/ \E u \in Thread : UnderWay(u, s)
  BY DEF OwnOK, MatchOK, Listed
<1>2. s \in DOMAIN docs => heap'[docs[s].value].from = heap[docs[s].value].from
  BY HeapStep DEF TypeOK, IsStore
<1>3. s \in Service
  BY DEF TypeOK, IsStore
<1>4. ASSUME NEW t \in Thread, PutConfig(t, s), configs'[s].value = endpoint[t]
      PROVE  Match(s)'
  <2>1. docs' = docs /\ s \in Put(t)
    BY <1>4 DEF PutConfig, Put, PhaseOK, Phase
  <2> QED
    BY <1>1, <1>2, <1>4, <2>1 DEF Match
<1>5. ASSUME NEW t \in Thread, PutDoc(t, s) PROVE UnderWay(t, s)'
  <2>1. s \notin Blocked
    BY DEF TypeOK, IsStore
  <2> QED
    BY <1>5, <2>1 DEF PutDoc, PhaseOK, Phase, UnderWay
<1>6. CASE /\ s \in DOMAIN docs /\ docs'[s].value = docs[s].value
           /\ s \in DOMAIN configs /\ configs'[s].value = configs[s].value
           /\ \A t \in Thread : ~PutConfig(t, s)
  BY <1>1, <1>2, <1>6, UnderWayStays DEF Match
<1>7. ASSUME NEW t \in Thread, PutConfig(t, s) PROVE configs'[s].value = endpoint[t]
  BY <1>3, <1>7, StoresStep
<1> QED
  BY <1>4, <1>5, <1>6, <1>7, StoresStep

LEMMA FreshStep == ASSUME TypeOK, FreshOK, PhaseOK, TypeOK', Next PROVE FreshOK'
<1> USE DEF TypeOK, Listed
<1> SUFFICES ASSUME setup.limits.expire > 0
             PROVE  /\ \A s \in DOMAIN docs' :
                         since'[s] <= docs'[s].idle /\ docs'[s].idle < setup.limits.expire
                    /\ \A s \in DOMAIN configs' :
                         since'[s] <= configs'[s].idle /\ configs'[s].idle < setup.limits.expire
  BY HeapStep DEF FreshOK
<1> DEFINE limit == setup.limits.expire
<1>0. /\ \A s \in DOMAIN docs : since[s] <= docs[s].idle /\ docs[s].idle < limit
      /\ \A s \in DOMAIN configs : since[s] <= configs[s].idle /\ configs[s].idle < limit
  BY DEF FreshOK
<1>t. /\ limit \in Nat /\ limit > 0
      /\ since \in [Service -> Nat] /\ since' \in [Service -> Nat]
      /\ \A s \in DOMAIN docs : s \in Service /\ docs[s].idle \in Nat
      /\ \A s \in DOMAIN configs : s \in Service /\ configs[s].idle \in Nat
  BY SetupTyped DEF IsStore
<1>1. ASSUME NEW t \in Thread, NEW k \in Service, PutDoc(t, k)
      PROVE  /\ since' = [since EXCEPT ![k] = 0] /\ configs' = configs
             /\ docs'[k].idle = 0 /\ DOMAIN docs' \subseteq DOMAIN docs \cup {k}
             /\ \A s \in DOMAIN docs' \ {k} : docs'[s].idle = docs[s].idle
  <2>1. doc[t] \in 1..Len(heap)
    BY <1>1, HeapStep DEF PutDoc, PhaseOK, Phase, NoDoc
  <2>2. IsStore(docs, Service, 1..Len(heap)) /\ docs' \in AfterPut(docs, k, doc[t], setup.limits)
    BY <1>1 DEF PutDoc
  <2>3. /\ IsStore(docs', Service, 1..Len(heap))
        /\ k \in DOMAIN docs' /\ docs'[k] = [value |-> doc[t], idle |-> 0]
        /\ DOMAIN docs' \subseteq DOMAIN docs \cup {k}
        /\ \A s \in DOMAIN docs' \ {k} : docs'[s] = docs[s]
    BY ONLY <2>1, <2>2, k \in Service, PutEffect
  <2> QED
    BY <1>1, <2>3 DEF PutDoc, Accessed
<1>2. ASSUME NEW t \in Thread, NEW k \in Service, PutConfig(t, k)
      PROVE  /\ since' = [since EXCEPT ![k] = 0] /\ docs' = docs
             /\ configs'[k].idle = 0 /\ DOMAIN configs' \subseteq DOMAIN configs \cup {k}
             /\ \A s \in DOMAIN configs' \ {k} : configs'[s].idle = configs[s].idle
  <2>1. k \in Service \ Blocked /\ endpoint[t] \in Endpoint
    BY <1>2 DEF PutConfig, PhaseOK, Phase
  <2>2. /\ IsStore(configs, Service \ Blocked, Endpoint)
        /\ configs' \in AfterPut(configs, k, endpoint[t], setup.limits)
    BY <1>2 DEF PutConfig
  <2>3. /\ IsStore(configs', Service \ Blocked, Endpoint)
        /\ k \in DOMAIN configs' /\ configs'[k] = [value |-> endpoint[t], idle |-> 0]
        /\ DOMAIN configs' \subseteq DOMAIN configs \cup {k}
        /\ \A s \in DOMAIN configs' \ {k} : configs'[s] = configs[s]
    BY ONLY <2>1, <2>2, PutEffect
  <2> QED
    BY <1>2, <2>3 DEF PutConfig, Accessed
<1>3. ASSUME NEW t \in Thread, NEW k \in Service, NEW h \in Host, GetDocument(t, k, h)
      PROVE  /\ configs' = configs
             /\ \/ docs' = docs /\ since' = since
                \/ /\ since' = [since EXCEPT ![k] = 0] /\ DOMAIN docs' = DOMAIN docs
                   /\ \A s \in DOMAIN docs :
                        docs'[s].idle = IF s = k THEN 0 ELSE docs[s].idle
  BY <1>3, GetEffect DEF GetDocument, Accessed
<1>4. ASSUME NEW t \in Thread, NEW k \in Service, GetEndPoint(t, k)
      PROVE  /\ docs' = docs /\ since' = [since EXCEPT ![k] = 0]
             /\ DOMAIN configs' = DOMAIN configs
             /\ \A s \in DOMAIN configs :
                  configs'[s].idle = IF s = k THEN 0 ELSE configs[s].idle
  BY <1>4, GetEffect DEF GetEndPoint, Accessed
<1>5. ASSUME Tick
      PROVE  /\ \A s \in Service : since'[s] <= since[s] + 1
             /\ DOMAIN docs' \subseteq DOMAIN docs /\ DOMAIN configs' \subseteq DOMAIN configs
             /\ \A s \in DOMAIN docs' :
                  docs'[s].idle = docs[s].idle + 1 /\ docs[s].idle + 1 < limit
             /\ \A s \in DOMAIN configs' :
                  configs'[s].idle = configs[s].idle + 1 /\ configs[s].idle + 1 < limit
  <2>1. \A s \in Service : since'[s] <= since[s] + 1
    BY <1>5, <1>t DEF Tick
  <2>2. /\ docs' = AfterTick(docs, setup.limits) /\ configs' = AfterTick(configs, setup.limits)
    BY <1>5 DEF Tick
  <2> QED
    BY <2>1, <2>2, TickEffect, SetupTyped
<1>6. \/ docs' = docs /\ configs' = configs /\ since' = since
      \/ Tick
      \/ \E t \in Thread, k \in Service :
           \/ PutDoc(t, k) \/ PutConfig(t, k) \/ GetEndPoint(t, k)
           \/ \E h \in Host : GetDocument(t, k, h)
  BY DEF Next, Registration, Reading, Register, ResolveFails, Resolve, BuildDoc,
         BuildAborts, ListNames, Registered, SetHost, Render, stores
<1> DEFINE Fresh == /\ \A s \in DOMAIN docs' :
                         since'[s] <= docs'[s].idle /\ docs'[s].idle < limit
                    /\ \A s \in DOMAIN configs' :
                         since'[s] <= configs'[s].idle /\ configs'[s].idle < limit
<1> HIDE DEF TypeOK, limit
<1>a. ASSUME NEW t \in Thread, NEW k \in Service, PutDoc(t, k) PROVE Fresh
  BY <1>0, <1>t, <1>1, <1>a
<1>b. ASSUME NEW t \in Thread, NEW k \in Service, PutConfig(t, k) PROVE Fresh
  BY <1>0, <1>t, <1>2, <1>b
<1>c. ASSUME NEW t \in Thread, NEW k \in Service, NEW h \in Host, GetDocument(t, k, h)
      PROVE  Fresh
  BY <1>0, <1>t, <1>3, <1>c
<1>d. ASSUME NEW t \in Thread, NEW k \in Service, GetEndPoint(t, k) PROVE Fresh
  BY <1>0, <1>t, <1>4, <1>d
<1>e. ASSUME Tick PROVE Fresh
  BY <1>0, <1>t, <1>5, <1>e
<1>f. ASSUME docs' = docs, configs' = configs, since' = since PROVE Fresh
  BY <1>0, <1>f
<1> QED
  BY <1>6, <1>a, <1>b, <1>c, <1>d, <1>e, <1>f DEF limit

-----------------------------------------------------------------------------
(***************************************************************************)
(* The invariant and what follows from it.                                 *)
(***************************************************************************)

LEMMA InvariantHolds == Spec => [](TypeOK /\ Invariant)
<1>1. Init => TypeOK
  BY AnEndpointTyped, RegistryAssumption
  DEF Init, TypeOK, NewStorage, IsStore, SetupType, Limits, NoDoc
<1>2. Init => Invariant
  BY DEF Init, Invariant, PhaseOK, Phase, PutOK, Put, DocumentedWithoutExpiry, Documented,
         Listed, OwnOK, MatchOK, FreshOK, NewStorage
<1>3. TypeOK /\ Invariant /\ Next => TypeOK' /\ Invariant'
  BY TypingStep, PhaseStep, PutStep, DocumentedStep, OwnStep, MatchStep, FreshStep
  DEF Invariant
<1>4. TypeOK /\ Invariant /\ UNCHANGED vars => TypeOK' /\ Invariant'
  BY DEF vars, stores, registering, TypeOK, Invariant, PhaseOK, Phase, PutOK, Put, RoomForAll,
         DocumentedWithoutExpiry, Documented, Listed, OwnOK, MatchOK, Match, UnderWay, FreshOK
<1> QED
  BY <1>1, <1>2, <1>3, <1>4, PTL DEF Spec

\* The types of all variables, those of the storages' entries included.
THEOREM Typing == Spec => []TypeOK
  BY InvariantHolds, PTL

\* Whatever aborts and whoever else registers, a service of /listServices has a
\* document where nothing expires.
THEOREM ListedIsDocumented == Spec => []DocumentedWithoutExpiry
<1>1. Invariant => DocumentedWithoutExpiry
  BY DEF Invariant
<1> QED
  BY <1>1, InvariantHolds, PTL

\* One registration at a time, each carried through, leaves no service with the
\* document of one server and the endpoint of another.
THEOREM DocumentsMatch == Spec => []DocMatchesEndpoint
<1>1. TypeOK /\ Invariant => DocMatchesEndpoint
  BY SetupTyped DEF Invariant, MatchOK, DocMatchesEndpoint, UnderWay, Registering, PhaseOK, Phase
<1> QED
  BY <1>1, InvariantHolds, PTL

\* A service nobody has accessed for the time of expiry is in neither storage.
THEOREM IdleIsForgotten == Spec => []ForgetsIdle
<1>1. TypeOK /\ Invariant => ForgetsIdle
  BY SetupTyped DEF Invariant, FreshOK, ForgetsIdle, TypeOK, IsStore, Listed
<1> QED
  BY <1>1, InvariantHolds, PTL

\* What /register reports can be called and has a document.
THEOREM ReportedIsServed == Spec => RegisteredIsServed
<1>1. ASSUME TypeOK, Invariant, NEW t \in Thread, Registered(t), RoomForAll
      PROVE  names[t] \subseteq DOMAIN docs \cap Listed
  BY <1>1 DEF Registered, Invariant, PutOK, Put
<1>2. TypeOK /\ Invariant =>
        [\A t \in Thread :
           Registered(t) /\ RoomForAll => names[t] \subseteq DOMAIN docs \cap Listed]_vars
  BY <1>1
<1> QED
  BY <1>2, InvariantHolds, PTL DEF RegisteredIsServed

\* With one registration at a time, what /register reports is of the server registered
\* in both storages, over whatever an aborted registration has left in one of them.
THEOREM ReportedIsOwn == Spec => RegisteredIsOwn
<1>1. ASSUME TypeOK, Invariant, NEW t \in Thread, Registered(t), Sole(setup.registrars),
             NEW s \in names[t]
      PROVE  /\ s \in DOMAIN docs => heap[docs[s].value].from = endpoint[t]
             /\ s \in Listed => configs[s].value = endpoint[t]
  BY <1>1 DEF Registered, Invariant, OwnOK, Put
<1>2. TypeOK /\ Invariant =>
        [\A t \in Thread :
           Registered(t) /\ Sole(setup.registrars) =>
             \A s \in names[t] :
               /\ s \in DOMAIN docs => heap[docs[s].value].from = endpoint[t]
               /\ s \in Listed => configs[s].value = endpoint[t]]_vars
  BY <1>1
<1> QED
  BY <1>2, InvariantHolds, PTL DEF RegisteredIsOwn

-----------------------------------------------------------------------------
(***************************************************************************)
(* The two storages implement RegistryPromise.                             *)
(***************************************************************************)
LEMMA OffersStep == ASSUME TypeOK, PhaseOK, OffersOK, Next PROVE OffersOK'
<1> USE DEF TypeOK
<1> SUFFICES ASSUME NEW u \in Thread, pc'[u] \in {"docs", "configs"}
             PROVE  names'[u] \cup todo'[u] \subseteq Offered(endpoint'[u])
  BY DEF OffersOK, Offered, Covered
<1>1. pc[u] \in {"docs", "configs"} => names[u] \cup todo[u] \subseteq Offered(endpoint[u])
  BY DEF OffersOK
<1>2. CASE Resolve(u)
  <2>1. PICK ok \in SUBSET DOMAIN Offers[endpoint[u]] :
          names' = [names EXCEPT ![u] = Covered(endpoint[u], ok) \ Blocked]
    BY <1>2 DEF Resolve
  <2>2. Covered(endpoint[u], ok) \subseteq Offered(endpoint[u])
    BY DEF Covered, Offered
  <2>3. todo'[u] = {} /\ endpoint' = endpoint
    BY <1>2 DEF Resolve, PhaseOK, Phase
  <2> QED
    BY <2>1, <2>2, <2>3
<1>3. CASE BuildDoc(u)
  <2>1. PICK i \in found[u] : todo' = [todo EXCEPT ![u] = Offers[endpoint[u]][i]]
    BY <1>3 DEF BuildDoc
  <2>2. i \in DOMAIN Offers[endpoint[u]] /\ pc[u] = "docs"
    BY <1>3 DEF BuildDoc, PhaseOK, Phase
  <2>3. Offers[endpoint[u]][i] \subseteq Offered(endpoint[u])
    BY <2>2 DEF Covered, Offered
  <2>4. names' = names /\ endpoint' = endpoint
    BY <1>3 DEF BuildDoc
  <2> QED
    BY <1>1, <2>1, <2>2, <2>3, <2>4
<1>4. CASE ListNames(u)
  BY <1>1, <1>4 DEF ListNames
<1>5. ASSUME NEW s \in Service, PutDoc(u, s) \/ PutConfig(u, s)
      PROVE  names'[u] \cup todo'[u] \subseteq Offered(endpoint'[u])
  BY <1>1, <1>5 DEF PutDoc, PutConfig
<1>6. ASSUME (\E e \in Endpoint : Register(u, e)) \/ Answered(u) PROVE FALSE
  BY <1>6 DEF Register, Answered
<1>7. ASSUME Reading(u), ~Answered(u) PROVE FALSE
  BY <1>7 DEF Reading, GetDocument, GetEndPoint, SetHost, Render
<1>8. CASE /\ pc'[u] = pc[u] /\ names'[u] = names[u] /\ todo'[u] = todo[u]
           /\ endpoint'[u] = endpoint[u]
  BY ONLY <1>1, <1>8, pc'[u] \in {"docs", "configs"}
<1> HIDE DEF TypeOK
<1> QED
  BY <1>2, <1>3, <1>4, <1>5, <1>6, <1>7, <1>8, OtherThreads
  DEF Registration, ResolveFails, BuildAborts, Registered

LEMMA OffersHold == Spec => []OffersOK
<1>1. Init => OffersOK
  BY DEF Init, OffersOK
<1>2. TypeOK /\ Invariant /\ OffersOK /\ [Next]_vars => OffersOK'
  <2>1. TypeOK /\ Invariant /\ OffersOK /\ Next => OffersOK'
    BY OffersStep DEF Invariant
  <2>2. OffersOK /\ UNCHANGED vars => OffersOK'
    BY DEF vars, registering, OffersOK, Offered, Covered
  <2> QED
    BY <2>1, <2>2
<1> QED
  BY <1>1, <1>2, InvariantHolds, PTL DEF Spec

\* What a step makes of the two storages.
LEMMA StoresSteps ==
  ASSUME TypeOK, PhaseOK, Next
  PROVE  \/ docs' = docs /\ configs' = configs
         \/ /\ setup.limits.expire > 0
            /\ DOMAIN docs' \subseteq DOMAIN docs /\ DOMAIN configs' \subseteq DOMAIN configs
            /\ \A s \in DOMAIN docs' : docs'[s].value = docs[s].value
            /\ \A s \in DOMAIN configs' : configs'[s].value = configs[s].value
         \/ /\ DOMAIN docs' = DOMAIN docs /\ DOMAIN configs' = DOMAIN configs
            /\ \A s \in DOMAIN docs' : docs'[s].value = docs[s].value
            /\ \A s \in DOMAIN configs' : configs'[s].value = configs[s].value
         \/ \E t \in Thread, s \in Service : PutDoc(t, s) \/ PutConfig(t, s)
<1> USE DEF TypeOK
<1>1. CASE Tick
  BY <1>1, TickEffect, SetupTyped DEF Tick
<1>2. ASSUME NEW t \in Thread, NEW k \in Service, NEW h \in Host, GetDocument(t, k, h)
      PROVE  /\ DOMAIN docs' = DOMAIN docs /\ configs' = configs
             /\ \A s \in DOMAIN docs' : docs'[s].value = docs[s].value
  BY <1>2, GetEffect DEF GetDocument
<1>3. ASSUME NEW t \in Thread, NEW k \in Service, GetEndPoint(t, k)
      PROVE  /\ DOMAIN configs' = DOMAIN configs /\ docs' = docs
             /\ \A s \in DOMAIN configs' : configs'[s].value = configs[s].value
  BY <1>3, GetEffect DEF GetEndPoint
<1>4. \/ docs' = docs /\ configs' = configs
      \/ Tick
      \/ \E t \in Thread, k \in Service :
           \/ PutDoc(t, k) \/ PutConfig(t, k) \/ GetEndPoint(t, k)
           \/ \E h \in Host : GetDocument(t, k, h)
  BY DEF Next, Registration, Reading, Register, ResolveFails, Resolve, BuildDoc,
         BuildAborts, ListNames, Registered, SetHost, Render, stores
<1> QED
  BY <1>1, <1>2, <1>3, <1>4

\* A storage's entries after a put, as RegistryPromise has them.
LEMMA PutEnters ==
  ASSUME NEW old, NEW new, NEW s, NEW e, s \in DOMAIN new,
         new = [x \in DOMAIN new |-> new[x]], new[s] = e,
         DOMAIN new \subseteq DOMAIN old \cup {s},
         \A x \in DOMAIN new \ {s} : new[x] = old[x],
         setup.limits.expire = 0 => DOMAIN old \subseteq DOMAIN new
  PROVE  Promise!Entered(new, old, s, e)
<1> DEFINE kept == DOMAIN new \cap DOMAIN old
<1>1. kept \in SUBSET DOMAIN old /\ (setup.limits.expire = 0 => kept = DOMAIN old)
  OBVIOUS
<1>2. kept \cup {s} = DOMAIN new
  OBVIOUS
<1>3. \A x \in DOMAIN new : new[x] = IF x = s THEN e ELSE old[x]
  OBVIOUS
<1>4. new = [x \in kept \cup {s} |-> IF x = s THEN e ELSE old[x]]
  BY <1>2, <1>3
<1> HIDE DEF kept
<1> QED
  BY <1>1, <1>4 DEF Promise!Entered

\* The two maps of RegistryPromise, as the mapping has them.
Documents == [s \in DOMAIN docs |-> heap[docs[s].value].from]
Routes == [s \in Listed |-> configs[s].value]

LEMMA MapsStep ==
  ASSUME TypeOK, PhaseOK, Next, TypeOK'
  PROVE  /\ setup' = setup
         /\ \A s \in DOMAIN docs : heap'[docs[s].value].from = heap[docs[s].value].from
         /\ docs' = docs => Documents' = Documents
         /\ configs' = configs => Routes' = Routes
<1>1. /\ setup' = setup
      /\ \A s \in DOMAIN docs : heap'[docs[s].value].from = heap[docs[s].value].from
  BY HeapStep DEF TypeOK, IsStore
<1> QED
  BY <1>1 DEF Documents, Routes, Listed

LEMMA PutDocumentStep ==
  ASSUME TypeOK, Invariant, OffersOK, TypeOK', Next,
         NEW t \in Thread, NEW s \in Service, PutDoc(t, s)
  PROVE  Promise!PutDocument(s, endpoint[t])
<1> DEFINE e == endpoint[t]
<1>0. PhaseOK
  BY DEF Invariant
<1>1. /\ setup' = setup /\ configs' = configs /\ endpoint' = endpoint /\ e \in Endpoint
      /\ Routes' = Routes
  BY <1>0, MapsStep DEF PutDoc, TypeOK
<1>2. s \in [x \in Endpoint |-> Offered(x)][e]
  BY <1>1 DEF PutDoc, OffersOK
<1>3. /\ doc[t] \in 1..Len(heap) /\ heap[doc[t]].from = e /\ heap' = heap
  BY <1>0, HeapStep DEF PutDoc, PhaseOK, Phase, NoDoc, TypeOK
<1>4. /\ s \in DOMAIN docs' /\ docs'[s].value = doc[t]
      /\ DOMAIN docs' \subseteq DOMAIN docs \cup {s}
      /\ \A x \in DOMAIN docs' \ {s} : docs'[x] = docs[x]
  <2>1. IsStore(docs, Service, 1..Len(heap)) /\ docs' \in AfterPut(docs, s, doc[t], setup.limits)
    BY DEF PutDoc, TypeOK
  <2>2. /\ s \in DOMAIN docs' /\ docs'[s] = [value |-> doc[t], idle |-> 0]
        /\ DOMAIN docs' \subseteq DOMAIN docs \cup {s}
        /\ \A x \in DOMAIN docs' \ {s} : docs'[x] = docs[x]
    BY ONLY <1>3, <2>1, s \in Service, PutEffect
  <2> QED
    BY <2>2
<1>5. setup.limits.expire = 0 => DOMAIN docs \subseteq DOMAIN docs'
  BY <1>0, NothingLost DEF RoomForAll, Tick
<1>6. Documents'[s] = e /\ DOMAIN Documents' = DOMAIN docs'
  BY <1>3, <1>4 DEF Documents
<1>7. \A x \in DOMAIN docs' \ {s} : Documents'[x] = Documents[x]
  BY <1>3, <1>4 DEF Documents
<1>8. Documents' = [x \in DOMAIN Documents' |-> Documents'[x]] /\ DOMAIN Documents = DOMAIN docs
  BY DEF Documents
<1>9. Promise!Entered(Documents', Documents, s, e)
  BY ONLY <1>4, <1>5, <1>6, <1>7, <1>8, PutEnters
<1> QED
  BY <1>1, <1>2, <1>9 DEF Promise!PutDocument, Documents, Routes

LEMMA PutRouteStep ==
  ASSUME TypeOK, Invariant, OffersOK, TypeOK', Next,
         NEW t \in Thread, NEW s \in Service, PutConfig(t, s)
  PROVE  Promise!PutRoute(s, endpoint[t])
<1> DEFINE e == endpoint[t]
<1>0. PhaseOK /\ DocumentedWithoutExpiry /\ DocumentedWithoutExpiry' /\ OwnOK
  BY DocumentedStep DEF Invariant
<1>1. /\ setup' = setup /\ docs' = docs /\ endpoint' = endpoint /\ e \in Endpoint
      /\ Documents' = Documents
  BY <1>0, MapsStep DEF PutConfig, TypeOK
<1>2. s \in [x \in Endpoint |-> Offered(x)][e] /\ s \notin Blocked
  <2>1. s \in names[t] /\ s \in Offered(e)
    BY <1>0 DEF PutConfig, OffersOK, PhaseOK, Phase
  <2> QED
    BY <1>1, <2>1 DEF TypeOK
<1>3. /\ s \in DOMAIN configs' /\ configs'[s].value = e
      /\ DOMAIN configs' \subseteq DOMAIN configs \cup {s}
      /\ \A x \in DOMAIN configs' \ {s} : configs'[x] = configs[x]
  <2>1. /\ IsStore(configs, Service \ Blocked, Endpoint)
        /\ configs' \in AfterPut(configs, s, e, setup.limits)
    BY DEF PutConfig, TypeOK
  <2>2. s \in Service \ Blocked /\ e \in Endpoint
    BY <1>1, <1>2
  <2> HIDE DEF e
  <2>3. /\ s \in DOMAIN configs' /\ configs'[s] = [value |-> e, idle |-> 0]
        /\ DOMAIN configs' \subseteq DOMAIN configs \cup {s}
        /\ \A x \in DOMAIN configs' \ {s} : configs'[x] = configs[x]
    BY ONLY <2>1, <2>2, PutEffect
  <2> QED
    BY <2>3
<1>4. setup.limits.expire = 0 => DOMAIN configs \subseteq DOMAIN configs' /\ s \in DOMAIN docs
  BY <1>0, <1>1, <1>3, NothingLost
  DEF RoomForAll, Tick, Listed, DocumentedWithoutExpiry, Documented
<1>5. Sole(setup.registrars) /\ s \in DOMAIN docs => Documents[s] = e
  <2>1. s \in Put(t)
    BY <1>0 DEF PutConfig, Put, PhaseOK, Phase
  <2> QED
    BY <1>0, <2>1 DEF OwnOK, Documents
<1>6. /\ Routes'[s] = e /\ DOMAIN Routes' = DOMAIN configs' /\ DOMAIN Routes = DOMAIN configs
      /\ \A x \in DOMAIN configs' \ {s} : Routes'[x] = Routes[x]
      /\ Routes' = [x \in DOMAIN Routes' |-> Routes'[x]]
  BY <1>3 DEF Routes, Listed
<1>7. Promise!Entered(Routes', Routes, s, e)
  BY ONLY <1>3, <1>4, <1>6, PutEnters
<1> QED
  BY <1>1, <1>2, <1>4, <1>5, <1>7 DEF Promise!PutRoute, Documents, Routes

LEMMA StepIsPromised ==
  ASSUME TypeOK, Invariant, OffersOK, TypeOK', [Next]_vars
  PROVE  [Promise!Next]_(Promise!vars)
<1>0. PhaseOK
  BY DEF Invariant
<1>1. CASE UNCHANGED vars
  BY <1>1 DEF vars, stores, Promise!vars, Listed
<1>2. ASSUME Next, NEW t \in Thread, NEW s \in Service, PutDoc(t, s) \/ PutConfig(t, s)
      PROVE  Promise!Next
  <2>1. endpoint[t] \in Endpoint
    BY DEF TypeOK
  <2>2. PutDoc(t, s) => Promise!PutDocument(s, endpoint[t])
    BY <1>2, PutDocumentStep
  <2>3. PutConfig(t, s) => Promise!PutRoute(s, endpoint[t])
    BY <1>2, PutRouteStep
  <2> QED
    BY ONLY <1>2, <2>1, <2>2, <2>3, s \in Service
    DEF Promise!Next, Promise!PutDocument, Promise!PutRoute, Promise!Entered
<1>3. ASSUME Next, docs' = docs, configs' = configs PROVE UNCHANGED Promise!vars
  BY <1>0, <1>3, MapsStep DEF Promise!vars, Documents, Routes, Listed
<1>4. ASSUME Next, DOMAIN docs' = DOMAIN docs, DOMAIN configs' = DOMAIN configs,
             \A s \in DOMAIN docs' : docs'[s].value = docs[s].value,
             \A s \in DOMAIN configs' : configs'[s].value = configs[s].value
      PROVE  UNCHANGED Promise!vars
  <2>1. setup' = setup
    BY <1>0, <1>4, MapsStep
  <2>2. Documents' = Documents
    BY <1>0, <1>4, MapsStep DEF Documents
  <2>3. Routes' = Routes
    BY <1>4 DEF Routes, Listed
  <2> QED
    BY <2>1, <2>2, <2>3 DEF Promise!vars, Documents, Routes
<1>5. ASSUME Next, setup.limits.expire > 0,
             DOMAIN docs' \subseteq DOMAIN docs, DOMAIN configs' \subseteq DOMAIN configs,
             \A s \in DOMAIN docs' : docs'[s].value = docs[s].value,
             \A s \in DOMAIN configs' : configs'[s].value = configs[s].value
      PROVE  Promise!Forget
  <2>1. setup' = setup /\ setup.limits.expire # 0
    BY <1>0, <1>5, MapsStep, SetupTyped
  <2>2. /\ DOMAIN docs' \in SUBSET DOMAIN Documents
        /\ Documents' = [s \in DOMAIN docs' |-> Documents[s]]
    BY <1>0, <1>5, MapsStep DEF Documents
  <2>3. /\ DOMAIN configs' \in SUBSET DOMAIN Routes
        /\ Routes' = [s \in DOMAIN configs' |-> Routes[s]]
    BY <1>5 DEF Routes, Listed
  <2>4. \E S \in SUBSET DOMAIN Documents : Documents' = [s \in S |-> Documents[s]]
    BY ONLY <2>2
  <2>5. \E S \in SUBSET DOMAIN Routes : Routes' = [s \in S |-> Routes[s]]
    BY ONLY <2>3
  <2> QED
    BY <2>1, <2>4, <2>5 DEF Promise!Forget, Documents, Routes
<1> QED
  BY <1>0, <1>1, <1>2, <1>3, <1>4, <1>5, StoresSteps DEF Promise!Next

\* The registry implements RegistryPromise, for any installation and any number of
\* services, servers and threads: documents and endpoints are only ever of servers
\* that offer the service, and go in in the order that keeps listed services documented.
THEOREM RegistryKeepsPromise == Spec => KeepsPromise
<1>1. Init => Promise!Init
  BY DEF Init, NewStorage, Listed, Promise!Init
<1>2. TypeOK /\ Invariant /\ OffersOK /\ TypeOK' /\ [Next]_vars =>
        [Promise!Next]_(Promise!vars)
  BY StepIsPromised
<1> QED
  BY <1>1, <1>2, InvariantHolds, OffersHold, PTL DEF Spec, KeepsPromise, Promise!Spec
=============================================================================
