------------------------- MODULE ComponentStore_proofs -------------------------
(***************************************************************************)
(* Proofs about the store, for every number of agents and generators.      *)
(*                                                                         *)
(* The lemmas say what one operation does to one list; the first theorems  *)
(* are about Spec, every use of the store, and the last ones about         *)
(* ManagedSpec, the use the orchestrator makes of it.                      *)
(***************************************************************************)
EXTENDS ComponentStore, FiniteSetTheorems, SequenceTheorems, WellFoundedInduction, TLAPS

-----------------------------------------------------------------------------
(* Lists.                                                                  *)

\* A non-empty set of natural numbers has a least element, and Min is it.  The
\* intervals 1..i are ordered by inclusion as the numbers i are by size.
LEMMA MinIsLeast ==
  ASSUME NEW I \in SUBSET Nat, I # {}
  PROVE  Min(I) \in I /\ \A j \in I : Min(I) <= j
<1>1. PICK n \in I : TRUE
  OBVIOUS
<1> DEFINE T == {1..i : i \in {j \in I : j <= n}}
<1>2. IsWellFoundedOn(StrictSubsetOrdering(1..n), SUBSET (1..n))
  <2>1. IsWellFoundedOn(StrictSubsetOrdering(1..n), FiniteSubsetsOf(1..n))
    BY FS_StrictSubsetOrderingWellFounded
  <2>2. FiniteSubsetsOf(1..n) = SUBSET (1..n)
    BY FS_FiniteSubsetsOfFinite, FS_Interval
  <2> QED BY <2>1, <2>2
<1>3. T \subseteq SUBSET (1..n) /\ T # {}
  OBVIOUS
<1>4. PICK x \in T : \A y \in T : ~ (<<y, x>> \in StrictSubsetOrdering(1..n))
  <2> HIDE DEF T
  <2> QED BY <1>2, <1>3, WFMin
<1>5. PICK i \in I : i <= n /\ x = 1..i
  BY <1>4
<1>6. ASSUME NEW j \in I, j < i PROVE FALSE
  <2>1. 1..j \in T
    BY <1>5, <1>6
  <2>2. 1..j \subseteq 1..i /\ 1..j # 1..i
    <3>1. i \in 1..i /\ i \notin 1..j
      BY <1>6
    <3>2. 1..j \subseteq 1..i
      BY <1>6
    <3> QED BY <3>1, <3>2
  <2>3. <<1..j, 1..i>> \in StrictSubsetOrdering(1..n)
    BY <2>1, <2>2, <1>3, <1>5 DEF StrictSubsetOrdering
  <2> QED BY <2>1, <2>3, <1>4, <1>5
<1>7. \A j \in I : i <= j
  BY <1>6
<1> QED BY <1>5, <1>7 DEF Min

\* The index the code's loops stop at is one of an entry with the address.
LEMMA FirstWithMatches ==
  ASSUME NEW l \in Seq(Specs), NEW a, HasAddress(l, a)
  PROVE  FirstWith(l, a) \in 1..Len(l) /\ AddressOf[l[FirstWith(l, a)]] = a
<1> DEFINE I == {i \in 1..Len(l) : AddressOf[l[i]] = a}
<1>1. I \in SUBSET Nat /\ I # {}
  BY DEF HasAddress
<1>2. Min(I) \in I
  <2> HIDE DEF I
  <2> QED BY <1>1, MinIsLeast
<1>3. FirstWith(l, a) = Min(I)
  BY <1>1 DEF FirstWith, SelectInSeq
<1> QED BY <1>2, <1>3

\* Appending keeps a list a list of specs, and adds s or an entry like it.
LEMMA AppendSpecType ==
  ASSUME NEW l \in Seq(Specs), NEW s \in Specs
  PROVE  AppendSpec(l, s) \in Seq(Specs)
BY DEF AppendSpec

\* Replacing keeps a list a list of specs and does not change its addresses.
LEMMA ReplaceSpecType ==
  ASSUME NEW l \in Seq(Specs), NEW s \in Specs
  PROVE  /\ ReplaceSpec(l, s) \in Seq(Specs)
         /\ ListedAddresses(ReplaceSpec(l, s)) = ListedAddresses(l)
<1>1. CASE HasAddress(l, AddressOf[s])
  <2> DEFINE k == FirstWith(l, AddressOf[s])
  <2>1. k \in 1..Len(l) /\ AddressOf[l[k]] = AddressOf[s]
    BY <1>1, FirstWithMatches
  <2>2. ReplaceSpec(l, s) = [l EXCEPT ![k] = s]
    BY <1>1 DEF ReplaceSpec, ReplaceAt
  <2> HIDE DEF k
  <2>3. ReplaceSpec(l, s) \in Seq(Specs) /\ DOMAIN ReplaceSpec(l, s) = DOMAIN l
    BY <2>1, <2>2, ExceptSeq
  <2>4. \A i \in DOMAIN l : AddressOf[ReplaceSpec(l, s)[i]] = AddressOf[l[i]]
    BY <2>1, <2>2
  <2> QED BY <2>3, <2>4 DEF ListedAddresses
<1>2. CASE ~ HasAddress(l, AddressOf[s])
  BY <1>2 DEF ReplaceSpec
<1> QED BY <1>1, <1>2

\* Where the entries of l are after its k-th is removed.
LEMMA RemoveAtElements ==
  ASSUME NEW l \in Seq(Specs), NEW k \in 1..Len(l)
  PROVE  /\ RemoveAt(l, k) \in Seq(Specs)
         /\ Len(RemoveAt(l, k)) = Len(l) - 1
         /\ \A i \in 1..(Len(l) - 1) : RemoveAt(l, k)[i] = IF i < k THEN l[i] ELSE l[i + 1]
<1> DEFINE front == SubSeq(l, 1, k - 1)
           back == SubSeq(l, k + 1, Len(l))
<1>1. front \in Seq(Specs) /\ Len(front) = k - 1 /\ \A i \in 1..(k - 1) : front[i] = l[i]
  BY SubSeqProperties
<1>2. back \in Seq(Specs) /\ Len(back) = Len(l) - k /\ \A i \in 1..(Len(l) - k) : back[i] = l[k + i]
  BY SubSeqProperties
<1>3. RemoveAt(l, k) = front \o back
  BY DEF RemoveAt
<1> HIDE DEF front, back
<1>4. Len(l) \in Nat
  BY LenProperties
<1>5. /\ front \o back \in Seq(Specs)
      /\ Len(front \o back) = Len(front) + Len(back)
      /\ \A i \in 1..(Len(front) + Len(back)) :
           (front \o back)[i] = IF i <= Len(front) THEN front[i] ELSE back[i - Len(front)]
  BY <1>1, <1>2, ConcatProperties
<1>6. Len(front) + Len(back) = Len(l) - 1
  BY <1>1, <1>2, <1>4
<1>7. ASSUME NEW i \in 1..(Len(l) - 1), i < k
      PROVE  (front \o back)[i] = l[i]
  <2>1. i <= Len(front) /\ i \in 1..(k - 1)
    BY <1>1, <1>4, <1>7
  <2> QED BY <2>1, <1>1, <1>5, <1>6
<1>8. ASSUME NEW i \in 1..(Len(l) - 1), ~ (i < k)
      PROVE  (front \o back)[i] = l[i + 1]
  <2>1. ~ (i <= Len(front)) /\ i - Len(front) \in 1..(Len(l) - k)
    BY <1>1, <1>4, <1>8
  <2>2. (front \o back)[i] = back[i - Len(front)]
    BY <2>1, <1>5, <1>6
  <2>3. back[i - Len(front)] = l[k + (i - Len(front))] /\ k + (i - Len(front)) = i + 1
    BY <2>1, <1>1, <1>2, <1>4
  <2> QED BY <2>2, <2>3
<1> QED BY <1>3, <1>5, <1>6, <1>7, <1>8

\* What is removed from a list leaves a list.
LEMMA RemoveSpecType ==
  ASSUME NEW l \in Seq(Specs), NEW s \in Specs
  PROVE  RemoveSpec(l, s) \in Seq(Specs)
BY FirstWithMatches, RemoveAtElements DEF RemoveSpec
-----------------------------------------------------------------------------
(* Every use of the store: types and agreement of the maps.                *)

\* The inductive invariant: only finitely many agents are registered, so a loop
\* over the agent map ends and what it collects is a list.
StoreInv == TypeOK /\ KeysAgree /\ IsFiniteSet(Registered)

\* What a loop over the agent map collects: a list with each registered agent's
\* spec at the place the loop came to it.
LEMMA ListingOrder ==
  ASSUME StoreInv, NEW list \in SpecListings
  PROVE  \E order \in SetToSeqs(Registered) :
           /\ order \in [1..Cardinality(Registered) -> Registered]
           /\ Cardinality(Registered) \in Nat
           /\ list = [i \in 1..Cardinality(Registered) |-> agentSpecs[order[i]]]
<1>1. Cardinality(Registered) \in Nat
  BY FS_CardinalityType DEF StoreInv
<1>2. PICK order \in SetToSeqs(Registered) :
             list = [i \in DOMAIN order |-> agentSpecs[order[i]]]
  BY DEF SpecListings
<1>3. order \in [1..Cardinality(Registered) -> Registered]
  BY DEF SetToSeqs
<1> QED BY <1>1, <1>2, <1>3

\* Whatever order the loop takes, it collects a list of specs.
LEMMA ListingType ==
  ASSUME StoreInv, NEW list \in SpecListings
  PROVE  list \in Seq(Specs)
<1>1. PICK order \in SetToSeqs(Registered) :
           /\ order \in [1..Cardinality(Registered) -> Registered]
           /\ Cardinality(Registered) \in Nat
           /\ list = [i \in 1..Cardinality(Registered) |-> agentSpecs[order[i]]]
  BY ListingOrder
<1>2. list \in [1..Cardinality(Registered) -> Specs]
  BY <1>1 DEF StoreInv, TypeOK
<1> QED BY <1>1, <1>2

\* A new agent enters both of its maps, and marks generators that are registered.
LEMMA AddAgentInv ==
  ASSUME StoreInv, NEW u \in AgentUuids, NEW s \in Specs, AddAgent(u, s)
  PROVE  StoreInv'
<1> USE DEF StoreInv, TypeOK, KeysAgree, Registered
<1>1. /\ agentSpecs' \in [Registered \cup {u} -> Specs]
      /\ Registered' = Registered \cup {u}
  BY DEF AddAgent, PutAgent
<1>2. agentLists' \in [GeneratorUuids -> Seq(Specs)]
  BY AppendSpecType DEF AddAgent, ChangeLists
<1>3. IsFiniteSet(Registered')
  BY <1>1, FS_AddElement
<1> QED BY <1>1, <1>2, <1>3 DEF AddAgent, PutAgent, MarkGenerators

\* An update marks the agent, which is registered.
LEMMA UpdateAgentInv ==
  ASSUME StoreInv, NEW u \in AgentUuids, NEW s \in Specs, UpdateAgent(u, s)
  PROVE  StoreInv'
<1> USE DEF StoreInv, TypeOK, KeysAgree, Registered
<1>1. agentSpecs' \in [Registered -> Specs] /\ Registered' = Registered
  BY DEF UpdateAgent, PutAgent
<1>2. agentLists' \in [GeneratorUuids -> Seq(Specs)]
  BY ReplaceSpecType DEF UpdateAgent, ChangeLists
<1> QED BY <1>1, <1>2 DEF UpdateAgent, PutAgent

\* An agent leaves both of its maps and the dirty ids.
LEMMA RemoveAgentInv ==
  ASSUME StoreInv, NEW u \in AgentUuids, RemoveAgent(u)
  PROVE  StoreInv'
<1> USE DEF StoreInv, TypeOK, KeysAgree, Registered
<1>1. /\ agentSpecs' \in [Registered \ {u} -> Specs]
      /\ Registered' = Registered \ {u}
  BY DEF RemoveAgent, Restrict
<1>2. agentLists' \in [GeneratorUuids -> Seq(Specs)]
  <2>1. agentSpecs[u] \in Specs
    BY DEF RemoveAgent
  <2> QED BY <2>1, RemoveSpecType DEF RemoveAgent, ChangeLists
<1>3. IsFiniteSet(Registered')
  BY <1>1, FS_RemoveElement
<1> QED BY <1>1, <1>2, <1>3 DEF RemoveAgent, MarkGenerators

\* A status update marks the agent, which is registered.
LEMMA UpdateAgentStatusInv ==
  ASSUME StoreInv, NEW u \in AgentUuids, UpdateAgentStatus(u)
  PROVE  StoreInv'
BY DEF StoreInv, TypeOK, KeysAgree, Registered, UpdateAgentStatus, generatorVars

\* A new generator enters both of its maps, with a list of specs.
LEMMA AddGeneratorInv ==
  ASSUME StoreInv, NEW u \in GeneratorUuids, AddGenerator(u)
  PROVE  StoreInv'
<1> USE DEF TypeOK, KeysAgree, Registered, agentVars
<1>1. PICK list \in SpecListings : agentLists' = [agentLists EXCEPT ![u] = list]
  BY DEF AddGenerator
<1>2. list \in Seq(Specs)
  BY ListingType
<1>3. agentLists' \in [GeneratorUuids -> Seq(Specs)]
  BY <1>1, <1>2 DEF StoreInv
<1> QED BY <1>3 DEF AddGenerator, StoreInv

\* A replaced status belongs to a registered generator.
LEMMA PutGeneratorStatusInv ==
  ASSUME StoreInv, NEW u \in GeneratorUuids, NEW list \in Seq(Specs),
         PutGeneratorStatus(u, list)
  PROVE  StoreInv'
BY DEF StoreInv, TypeOK, KeysAgree, Registered, PutGeneratorStatus, agentVars

\* A generator leaves both of its maps and the dirty ids.
LEMMA RemoveGeneratorInv ==
  ASSUME StoreInv, NEW u \in GeneratorUuids, RemoveGenerator(u)
  PROVE  StoreInv'
BY DEF StoreInv, TypeOK, KeysAgree, Registered, RemoveGenerator, agentVars

\* Clearing the flags leaves the maps alone.
LEMMA GetDirtyInv ==
  ASSUME StoreInv, GetDirtyAgentUuids \/ GetDirtyGeneratorUuids
  PROVE  StoreInv'
BY DEF StoreInv, TypeOK, KeysAgree, Registered, GetDirtyAgentUuids,
       GetDirtyGeneratorUuids, agentVars, generatorVars

\* The maps are empty at the start.
LEMMA InitInv == Init => StoreInv
BY FS_EmptySet DEF Init, StoreInv, TypeOK, KeysAgree, Registered

\* They are empty again after a restart.
LEMMA NewComponentStoreInv == NewComponentStore => StoreInv'
BY FS_EmptySet DEF NewComponentStore, StoreInv, TypeOK, KeysAgree, Registered

\* What leaves the store alone keeps its invariant.
LEMMA StutterInv == StoreInv /\ UNCHANGED storeVars => StoreInv'
BY DEF StoreInv, TypeOK, KeysAgree, Registered, storeVars, agentVars, generatorVars

\* Every operation keeps the invariant, whoever calls it.
LEMMA NextInv == StoreInv /\ [Next]_storeVars => StoreInv'
<1> SUFFICES ASSUME StoreInv, Next PROVE StoreInv'
  BY StutterInv
<1>1. ASSUME NEW u \in AgentUuids, NEW s \in Specs, AddOrUpdateAgent(u, s) PROVE StoreInv'
  BY <1>1, AddAgentInv, UpdateAgentInv DEF AddOrUpdateAgent
<1>2. ASSUME NEW u \in AgentUuids, RemoveAgent(u) \/ UpdateAgentStatus(u) PROVE StoreInv'
  BY <1>2, RemoveAgentInv, UpdateAgentStatusInv
<1>3. ASSUME NEW u \in GeneratorUuids, NEW list \in {<< >>, agentLists[u]},
             AddOrUpdateGenerator(u, list) \/ UpdateGeneratorStatus(u, list)
      PROVE  StoreInv'
  <2>1. list \in Seq(Specs)
    <3>1. << >> \in Seq(Specs)
      BY EmptySeq
    <3>2. agentLists[u] \in Seq(Specs)
      BY DEF StoreInv, TypeOK
    <3> QED BY <3>1, <3>2
  <2> QED BY <2>1, <1>3, AddGeneratorInv, PutGeneratorStatusInv
          DEF AddOrUpdateGenerator, UpdateGenerator, UpdateGeneratorStatus
<1>4. ASSUME NEW u \in GeneratorUuids, RemoveGenerator(u) PROVE StoreInv'
  BY <1>4, RemoveGeneratorInv
<1> QED BY <1>1, <1>2, <1>3, <1>4, GetDirtyInv DEF Next

\* So do the calls of the manager.
LEMMA ManagedInv == StoreInv /\ [ManagedNext]_storeVars => StoreInv'
BY StutterInv, AddAgentInv, RemoveAgentInv, AddGeneratorInv, RemoveGeneratorInv,
   GetDirtyInv, NewComponentStoreInv DEF ManagedNext, JoinedAgent

\* Whatever is called in whatever order, lists hold specs and maps hold ids.
THEOREM TypeCorrect == Spec => []TypeOK
<1>1. StoreInv => TypeOK
  BY DEF StoreInv
<1> QED BY <1>1, InitInv, NextInv, PTL DEF Spec

\* Whatever is called in whatever order, the maps agree on who is registered and
\* only registered components are dirty.
THEOREM KeysAlwaysAgree == Spec => []KeysAgree
<1>1. StoreInv => KeysAgree
  BY DEF StoreInv
<1> QED BY <1>1, InitInv, NextInv, PTL DEF Spec
-----------------------------------------------------------------------------
(* Every use of the store: no list changes unannounced.                    *)

\* One case per operation: it marks the generators, or leaves the addresses alone.
LEMMA AnnouncedStep == StoreInv /\ [Next]_storeVars => Announced
<1> SUFFICES ASSUME StoreInv, [Next]_storeVars,
                    NEW g \in generatorStatus \cap generatorStatus',
                    ListedAddresses(agentLists'[g]) # ListedAddresses(agentLists[g])
             PROVE  g \in dirtyGeneratorUuids'
  BY DEF Announced
<1> USE DEF StoreInv, TypeOK, KeysAgree
<1>1. ASSUME NEW u \in AgentUuids, NEW s \in Specs, AddAgent(u, s)
      PROVE  g \in dirtyGeneratorUuids'
  BY <1>1 DEF AddAgent, MarkGenerators
<1>2. ASSUME NEW u \in AgentUuids, NEW s \in Specs, UpdateAgent(u, s)
      PROVE  FALSE
  <2>1. agentLists'[g] = ReplaceSpec(agentLists[g], s)
    BY <1>2 DEF UpdateAgent, ChangeLists
  <2> QED BY <2>1, ReplaceSpecType
<1>3. ASSUME NEW u \in AgentUuids, RemoveAgent(u)
      PROVE  g \in dirtyGeneratorUuids'
  BY <1>3 DEF RemoveAgent, MarkGenerators
<1>4. ASSUME NEW u \in GeneratorUuids, AddGenerator(u)
      PROVE  FALSE
  <2>1. g # u
    BY <1>4 DEF AddGenerator
  <2> QED BY <1>4, <2>1 DEF AddGenerator
<1>5. ASSUME NEW u \in GeneratorUuids, NEW list, PutGeneratorStatus(u, list)
      PROVE  g \in dirtyGeneratorUuids'
  BY <1>5 DEF PutGeneratorStatus
<1>6. CASE UNCHANGED agentLists
  BY <1>6
<1>7. ASSUME NEW u \in AgentUuids, UpdateAgentStatus(u) PROVE UNCHANGED agentLists
  BY <1>7 DEF UpdateAgentStatus, generatorVars
<1>8. ASSUME NEW u \in GeneratorUuids, RemoveGenerator(u) PROVE UNCHANGED agentLists
  BY <1>8 DEF RemoveGenerator
<1>9. GetDirtyAgentUuids \/ GetDirtyGeneratorUuids => UNCHANGED agentLists
  BY DEF GetDirtyAgentUuids, GetDirtyGeneratorUuids, generatorVars
<1>10. UNCHANGED storeVars => UNCHANGED agentLists
  BY DEF storeVars, generatorVars
<1> QED BY <1>1, <1>2, <1>3, <1>4, <1>5, <1>6, <1>7, <1>8, <1>9, <1>10
        DEF Next, AddOrUpdateAgent, AddOrUpdateGenerator, UpdateGenerator,
            UpdateGeneratorStatus

\* Whatever is called in whatever order, a step that changes the addresses in a
\* registered generator's list marks that generator.
THEOREM ChangesAnnounced == Spec => ChangeIsAnnounced
<1>1. StoreInv /\ [Next]_storeVars => [Announced]_storeVars
  BY AnnouncedStep
<1> QED BY <1>1, InitInv, NextInv, PTL DEF Spec, ChangeIsAnnounced

-----------------------------------------------------------------------------
(* The manager's use of the store: lists are exact when no two agents       *)
(* share an address.                                                       *)

Distinct(specs) ==
  \A u, v \in DOMAIN specs : AddressOf[specs[u]] = AddressOf[specs[v]] => u = v

\* l has the spec of each of the given agents, once, and nothing else.
Exact(l, specs) ==
  /\ \A u \in DOMAIN specs : \E i \in 1..Len(l) : l[i] = specs[u]
  /\ \A i \in 1..Len(l) : \E u \in DOMAIN specs : l[i] = specs[u]
  /\ \A i, j \in 1..Len(l) : AddressOf[l[i]] = AddressOf[l[j]] => i = j

\* The inductive invariant.  ListsExact alone is not one: removal takes the first
\* entry with the agent's address, the right one only if there is no other.
ExactInv ==
  /\ StoreInv
  /\ Distinct(agentSpecs)
  /\ \A g \in generatorStatus : Exact(agentLists[g], agentSpecs)

\* A spec with a new address makes an exact list exact with it.
LEMMA AppendExact ==
  ASSUME NEW l \in Seq(Specs), NEW s \in Specs, NEW specs, NEW more, NEW u,
         Exact(l, specs),
         \A v \in DOMAIN specs : AddressOf[specs[v]] # AddressOf[s],
         DOMAIN more = DOMAIN specs \cup {u}, u \notin DOMAIN specs,
         more[u] = s, \A v \in DOMAIN specs : more[v] = specs[v]
  PROVE  Exact(AppendSpec(l, s), more)
<1>1. \A i \in 1..Len(l) : AddressOf[l[i]] # AddressOf[s]
  BY DEF Exact
<1>2. AppendSpec(l, s) = Append(l, s)
  BY <1>1 DEF AppendSpec, HasAddress
<1> DEFINE m == Append(l, s)
<1>3. /\ Len(l) \in Nat /\ Len(m) = Len(l) + 1
      /\ \A i \in 1..Len(l) : m[i] = l[i]
      /\ m[Len(l) + 1] = s
  BY AppendProperties, LenProperties
<1> HIDE DEF m
<1>4. \A i \in 1..Len(m) : i \in 1..Len(l) \/ i = Len(l) + 1
  BY <1>3
<1>5. ASSUME NEW v \in DOMAIN more PROVE \E i \in 1..Len(m) : m[i] = more[v]
  <2>1. CASE v = u
    <3>1. Len(l) + 1 \in 1..Len(m)
      BY <1>3
    <3> QED BY <2>1, <3>1, <1>3
  <2>2. CASE v \in DOMAIN specs
    <3>1. PICK i \in 1..Len(l) : l[i] = specs[v]
      BY <2>2 DEF Exact
    <3>2. i \in 1..Len(m)
      BY <1>3
    <3> QED BY <2>2, <3>1, <3>2, <1>3
  <2> QED BY <2>1, <2>2
<1>6. ASSUME NEW i \in 1..Len(m) PROVE \E v \in DOMAIN more : m[i] = more[v]
  BY <1>3, <1>4 DEF Exact
<1>7. ASSUME NEW i \in 1..Len(m), NEW j \in 1..Len(m), AddressOf[m[i]] = AddressOf[m[j]]
      PROVE  i = j
  <2>1. CASE i \in 1..Len(l) /\ j \in 1..Len(l)
    <3>1. AddressOf[l[i]] = AddressOf[l[j]]
      BY <1>3, <1>7, <2>1
    <3> QED BY <2>1, <3>1 DEF Exact
  <2>2. CASE i \in 1..Len(l) /\ j = Len(l) + 1
    BY <1>1, <1>3, <1>7, <2>2
  <2>3. CASE i = Len(l) + 1 /\ j \in 1..Len(l)
    BY <1>1, <1>3, <1>7, <2>3
  <2> QED BY <1>4, <2>1, <2>2, <2>3
<1>8. Exact(m, more)
  BY <1>5, <1>6, <1>7 DEF Exact
<1> QED BY <1>2, <1>8 DEF m

\* The one entry with the address is the one that is removed.
LEMMA RemoveExact ==
  ASSUME NEW l \in Seq(Specs), NEW specs, NEW rest, NEW u \in DOMAIN specs,
         specs[u] \in Specs, Exact(l, specs), Distinct(specs),
         DOMAIN rest = DOMAIN specs \ {u}, \A v \in DOMAIN rest : rest[v] = specs[v]
  PROVE  Exact(RemoveSpec(l, specs[u]), rest)
<1> DEFINE k == FirstWith(l, AddressOf[specs[u]])
           m == RemoveAt(l, k)
<1>1. HasAddress(l, AddressOf[specs[u]])
  BY DEF Exact, HasAddress
<1>2. k \in 1..Len(l) /\ AddressOf[l[k]] = AddressOf[specs[u]]
  BY <1>1, FirstWithMatches
<1>3. RemoveSpec(l, specs[u]) = m
  BY <1>1 DEF RemoveSpec
<1> HIDE DEF k
<1>4. /\ Len(l) \in Nat /\ Len(m) = Len(l) - 1
      /\ \A i \in 1..(Len(l) - 1) : m[i] = IF i < k THEN l[i] ELSE l[i + 1]
  BY <1>2, RemoveAtElements, LenProperties
<1> HIDE DEF m
<1>5. l[k] = specs[u]
  BY <1>2 DEF Exact, Distinct
<1>6. ASSUME NEW v \in DOMAIN rest PROVE \E i \in 1..Len(m) : m[i] = rest[v]
  <2>1. PICK i \in 1..Len(l) : l[i] = specs[v]
    BY <1>6 DEF Exact
  <2>2. i # k
    BY <1>5, <1>6, <2>1 DEF Distinct
  <2>3. CASE i < k
    <3>1. i \in 1..(Len(l) - 1)
      BY <1>2, <1>4, <2>3
    <3> QED BY <2>1, <2>3, <3>1, <1>4, <1>6
  <2>4. CASE i > k
    <3>1. i - 1 \in 1..(Len(l) - 1) /\ ~ (i - 1 < k) /\ (i - 1) + 1 = i
      BY <1>2, <1>4, <2>4
    <3> QED BY <2>1, <3>1, <1>4, <1>6
  <2> QED BY <1>2, <2>2, <2>3, <2>4
<1>7. ASSUME NEW i \in 1..Len(m)
      PROVE  \E n \in 1..Len(l) : n # k /\ m[i] = l[n] /\ n = (IF i < k THEN i ELSE i + 1)
  BY <1>2, <1>4
<1>8. ASSUME NEW i \in 1..Len(m) PROVE \E v \in DOMAIN rest : m[i] = rest[v]
  <2>1. PICK n \in 1..Len(l) : n # k /\ m[i] = l[n]
    BY <1>7
  <2>2. PICK v \in DOMAIN specs : l[n] = specs[v]
    BY DEF Exact
  <2>3. v # u
    <3>1. v = u => AddressOf[l[n]] = AddressOf[l[k]]
      BY <1>5, <2>2
    <3>2. AddressOf[l[n]] = AddressOf[l[k]] => n = k
      BY <1>2 DEF Exact
    <3> QED BY <2>1, <3>1, <3>2
  <2> QED BY <2>1, <2>2, <2>3
<1>9. ASSUME NEW i \in 1..Len(m), NEW j \in 1..Len(m), AddressOf[m[i]] = AddressOf[m[j]]
      PROVE  i = j
  <2>1. PICK n \in 1..Len(l) : m[i] = l[n] /\ n = (IF i < k THEN i ELSE i + 1)
    BY <1>7
  <2>2. PICK o \in 1..Len(l) : m[j] = l[o] /\ o = (IF j < k THEN j ELSE j + 1)
    BY <1>7
  <2>3. n = o
    <3>1. AddressOf[l[n]] = AddressOf[l[o]]
      BY <1>9, <2>1, <2>2
    <3> QED BY <3>1 DEF Exact
  <2> QED BY <2>1, <2>2, <2>3, <1>2, <1>4
<1>10. Exact(m, rest)
  BY <1>6, <1>8, <1>9 DEF Exact
<1> QED BY <1>3, <1>10

\* A complete loop over the agent map collects each spec once.
LEMMA ListingExact ==
  ASSUME StoreInv, Distinct(agentSpecs), NEW list \in SpecListings
  PROVE  Exact(list, agentSpecs)
<1> DEFINE n == Cardinality(Registered)
<1>1. PICK order \in SetToSeqs(Registered) :
           /\ order \in [1..n -> Registered]
           /\ n \in Nat
           /\ list = [i \in 1..n |-> agentSpecs[order[i]]]
  BY ListingOrder
<1>2. \A i, j \in 1..n : i # j => order[i] # order[j]
  BY <1>1 DEF SetToSeqs
<1>3. order \in Surjection(1..n, Registered)
  <2>1. order \in Injection(1..n, Registered)
    BY <1>1, <1>2 DEF Injection, IsInjective
  <2>2. Cardinality(1..n) = n
    BY <1>1, FS_Interval
  <2> QED BY <2>1, <2>2, FS_Injection DEF StoreInv
<1> HIDE DEF n
<1>4. Len(list) = n /\ \A i \in 1..n : list[i] = agentSpecs[order[i]]
  BY <1>1, ListingType, LenProperties
<1>5. \A u \in Registered : \E i \in 1..n : order[i] = u
  BY <1>3 DEF Surjection
<1> QED BY <1>1, <1>2, <1>4, <1>5 DEF Exact, Distinct, Registered

\* The lists of all generators gain the new agent.
LEMMA AddAgentExact ==
  ASSUME ExactInv, ~ SharedAddresses, NEW u \in AgentUuids, NEW s \in Specs, JoinedAgent(u, s)
  PROVE  ExactInv'
<1>1. StoreInv'
  BY AddAgentInv DEF ExactInv, JoinedAgent
<1>2. /\ u \notin DOMAIN agentSpecs
      /\ DOMAIN agentSpecs' = DOMAIN agentSpecs \cup {u}
      /\ agentSpecs'[u] = s
      /\ \A v \in DOMAIN agentSpecs : agentSpecs'[v] = agentSpecs[v]
  BY DEF JoinedAgent, AddAgent, PutAgent, Registered
<1>3. \A v \in DOMAIN agentSpecs : AddressOf[agentSpecs[v]] # AddressOf[s]
  BY DEF JoinedAgent, AddressFree, Registered
<1>4. Distinct(agentSpecs)'
  BY <1>2, <1>3 DEF ExactInv, Distinct
<1>5. ASSUME NEW g \in generatorStatus' PROVE Exact(agentLists'[g], agentSpecs')
  <2>1. g \in generatorStatus /\ g \in GeneratorUuids /\ agentLists[g] \in Seq(Specs)
    BY <1>5 DEF ExactInv, StoreInv, TypeOK, KeysAgree, JoinedAgent, AddAgent
  <2>2. agentLists'[g] = AppendSpec(agentLists[g], s)
    BY <2>1 DEF JoinedAgent, AddAgent, ChangeLists
  <2>3. Exact(agentLists[g], agentSpecs)
    BY <2>1 DEF ExactInv
  <2> QED BY <2>1, <2>2, <2>3, <1>2, <1>3, AppendExact
<1> QED BY <1>1, <1>4, <1>5 DEF ExactInv

\* The lists of all generators lose the departed agent.
LEMMA RemoveAgentExact ==
  ASSUME ExactInv, NEW u \in AgentUuids, RemoveAgent(u)
  PROVE  ExactInv'
<1>1. StoreInv'
  BY RemoveAgentInv DEF ExactInv
<1>2. /\ u \in DOMAIN agentSpecs
      /\ agentSpecs[u] \in Specs
      /\ DOMAIN agentSpecs' = DOMAIN agentSpecs \ {u}
      /\ \A v \in DOMAIN agentSpecs' : agentSpecs'[v] = agentSpecs[v]
  BY DEF ExactInv, StoreInv, TypeOK, RemoveAgent, Restrict, Registered
<1>3. Distinct(agentSpecs)'
  BY <1>2 DEF ExactInv, Distinct
<1>4. ASSUME NEW g \in generatorStatus' PROVE Exact(agentLists'[g], agentSpecs')
  <2>1. g \in generatorStatus /\ g \in GeneratorUuids /\ agentLists[g] \in Seq(Specs)
    BY <1>4 DEF ExactInv, StoreInv, TypeOK, KeysAgree, RemoveAgent
  <2>2. agentLists'[g] = RemoveSpec(agentLists[g], agentSpecs[u])
    BY <2>1 DEF RemoveAgent, ChangeLists
  <2>3. Exact(agentLists[g], agentSpecs) /\ Distinct(agentSpecs)
    BY <2>1 DEF ExactInv
  <2> QED BY <2>1, <2>2, <2>3, <1>2, RemoveExact
<1> QED BY <1>1, <1>3, <1>4 DEF ExactInv

\* A new generator gets an exact list, and the others keep theirs.
LEMMA AddGeneratorExact ==
  ASSUME ExactInv, NEW u \in GeneratorUuids, AddGenerator(u)
  PROVE  ExactInv'
<1>1. StoreInv' /\ Distinct(agentSpecs)'
  BY AddGeneratorInv DEF ExactInv, AddGenerator, agentVars
<1>2. PICK list \in SpecListings : agentLists' = [agentLists EXCEPT ![u] = list]
  BY DEF AddGenerator
<1>3. Exact(list, agentSpecs)
  BY ListingExact DEF ExactInv
<1>4. ASSUME NEW g \in generatorStatus' PROVE Exact(agentLists'[g], agentSpecs)
  <2>1. g = u \/ (g # u /\ g \in generatorStatus)
    BY <1>4 DEF AddGenerator
  <2>2. agentLists \in [GeneratorUuids -> Seq(Specs)]
    BY DEF ExactInv, StoreInv, TypeOK
  <2>3. CASE g = u
    BY <2>2, <2>3, <1>2, <1>3
  <2>4. CASE g # u /\ g \in generatorStatus
    <3>1. g \in GeneratorUuids
      BY <2>4 DEF ExactInv, StoreInv, TypeOK
    <3>2. agentLists'[g] = agentLists[g]
      BY <2>2, <2>4, <3>1, <1>2
    <3> QED BY <2>4, <3>2 DEF ExactInv
  <2> QED BY <2>1, <2>3, <2>4
<1>5. agentSpecs' = agentSpecs
  BY DEF AddGenerator, agentVars
<1> QED BY <1>1, <1>4, <1>5 DEF ExactInv

\* What changes neither agents nor lists keeps them exact.
LEMMA OtherExact ==
  ASSUME ExactInv, StoreInv',
         UNCHANGED <<agentSpecs, agentLists>>, generatorStatus' \subseteq generatorStatus
  PROVE  ExactInv'
BY DEF ExactInv

\* Without agents and generators there is nothing to list.
LEMMA NewComponentStoreExact == NewComponentStore => ExactInv'
BY NewComponentStoreInv DEF NewComponentStore, ExactInv, Distinct

\* Every call of the manager keeps the lists exact.
LEMMA ManagedExact ==
  ASSUME ~ SharedAddresses
  PROVE  ExactInv /\ [ManagedNext]_storeVars => ExactInv'
<1> SUFFICES ASSUME ExactInv, [ManagedNext]_storeVars PROVE ExactInv'
  OBVIOUS
<1>1. StoreInv
  BY DEF ExactInv
<1>2. ASSUME NEW u \in AgentUuids, NEW s \in Specs, JoinedAgent(u, s) PROVE ExactInv'
  BY <1>2, AddAgentExact
<1>3. ASSUME NEW u \in AgentUuids, RemoveAgent(u) PROVE ExactInv'
  BY <1>3, RemoveAgentExact
<1>4. ASSUME NEW u \in GeneratorUuids, AddGenerator(u) PROVE ExactInv'
  BY <1>4, AddGeneratorExact
<1>5. ASSUME NEW u \in GeneratorUuids, RemoveGenerator(u) PROVE ExactInv'
  BY <1>1, <1>5, RemoveGeneratorInv, OtherExact DEF RemoveGenerator, agentVars
<1>6. ASSUME GetDirtyAgentUuids \/ GetDirtyGeneratorUuids PROVE ExactInv'
  BY <1>1, <1>6, GetDirtyInv, OtherExact
     DEF GetDirtyAgentUuids, GetDirtyGeneratorUuids, agentVars, generatorVars
<1>7. CASE UNCHANGED storeVars
  BY <1>1, <1>7, StutterInv, OtherExact DEF storeVars, agentVars, generatorVars
<1> QED BY <1>2, <1>3, <1>4, <1>5, <1>6, <1>7, NewComponentStoreExact DEF ManagedNext

\* Counting: a list with each of finitely many agents' specs once is as long as
\* there are agents.
LEMMA ExactLength ==
  ASSUME StoreInv, Distinct(agentSpecs), NEW l \in Seq(Specs), Exact(l, agentSpecs)
  PROVE  Len(l) = Cardinality(Registered)
<1>1. IsFiniteSet(Registered) /\ Len(l) \in Nat
  BY LenProperties DEF StoreInv
<1>2. IsFiniteSet(1..Len(l)) /\ Cardinality(1..Len(l)) = Len(l)
  BY <1>1, FS_Interval
<1> DEFINE f == [i \in 1..Len(l) |-> CHOOSE u \in Registered : l[i] = agentSpecs[u]]
<1>3. \A i \in 1..Len(l) : f[i] \in Registered /\ agentSpecs[f[i]] = l[i]
  BY DEF Exact, Registered
<1>4. f \in [1..Len(l) -> Registered]
  BY <1>3
<1> HIDE DEF f
<1>5. ASSUME NEW i \in 1..Len(l), NEW j \in 1..Len(l), f[i] = f[j] PROVE i = j
  <2>1. l[i] = l[j]
    BY <1>3, <1>5
  <2> QED BY <2>1 DEF Exact
<1>6. ASSUME NEW u \in Registered PROVE \E i \in 1..Len(l) : f[i] = u
  <2>1. PICK i \in 1..Len(l) : l[i] = agentSpecs[u]
    BY DEF Exact, Registered
  <2>2. f[i] \in Registered /\ agentSpecs[f[i]] = agentSpecs[u]
    BY <1>3, <2>1
  <2>3. f[i] = u
    BY <2>2 DEF Distinct, Registered
  <2> QED BY <2>3
<1>7. f \in Bijection(1..Len(l), Registered)
  BY <1>4, <1>5, <1>6 DEF Bijection, Injection, Surjection, IsInjective
<1>8. Cardinality(1..Len(l)) = Cardinality(Registered)
  BY <1>1, <1>2, <1>7, FS_Bijection DEF ExistsBijection
<1> QED BY <1>2, <1>8

\* The invariant is strong enough.
LEMMA ExactIsListsExact == ExactInv => ListsExact
<1> SUFFICES ASSUME ExactInv, NEW g \in generatorStatus
             PROVE  /\ Len(agentLists[g]) = Cardinality(Registered)
                    /\ {agentLists[g][i] : i \in DOMAIN agentLists[g]}
                         = {agentSpecs[u] : u \in Registered}
  BY DEF ListsExact
<1>1. agentLists[g] \in Seq(Specs) /\ Exact(agentLists[g], agentSpecs)
  BY DEF ExactInv, StoreInv, TypeOK, KeysAgree
<1>2. DOMAIN agentLists[g] = 1..Len(agentLists[g])
  BY <1>1, LenProperties
<1>3. Len(agentLists[g]) = Cardinality(Registered)
  BY <1>1, ExactLength DEF ExactInv
<1>4. {agentLists[g][i] : i \in DOMAIN agentLists[g]} = {agentSpecs[u] : u \in Registered}
  BY <1>1, <1>2 DEF Exact, Registered
<1> QED BY <1>3, <1>4

\* As long as no agent joins with an address in use, a registered generator is
\* always given exactly the registered agents, each once: after any joins, leaves
\* and restarts of the orchestrator.
THEOREM ListsAlwaysExact ==
  ASSUME ~ SharedAddresses
  PROVE  ManagedSpec => []ListsExact
<1>1. Init => ExactInv
  BY InitInv DEF Init, ExactInv, Distinct
<1>2. ExactInv /\ [ManagedNext]_storeVars => ExactInv'
  BY ManagedExact
<1> QED BY <1>1, <1>2, ExactIsListsExact, PTL DEF ManagedSpec

-----------------------------------------------------------------------------
(* The manager's use of the store: no list has more entries for an address *)
(* than agents are registered there.                                       *)

\* The entries of a list with one address are finitely many.
LEMMA EntriesFinite ==
  ASSUME NEW l \in Seq(Specs), NEW a
  PROVE  /\ Entries(l, a) = {i \in 1..Len(l) : AddressOf[l[i]] = a}
         /\ IsFiniteSet(Entries(l, a)) /\ Cardinality(Entries(l, a)) \in Nat
<1>1. Entries(l, a) = {i \in 1..Len(l) : AddressOf[l[i]] = a} /\ Len(l) \in Nat
  BY LenProperties DEF Entries
<1>2. IsFiniteSet(1..Len(l)) /\ Entries(l, a) \in SUBSET (1..Len(l))
  BY <1>1, FS_Interval
<1> QED BY <1>1, <1>2, FS_Subset, FS_CardinalityType

\* An append adds at most one entry with the address of the spec, and no other.
LEMMA AppendEntries ==
  ASSUME NEW l \in Seq(Specs), NEW s \in Specs, NEW a
  PROVE  /\ Cardinality(Entries(AppendSpec(l, s), a)) <= Cardinality(Entries(l, a)) + 1
         /\ a # AddressOf[s] => Entries(AppendSpec(l, s), a) = Entries(l, a)
<1> DEFINE n == Len(l)
           E == Entries(l, a)
<1>1. IsFiniteSet(E) /\ Cardinality(E) \in Nat
  BY EntriesFinite
<1>2. CASE HasAddress(l, AddressOf[s])
  BY <1>1, <1>2 DEF AppendSpec
<1>3. CASE ~ HasAddress(l, AddressOf[s])
  <2> DEFINE m == Append(l, s)
  <2>1. /\ AppendSpec(l, s) = m /\ m \in Seq(Specs)
        /\ n \in Nat /\ Len(m) = n + 1 /\ m[n + 1] = s
        /\ \A i \in 1..n : m[i] = l[i]
    BY <1>3, AppendProperties, LenProperties DEF AppendSpec
  <2> HIDE DEF m
  <2>2. Entries(m, a) = {i \in 1..(n + 1) : AddressOf[m[i]] = a}
    BY <2>1, EntriesFinite
  <2>3. E = {i \in 1..n : AddressOf[l[i]] = a}
    BY EntriesFinite
  <2> HIDE DEF E, n
  <2>4. Entries(m, a) \subseteq E \cup {n + 1}
    BY <2>1, <2>2, <2>3
  <2>5. a # AddressOf[s] => Entries(m, a) = E
    BY <2>1, <2>2, <2>3
  <2>6. IsFiniteSet(E \cup {n + 1}) /\ Cardinality(E \cup {n + 1}) <= Cardinality(E) + 1
    <3> DEFINE last == n + 1
    <3> HIDE DEF last
    <3>1. /\ IsFiniteSet(E \cup {last})
          /\ Cardinality(E \cup {last}) = IF last \in E THEN Cardinality(E) ELSE Cardinality(E) + 1
      BY <1>1, FS_AddElement
    <3>2. Cardinality(E \cup {last}) <= Cardinality(E) + 1
      BY <1>1, <3>1
    <3> QED BY <3>1, <3>2 DEF last
  <2>7. Cardinality(Entries(m, a)) <= Cardinality(E \cup {n + 1})
    BY <2>4, <2>6, FS_Subset
  <2>8. Cardinality(Entries(m, a)) \in Nat /\ Cardinality(E \cup {n + 1}) \in Nat
    BY <2>1, <2>6, EntriesFinite, FS_CardinalityType
  <2> QED BY <1>1, <2>1, <2>5, <2>6, <2>7, <2>8 DEF E
<1> QED BY <1>2, <1>3

\* A removal adds no entry, and takes one with the address of the spec if there is one.
LEMMA RemoveEntries ==
  ASSUME NEW l \in Seq(Specs), NEW s \in Specs, NEW a
  PROVE  /\ Cardinality(Entries(RemoveSpec(l, s), a)) <= Cardinality(Entries(l, a))
         /\ a = AddressOf[s] =>
              \/ Cardinality(Entries(RemoveSpec(l, s), a)) = 0
              \/ Cardinality(Entries(RemoveSpec(l, s), a)) <= Cardinality(Entries(l, a)) - 1
<1> DEFINE E == Entries(l, a)
<1>1. IsFiniteSet(E) /\ Cardinality(E) \in Nat
  BY EntriesFinite
<1>2. CASE ~ HasAddress(l, AddressOf[s])
  <2>1. RemoveSpec(l, s) = l
    BY <1>2 DEF RemoveSpec
  <2>2. a = AddressOf[s] => E = {}
    BY <1>2 DEF HasAddress, Entries
  <2> QED BY <1>1, <2>1, <2>2, FS_EmptySet
<1>3. CASE HasAddress(l, AddressOf[s])
  <2> DEFINE k == FirstWith(l, AddressOf[s])
             m == RemoveAt(l, k)
             F == Entries(m, a)
             Move(i) == IF i < k THEN i ELSE i + 1
             f == [i \in F |-> Move(i)]
  <2>1. k \in 1..Len(l) /\ AddressOf[l[k]] = AddressOf[s]
    BY <1>3, FirstWithMatches
  <2>2. RemoveSpec(l, s) = m
    BY <1>3 DEF RemoveSpec
  <2> HIDE DEF k
  <2>3. /\ m \in Seq(Specs) /\ Len(l) \in Nat /\ Len(m) = Len(l) - 1
        /\ \A i \in 1..(Len(l) - 1) : m[i] = IF i < k THEN l[i] ELSE l[i + 1]
    BY <2>1, RemoveAtElements, LenProperties
  <2> HIDE DEF m
  <2>4. /\ F = {i \in 1..(Len(l) - 1) : AddressOf[m[i]] = a}
        /\ IsFiniteSet(F) /\ Cardinality(F) \in Nat
    BY <2>3, EntriesFinite
  <2>5. E = {i \in 1..Len(l) : AddressOf[l[i]] = a}
    BY EntriesFinite
  <2> HIDE DEF E, F
  <2>6. f \in Injection(F, E \ {k})
    <3>1. \A i \in F : i \in Int /\ Move(i) \in E \ {k}
      BY <2>1, <2>3, <2>4, <2>5
    <3>2. \A i, j \in F : Move(i) = Move(j) => i = j
      BY <2>1, <3>1
    <3>3. f \in [F -> E \ {k}]
      BY <3>1
    <3>4. \A i, j \in F : f[i] = f[j] => i = j
      BY <3>2
    <3> QED BY <3>3, <3>4 DEF Injection, IsInjective
  <2>7. IsFiniteSet(E \ {k}) /\ Cardinality(E \ {k}) = IF k \in E THEN Cardinality(E) - 1 ELSE Cardinality(E)
    BY <1>1, FS_RemoveElement
  <2> HIDE DEF f
  <2>8. Cardinality(F) <= Cardinality(E \ {k})
    BY <2>6, <2>7, FS_Injection
  <2>9. a = AddressOf[s] => k \in E
    BY <2>1, <2>5
  <2> QED BY <1>1, <2>2, <2>4, <2>7, <2>8, <2>9 DEF E, F
<1> QED BY <1>2, <1>3

\* The registered agents with one address are finitely many.
LEMMA AgentsAtFinite ==
  ASSUME StoreInv, NEW a
  PROVE  IsFiniteSet(AgentsAt(a)) /\ Cardinality(AgentsAt(a)) \in Nat
<1>1. AgentsAt(a) \in SUBSET Registered
  BY DEF AgentsAt
<1> QED BY <1>1, FS_Subset, FS_CardinalityType DEF StoreInv

\* A complete loop over the agent map collects no more entries than there are agents.
LEMMA ListingEntries ==
  ASSUME StoreInv, NEW list \in SpecListings, NEW a
  PROVE  Cardinality(Entries(list, a)) <= Cardinality(AgentsAt(a))
<1> DEFINE n == Cardinality(Registered)
<1>1. PICK order \in SetToSeqs(Registered) :
           /\ order \in [1..n -> Registered]
           /\ n \in Nat
           /\ list = [i \in 1..n |-> agentSpecs[order[i]]]
  BY ListingOrder
<1>2. \A i, j \in 1..n : i # j => order[i] # order[j]
  BY <1>1 DEF SetToSeqs
<1> HIDE DEF n
<1> DEFINE E == Entries(list, a)
           f == [i \in E |-> order[i]]
<1>3. E = {i \in 1..n : AddressOf[agentSpecs[order[i]]] = a}
  BY <1>1 DEF Entries
<1> HIDE DEF E
<1>4. f \in Injection(E, AgentsAt(a))
  <2>1. f \in [E -> AgentsAt(a)]
    BY <1>1, <1>3 DEF AgentsAt
  <2>2. \A i, j \in E : f[i] = f[j] => i = j
    BY <1>2, <1>3
  <2> QED BY <2>1, <2>2 DEF Injection, IsInjective
<1> HIDE DEF f
<1>5. Cardinality(E) <= Cardinality(AgentsAt(a))
  BY <1>4, AgentsAtFinite, FS_Injection
<1> QED BY <1>5 DEF E

\* No call of the manager leaves a list with more entries for an address than it
\* has agents.
LEMMA NoGhostsStep ==
  ASSUME StoreInv, NoGhosts, [ManagedNext]_storeVars
  PROVE  NoGhosts'
<1> DEFINE Bounded(g, a) ==
             Cardinality(Entries(agentLists'[g], a)) <= Cardinality(AgentsAt(a)')
<1>goal. (\A g \in generatorStatus', a \in Addresses : Bounded(g, a)) => NoGhosts'
  BY DEF NoGhosts
<1>t. /\ generatorStatus = generatorSpecs /\ generatorStatus \subseteq GeneratorUuids
      /\ agentLists \in [GeneratorUuids -> Seq(Specs)]
      /\ agentSpecs \in [Registered -> Specs]
  BY DEF StoreInv, TypeOK, KeysAgree
<1>now. \A g \in generatorStatus, a \in Addresses :
          /\ Cardinality(Entries(agentLists[g], a)) <= Cardinality(AgentsAt(a))
          /\ Cardinality(Entries(agentLists[g], a)) \in Nat
  BY <1>t, EntriesFinite DEF NoGhosts
<1>count. \A a : IsFiniteSet(AgentsAt(a)) /\ Cardinality(AgentsAt(a)) \in Nat
  BY AgentsAtFinite
<1>k. ASSUME UNCHANGED <<agentSpecs, agentLists>>, generatorStatus' \subseteq generatorStatus
      PROVE  NoGhosts'
  BY <1>k DEF NoGhosts, AgentsAt, Registered
<1>1. ASSUME NEW u \in AgentUuids, NEW s \in Specs, AddAgent(u, s) PROVE NoGhosts'
  <2>1. \A a : AgentsAt(a)' = IF a = AddressOf[s] THEN AgentsAt(a) \cup {u} ELSE AgentsAt(a)
    BY <1>1 DEF AddAgent, PutAgent, AgentsAt, Registered
  <2>2. \A a : u \notin AgentsAt(a)
    BY <1>1 DEF AddAgent, AgentsAt
  <2> SUFFICES ASSUME NEW g \in generatorStatus', NEW a \in Addresses PROVE Bounded(g, a)
    BY <1>goal
  <2>3. g \in generatorStatus /\ agentLists'[g] = AppendSpec(agentLists[g], s)
    BY <1>t, <1>1 DEF AddAgent, ChangeLists
  <2> DEFINE l == agentLists[g]
             A == AgentsAt(a)
  <2>4. /\ Cardinality(Entries(AppendSpec(l, s), a)) <= Cardinality(Entries(l, a)) + 1
        /\ a # AddressOf[s] => Entries(AppendSpec(l, s), a) = Entries(l, a)
        /\ AppendSpec(l, s) \in Seq(Specs)
    BY <1>t, <2>3, AppendEntries, AppendSpecType
  <2>5. Cardinality(Entries(AppendSpec(l, s), a)) \in Nat
    BY <2>4, EntriesFinite
  <2>6. Cardinality(Entries(l, a)) <= Cardinality(A) /\ Cardinality(Entries(l, a)) \in Nat
    BY <1>now, <2>3
  <2>7. IsFiniteSet(A) /\ Cardinality(A) \in Nat /\ u \notin A
    BY <1>count, <2>2
  <2> HIDE DEF A, l
  <2>8. CASE a = AddressOf[s]
    <3>1. Cardinality(A \cup {u}) = Cardinality(A) + 1
      BY <2>7, FS_AddElement
    <3>2. Cardinality(Entries(AppendSpec(l, s), a)) <= Cardinality(A \cup {u})
      BY <2>4, <2>5, <2>6, <2>7, <3>1
    <3> QED BY <2>1, <2>3, <2>8, <3>2 DEF A, l
  <2>9. CASE a # AddressOf[s]
    BY <2>1, <2>3, <2>4, <2>6, <2>9 DEF A, l
  <2> QED BY <2>8, <2>9
<1>2. ASSUME NEW u \in AgentUuids, RemoveAgent(u) PROVE NoGhosts'
  <2> DEFINE s == agentSpecs[u]
  <2>1. \A a : AgentsAt(a)' = IF a = AddressOf[s] THEN AgentsAt(a) \ {u} ELSE AgentsAt(a)
    BY <1>2 DEF RemoveAgent, Restrict, AgentsAt, Registered
  <2>2. u \in AgentsAt(AddressOf[s]) /\ s \in Specs
    BY <1>2, <1>t DEF RemoveAgent, AgentsAt
  <2> SUFFICES ASSUME NEW g \in generatorStatus', NEW a \in Addresses PROVE Bounded(g, a)
    BY <1>goal
  <2>3. g \in generatorStatus /\ agentLists'[g] = RemoveSpec(agentLists[g], s)
    BY <1>t, <1>2 DEF RemoveAgent, ChangeLists
  <2> HIDE DEF s
  <2> DEFINE l == agentLists[g]
             A == AgentsAt(a)
             c == Cardinality(Entries(RemoveSpec(l, s), a))
  <2>4. /\ c <= Cardinality(Entries(l, a))
        /\ a = AddressOf[s] => c = 0 \/ c <= Cardinality(Entries(l, a)) - 1
        /\ RemoveSpec(l, s) \in Seq(Specs)
    BY <1>t, <2>2, <2>3, RemoveEntries, RemoveSpecType
  <2>5. c \in Nat
    BY <2>4, EntriesFinite
  <2>6. Cardinality(Entries(l, a)) <= Cardinality(A) /\ Cardinality(Entries(l, a)) \in Nat
    BY <1>now, <2>3
  <2>7. IsFiniteSet(A) /\ Cardinality(A) \in Nat
    BY <1>count
  <2>8. Bounded(g, a) <=> c <= Cardinality(IF a = AddressOf[s] THEN A \ {u} ELSE A)
    BY <2>1, <2>3
  <2>a. a = AddressOf[s] => u \in A
    BY <2>2
  <2> HIDE DEF A, l, c, Bounded
  <2>9. CASE a = AddressOf[s]
    <3>1. Cardinality(A \ {u}) = Cardinality(A) - 1
      BY <2>7, <2>9, <2>a, FS_RemoveElement
    <3>2. IsFiniteSet(A \ {u}) /\ Cardinality(A \ {u}) \in Nat
      BY <2>7, FS_RemoveElement, FS_CardinalityType
    <3>3. c <= Cardinality(A \ {u})
      BY <2>4, <2>5, <2>6, <2>7, <2>9, <3>1, <3>2
    <3> QED BY <2>8, <2>9, <3>3
  <2>10. CASE a # AddressOf[s]
    <3>1. c <= Cardinality(A)
      BY <2>4, <2>5, <2>6, <2>7
    <3> QED BY <2>8, <2>10, <3>1
  <2> QED BY <2>9, <2>10
<1>3. ASSUME NEW u \in GeneratorUuids, AddGenerator(u) PROVE NoGhosts'
  <2> PICK list \in SpecListings : agentLists' = [agentLists EXCEPT ![u] = list]
    BY <1>3 DEF AddGenerator
  <2>1. \A a : AgentsAt(a)' = AgentsAt(a)
    BY <1>3 DEF AddGenerator, agentVars, AgentsAt, Registered
  <2> SUFFICES ASSUME NEW g \in generatorStatus', NEW a \in Addresses PROVE Bounded(g, a)
    BY <1>goal
  <2>2. CASE g = u
    BY <1>t, <2>1, <2>2, ListingEntries
  <2>3. CASE g # u
    <3>1. g \in generatorStatus /\ agentLists'[g] = agentLists[g]
      BY <1>t, <1>3, <2>3 DEF AddGenerator
    <3> QED BY <1>now, <2>1, <3>1
  <2> QED BY <2>2, <2>3
<1>4. ASSUME NEW u \in GeneratorUuids, RemoveGenerator(u) PROVE NoGhosts'
  BY <1>4, <1>k DEF RemoveGenerator, agentVars
<1>5. GetDirtyAgentUuids \/ GetDirtyGeneratorUuids \/ UNCHANGED storeVars => NoGhosts'
  BY <1>k DEF GetDirtyAgentUuids, GetDirtyGeneratorUuids, storeVars, agentVars, generatorVars
<1>6. NewComponentStore => NoGhosts'
  BY DEF NewComponentStore, NoGhosts
<1>7. ManagedNext => NoGhosts'
  BY <1>1, <1>2, <1>3, <1>4, <1>5, <1>6 DEF ManagedNext, JoinedAgent
<1> QED BY <1>5, <1>7

\* As the manager uses the store, restarts included, and however many agents share an
\* address, no list has more entries for an address than agents are registered there.
THEOREM ManagedNeverGhosts == ManagedSpec => []NoGhosts
<1>1. Init => NoGhosts
  BY DEF Init, NoGhosts
<1>2. StoreInv /\ NoGhosts /\ [ManagedNext]_storeVars => NoGhosts'
  BY NoGhostsStep
<1> QED BY <1>1, <1>2, InitInv, ManagedInv, PTL DEF ManagedSpec
=============================================================================
