----------------------- MODULE PendingRegistryProofs -----------------------
(***************************************************************************)
(* What the operations of the pending-restore registry keep, for every set *)
(* of identifiers and every bound: the lemmas follow the registry value    *)
(* through the pops and insertions one staging makes.                      *)
(***************************************************************************)
EXTENDS PendingRegistry, FiniteSetTheorems, TLAPS

\* Every entry but those of X is the target of its conversation's alias.
Linked(p, X) ==
    \A k \in Keys(p) \ (X \cup {NoId}) :
        p.entry[k].conv # k => /\ p.entry[k].conv \in DOMAIN p.alias
                               /\ p.alias[p.entry[k].conv] = k

Good(p, X) == WellTyped(p) /\ AliasesLead(p) /\ Linked(p, X)

-----------------------------------------------------------------------------
\* What Drop leaves in each field.
LEMMA DropFields ==
    ASSUME NEW p, NEW S
    PROVE  /\ Keys(Drop(p, S)) = Keys(p) \ S
           /\ \A k \in Keys(p) \ S : Drop(p, S).entry[k] = p.entry[k]
           /\ Drop(p, S).older = {e \in p.older : e[1] \notin S /\ e[2] \notin S}
           /\ DOMAIN Drop(p, S).alias = {b \in DOMAIN p.alias : p.alias[b] \notin S}
           /\ \A a \in DOMAIN Drop(p, S).alias : Drop(p, S).alias[a] = p.alias[a]
    BY DEF Drop, Keys

\* Popping keys together with their aliases keeps the order of the others.
LEMMA DropOrdered ==
    ASSUME NEW p, NEW S, Ordered(p)
    PROVE  Ordered(Drop(p, S))
  <1> DEFINE q == Drop(p, S)
  <1>1. /\ Keys(q) = Keys(p) \ S
        /\ q.older = {e \in p.older : e[1] \notin S /\ e[2] \notin S}
    BY DropFields
  <1>2. q.older \subseteq Keys(q) \X Keys(q)
    BY <1>1 DEF Ordered
  <1>3. \A j, k \in Keys(q) : <<j, k>> \in q.older => <<k, j>> \notin q.older
    BY <1>1 DEF Ordered
  <1>4. ASSUME NEW T \in SUBSET Keys(q), T # {}
        PROVE  \E k \in T : \A j \in T \ {k} : <<k, j>> \in q.older
    <2>1. PICK k \in T : \A j \in T \ {k} : <<k, j>> \in p.older
      BY <1>1, <1>4 DEF Ordered
    <2>2. \A j \in T \ {k} : <<k, j>> \in q.older
      BY <1>1, <2>1
    <2> QED  BY <2>2
  <1> QED  BY <1>2, <1>3, <1>4 DEF Ordered

\* Popping keys together with their aliases keeps the registry good.
LEMMA DropGood ==
    ASSUME NEW p, NEW S, NEW X, Good(p, X)
    PROVE  Good(Drop(p, S), X)
  <1> DEFINE q == Drop(p, S)
  <1>1. /\ Keys(q) = Keys(p) \ S
        /\ \A k \in Keys(p) \ S : q.entry[k] = p.entry[k]
        /\ DOMAIN q.alias = {b \in DOMAIN p.alias : p.alias[b] \notin S}
        /\ \A a \in DOMAIN q.alias : q.alias[a] = p.alias[a]
    BY DropFields
  <1>2. WellTyped(q)
    <2>1. Ordered(q)
      BY DropOrdered DEF Good, WellTyped
    <2>2. IsFiniteSet(Keys(q))
      BY <1>1, FS_Subset DEF Good, WellTyped
    <2>3. q.entry \in [Keys(q) -> Entry]
      BY DEF Drop, Keys, Good, WellTyped
    <2>4. q.alias \in [DOMAIN q.alias -> Key] /\ DOMAIN q.alias \subseteq Id
      BY DEF Drop, Keys, Good, WellTyped
    <2> QED  BY <1>1, <2>1, <2>2, <2>3, <2>4 DEF Good, WellTyped
  <1>3. AliasesLead(q)
    BY <1>1 DEF Good, AliasesLead
  <1>4. Linked(q, X)
    BY <1>1 DEF Good, Linked
  <1> QED  BY <1>2, <1>3, <1>4 DEF Good

\* Appending a key that is neither held nor an alias: only the new entry may
\* still lack its alias.
LEMMA InsertGood ==
    ASSUME NEW p, NEW k \in Key, NEW e \in Entry, Good(p, {}),
           k \notin Keys(p), k \notin DOMAIN p.alias
    PROVE  Good(Insert(p, k, e), {k})
  <1> DEFINE q == Insert(p, k, e)
  <1>1. /\ Keys(q) = Keys(p) \cup {k}
        /\ q.entry[k] = e
        /\ \A j \in Keys(p) : q.entry[j] = p.entry[j]
        /\ q.older = p.older \cup {<<j, k>> : j \in Keys(p)}
        /\ q.alias = p.alias
    BY DEF Insert, Keys
  <1>2. Ordered(q)
    <2>1. q.older \subseteq Keys(q) \X Keys(q)
      BY <1>1 DEF Good, WellTyped, Ordered
    <2>2. \A i, j \in Keys(q) : <<i, j>> \in q.older => <<j, i>> \notin q.older
      BY <1>1 DEF Good, WellTyped, Ordered
    <2>3. ASSUME NEW T \in SUBSET Keys(q), T # {}
          PROVE  \E i \in T : \A j \in T \ {i} : <<i, j>> \in q.older
      <3>1. CASE T = {k}
        BY <3>1
      <3>2. CASE T # {k}
        <4>1. T \ {k} \in SUBSET Keys(p) /\ T \ {k} # {}
          BY <1>1, <2>3, <3>2
        <4>2. PICK i \in T \ {k} : \A j \in (T \ {k}) \ {i} : <<i, j>> \in p.older
          BY <4>1 DEF Good, WellTyped, Ordered
        <4>3. \A j \in T \ {i} : <<i, j>> \in q.older
          BY <1>1, <4>1, <4>2
        <4> QED  BY <4>3
      <3> QED  BY <3>1, <3>2
    <2> QED  BY <2>1, <2>2, <2>3 DEF Ordered
  <1>3. WellTyped(q)
    <2>1. IsFiniteSet(Keys(q))
      BY <1>1, FS_AddElement DEF Good, WellTyped
    <2>2. q.entry \in [Keys(q) -> Entry]
      BY DEF Insert, Keys, Good, WellTyped
    <2> QED  BY <1>1, <1>2, <2>1, <2>2 DEF Good, WellTyped
  <1>4. AliasesLead(q)
    BY <1>1 DEF Good, AliasesLead
  <1>5. Linked(q, {k})
    BY <1>1 DEF Good, Linked
  <1> QED  BY <1>3, <1>4, <1>5 DEF Good

\* Moving a key to the end keeps the order total.
LEMMA MoveToEndGood ==
    ASSUME NEW p, NEW k \in Keys(p), Good(p, {})
    PROVE  Good(MoveToEnd(p, k), {})
  <1> DEFINE q == MoveToEnd(p, k)
  <1>1. /\ q.entry = p.entry /\ Keys(q) = Keys(p)
        /\ q.older = {e \in p.older : e[1] # k /\ e[2] # k} \cup {<<j, k>> : j \in Keys(p) \ {k}}
        /\ q.alias = p.alias
    BY DEF MoveToEnd, Keys
  <1>2. Ordered(q)
    <2>1. q.older \subseteq Keys(q) \X Keys(q)
      BY <1>1 DEF Good, WellTyped, Ordered
    <2>2. \A i, j \in Keys(q) : <<i, j>> \in q.older => <<j, i>> \notin q.older
      BY <1>1 DEF Good, WellTyped, Ordered
    <2>3. ASSUME NEW T \in SUBSET Keys(q), T # {}
          PROVE  \E i \in T : \A j \in T \ {i} : <<i, j>> \in q.older
      <3>1. CASE T = {k}
        BY <3>1
      <3>2. CASE T # {k}
        <4>1. T \ {k} \in SUBSET Keys(p) /\ T \ {k} # {}
          BY <1>1, <2>3, <3>2
        <4>2. PICK i \in T \ {k} : \A j \in (T \ {k}) \ {i} : <<i, j>> \in p.older
          BY <4>1 DEF Good, WellTyped, Ordered
        <4>3. \A j \in T \ {i} : <<i, j>> \in q.older
          BY <1>1, <4>1, <4>2
        <4> QED  BY <4>3
      <3> QED  BY <3>1, <3>2
    <2> QED  BY <2>1, <2>2, <2>3 DEF Ordered
  <1>3. WellTyped(q)
    BY <1>1, <1>2 DEF Good, WellTyped
  <1>4. AliasesLead(q) /\ Linked(q, {})
    BY <1>1 DEF Good, AliasesLead, Linked
  <1> QED  BY <1>3, <1>4 DEF Good

\* Giving the entry of rid its alias completes the registry, once whatever else
\* conv stood for has been popped.
LEMMA SetAliasGood ==
    ASSUME NEW p, NEW rid \in Keys(p), NEW conv \in Id \ Keys(p), Good(p, {rid}),
           p.entry[rid].conv = conv, Target(p, conv) \subseteq {NoId, rid}
    PROVE  Good(SetAlias(p, conv, rid), {})
  <1> DEFINE q == SetAlias(p, conv, rid)
  <1>1. /\ q.entry = p.entry /\ Keys(q) = Keys(p) /\ q.older = p.older
        /\ DOMAIN q.alias = DOMAIN p.alias \cup {conv}
        /\ q.alias[conv] = rid
        /\ \A a \in DOMAIN p.alias \ {conv} : q.alias[a] = p.alias[a]
    BY DEF SetAlias, Keys
  <1>2. WellTyped(q)
    <2>1. q.alias \in [DOMAIN q.alias -> Key]
      BY DEF SetAlias, Good, WellTyped
    <2>2. Ordered(q)
      BY <1>1 DEF Good, WellTyped, Ordered
    <2> QED  BY <1>1, <2>1, <2>2 DEF Good, WellTyped
  <1>3. AliasesLead(q)
    BY <1>1 DEF Good, AliasesLead
  <1>4. Linked(q, {})
    BY <1>1 DEF Good, Linked, Target
  <1> QED  BY <1>2, <1>3, <1>4 DEF Good

\* Linking a fresh entry to its conversation.  Only the entry stored under conv
\* and the one conv was an alias of are popped on the way.
LEMMA LinkGood ==
    ASSUME NEW p, NEW rid \in Keys(p), NEW conv \in Id, Good(p, {rid}),
           p.entry[rid].conv = conv
    PROVE  LET q == LinkConversation(p, rid, conv)
           IN  /\ Good(q, {})
               /\ rid \in Keys(q) /\ Keys(q) \subseteq Keys(p)
               /\ \A k \in Keys(q) : q.entry[k] = p.entry[k]
               /\ q.older \subseteq p.older
               /\ \A k \in Keys(p) : k # conv /\ p.entry[k].conv # conv => k \in Keys(q)
  <1>1. CASE conv = rid
    <2>1. LinkConversation(p, rid, conv) = p
      BY <1>1 DEF LinkConversation
    <2>2. Linked(p, {})
      BY <1>1 DEF Good, Linked
    <2> QED  BY <2>1, <2>2 DEF Good
  <1>2. CASE conv # rid
    <2> DEFINE q1 == Drop(p, Keys(p) \cap {conv})
               q2 == Drop(q1, OldOwner(q1, rid, conv))
    <2>1. Good(q1, {rid}) /\ Good(q2, {rid})
      BY DropGood
    <2>2. /\ Keys(q1) = Keys(p) \ {conv}
          /\ \A k \in Keys(q1) : q1.entry[k] = p.entry[k]
          /\ q1.older \subseteq p.older
      BY DropFields
    <2>3. /\ Keys(q2) = Keys(q1) \ OldOwner(q1, rid, conv)
          /\ \A k \in Keys(q2) : q2.entry[k] = q1.entry[k]
          /\ q2.older \subseteq q1.older
          /\ DOMAIN q2.alias = {b \in DOMAIN q1.alias : q1.alias[b] \notin OldOwner(q1, rid, conv)}
          /\ \A a \in DOMAIN q2.alias : q2.alias[a] = q1.alias[a]
      BY DropFields
    <2>4. LinkConversation(p, rid, conv) = SetAlias(q2, conv, rid)
      BY <1>2 DEF LinkConversation
    <2> HIDE DEF q1, q2
    <2>5. Target(q2, conv) \subseteq {NoId, rid}
      BY <2>3 DEF Target, OldOwner
    <2>6. rid \in Keys(q2) /\ conv \in Id \ Keys(q2) /\ q2.entry[rid].conv = conv
      BY <1>2, <2>2, <2>3 DEF OldOwner
    <2>7. \A k \in OldOwner(q1, rid, conv) : k \in Keys(p) /\ p.entry[k].conv = conv
      BY <2>1, <2>2 DEF OldOwner, Target, Good, AliasesLead
    <2>8. Good(SetAlias(q2, conv, rid), {})
      BY <2>1, <2>5, <2>6, SetAliasGood
    <2>9. /\ Keys(SetAlias(q2, conv, rid)) = Keys(q2)
          /\ SetAlias(q2, conv, rid).entry = q2.entry
          /\ SetAlias(q2, conv, rid).older = q2.older
      BY DEF SetAlias, Keys
    <2> QED  BY <2>2, <2>3, <2>6, <2>7, <2>4, <2>8, <2>9
  <1> QED  BY <1>1, <1>2
\* Evicting the oldest entry brings a registry that is one over the bound back
\* to it, because among the keys one is the oldest.
LEMMA EvictOldestBounded ==
    ASSUME NEW p, WellTyped(p), Cardinality(Keys(p)) <= MaxEntries + 1
    PROVE  Cardinality(Keys(EvictOldest(p))) <= MaxEntries
  <1> DEFINE n == Cardinality(Keys(p))
  <1>0. n \in Nat /\ IsFiniteSet(Keys(p))
    BY FS_CardinalityType DEF WellTyped
  <1>1. CASE n <= MaxEntries
    BY <1>0, <1>1, MaxEntriesAssumption DEF EvictOldest
  <1>2. CASE n > MaxEntries
    <2>1. EvictOldest(p) = Drop(p, Oldest(p))
      BY <1>2 DEF EvictOldest
    <2>2. Keys(p) # {}
      BY <1>2, FS_EmptySet, MaxEntriesAssumption
    <2>3. PICK k \in Keys(p) : k \in Oldest(p)
      BY <2>2 DEF WellTyped, Ordered, Oldest
    <2>4. Keys(EvictOldest(p)) \subseteq Keys(p) \ {k}
      BY <2>1, <2>3, DropFields
    <2>5. IsFiniteSet(Keys(p) \ {k}) /\ Cardinality(Keys(p) \ {k}) = n - 1
      BY <1>0, FS_RemoveElement
    <2>6. /\ Cardinality(Keys(EvictOldest(p))) <= n - 1
          /\ Cardinality(Keys(EvictOldest(p))) \in Nat
      BY <2>4, <2>5, FS_Subset, FS_CardinalityType
    <2> QED  BY <1>0, <2>6, MaxEntriesAssumption
  <1> QED  BY <1>0, <1>1, <1>2, MaxEntriesAssumption

\* One staging, up to the eviction for capacity: the registry is good again, it
\* has grown by at most one key, and only related entries have been popped.
LEMMA StagedBeforeEviction ==
    ASSUME NEW p, NEW rid \in Key, NEW conv \in Id, NEW snap \in Snap, Good(p, {}),
           Cardinality(Keys(p)) <= MaxEntries
    PROVE  \E q : /\ Staged(p, rid, conv, snap) = EvictOldest(q)
                  /\ Good(q, {})
                  /\ Cardinality(Keys(q)) <= MaxEntries + 1
                  /\ rid \in Keys(q) /\ Keys(q) \subseteq Keys(p) \cup {rid}
                  /\ q.entry[rid] = [conv |-> conv, snap |-> snap]
                  /\ \A k \in Keys(q) \ {rid} : q.entry[k] = p.entry[k]
                  /\ q.older \subseteq p.older \cup (Key \X {rid})
                  /\ \A k \in Keys(p) :
                        {k, p.entry[k].conv} \cap {rid, conv} = {} => k \in Keys(q)
  <1> DEFINE p1 == Drop(p, {rid})
             p2 == Drop(p1, Target(p1, rid))
             e == [conv |-> conv, snap |-> snap]
             p3 == Insert(p2, rid, e)
             q == LinkConversation(p3, rid, conv)
  <1>1. Staged(p, rid, conv, snap) = EvictOldest(q)
    BY DEF Staged
  <1>2. Good(p1, {}) /\ Good(p2, {})
    BY DropGood
  <1>3. /\ Keys(p1) = Keys(p) \ {rid}
        /\ \A k \in Keys(p1) : p1.entry[k] = p.entry[k]
        /\ p1.older \subseteq p.older
    BY DropFields
  <1>4. /\ Keys(p2) = Keys(p1) \ Target(p1, rid)
        /\ \A k \in Keys(p2) : p2.entry[k] = p1.entry[k]
        /\ p2.older \subseteq p1.older
        /\ DOMAIN p2.alias = {b \in DOMAIN p1.alias : p1.alias[b] \notin Target(p1, rid)}
    BY DropFields
  <1>5. e \in Entry /\ e.conv = conv
    BY DEF Entry
  <1>6. /\ Keys(p3) = Keys(p2) \cup {rid}
        /\ p3.entry[rid] = e
        /\ \A k \in Keys(p2) \ {rid} : p3.entry[k] = p2.entry[k]
        /\ p3.older = p2.older \cup {<<j, rid>> : j \in Keys(p2)}
    BY DEF Insert, Keys
  <1> HIDE DEF p1, p2, e, p3
  <1>7. rid \notin Keys(p2) /\ rid \notin DOMAIN p2.alias
    BY <1>3, <1>4 DEF Target
  <1>8. Good(p3, {rid})
    BY <1>2, <1>5, <1>7, InsertGood DEF p3
  <1>9. /\ Good(q, {})
        /\ rid \in Keys(q) /\ Keys(q) \subseteq Keys(p3)
        /\ \A k \in Keys(q) : q.entry[k] = p3.entry[k]
        /\ q.older \subseteq p3.older
        /\ \A k \in Keys(p3) : k # conv /\ p3.entry[k].conv # conv => k \in Keys(q)
    BY <1>5, <1>6, <1>8, LinkGood
  <1> HIDE DEF q
  <1>10. Cardinality(Keys(q)) <= MaxEntries + 1
    <2>1. /\ IsFiniteSet(Keys(p)) /\ IsFiniteSet(Keys(p2)) /\ IsFiniteSet(Keys(p3))
      BY <1>2, <1>8 DEF Good, WellTyped
    <2>2. Keys(p2) \subseteq Keys(p)
      BY <1>3, <1>4
    <2>3. Cardinality(Keys(p2)) <= Cardinality(Keys(p))
      BY <2>1, <2>2, FS_Subset
    <2>4. Cardinality(Keys(p3)) = Cardinality(Keys(p2)) + 1
      BY <2>1, <1>6, <1>7, FS_AddElement
    <2>5. Cardinality(Keys(q)) <= Cardinality(Keys(p3)) /\ IsFiniteSet(Keys(q))
      BY <2>1, <1>9, FS_Subset
    <2>6. /\ Cardinality(Keys(p)) \in Nat /\ Cardinality(Keys(p2)) \in Nat
          /\ Cardinality(Keys(q)) \in Nat
      BY <2>1, <2>5, FS_CardinalityType
    <2> QED  BY <2>3, <2>4, <2>5, <2>6, MaxEntriesAssumption
  <1>11. Keys(q) \subseteq Keys(p) \cup {rid}
    BY <1>3, <1>4, <1>6, <1>9
  <1>12. \A k \in Keys(q) \ {rid} : q.entry[k] = p.entry[k]
    BY <1>3, <1>4, <1>6, <1>9
  <1>a. q.entry[rid] = [conv |-> conv, snap |-> snap]
    BY <1>6, <1>9 DEF e
  <1>13. q.older \subseteq p.older \cup (Key \X {rid})
    BY <1>2, <1>3, <1>4, <1>6, <1>9 DEF Good, WellTyped
  <1>14. ASSUME NEW k \in Keys(p), {k, p.entry[k].conv} \cap {rid, conv} = {}
         PROVE  k \in Keys(q)
    <2>1. k # rid /\ k # conv /\ p.entry[k].conv # rid /\ p.entry[k].conv # conv
      BY <1>14
    <2>2. k \in Keys(p1) /\ p1.entry[k] = p.entry[k]
      BY <1>3, <2>1
    <2>3. k \notin Target(p1, rid)
      BY <1>2, <2>1, <2>2 DEF Target, Good, AliasesLead
    <2> QED  BY <1>4, <1>6, <1>9, <2>1, <2>2, <2>3
  <1> QED  BY <1>1, <1>9, <1>10, <1>11, <1>12, <1>13, <1>14, <1>a

\* One whole staging keeps the registry good and within its bound.
LEMMA StagedGood ==
    ASSUME NEW p, NEW rid \in Key, NEW conv \in Id, NEW snap \in Snap, Good(p, {}),
           Cardinality(Keys(p)) <= MaxEntries
    PROVE  /\ Good(Staged(p, rid, conv, snap), {})
           /\ Cardinality(Keys(Staged(p, rid, conv, snap))) <= MaxEntries
           /\ \A k \in Keys(Staged(p, rid, conv, snap)) :
                \/ k \in Keys(p) /\ Staged(p, rid, conv, snap).entry[k] = p.entry[k]
                \/ Staged(p, rid, conv, snap).entry[k] = [conv |-> conv, snap |-> snap]
  <1>1. PICK q : /\ Staged(p, rid, conv, snap) = EvictOldest(q)
                 /\ Good(q, {})
                 /\ Cardinality(Keys(q)) <= MaxEntries + 1
                 /\ Keys(q) \subseteq Keys(p) \cup {rid}
                 /\ q.entry[rid] = [conv |-> conv, snap |-> snap]
                 /\ \A k \in Keys(q) \ {rid} : q.entry[k] = p.entry[k]
    BY StagedBeforeEviction
  <1>2. Good(EvictOldest(q), {})
    BY <1>1, DropGood DEF EvictOldest
  <1>3. Cardinality(Keys(EvictOldest(q))) <= MaxEntries
    BY <1>1, EvictOldestBounded DEF Good
  <1>4. /\ Keys(EvictOldest(q)) \subseteq Keys(q)
        /\ \A k \in Keys(EvictOldest(q)) : EvictOldest(q).entry[k] = q.entry[k]
    BY DropFields DEF EvictOldest
  <1>5. \A k \in Keys(EvictOldest(q)) :
            \/ k \in Keys(p) /\ EvictOldest(q).entry[k] = p.entry[k]
            \/ EvictOldest(q).entry[k] = [conv |-> conv, snap |-> snap]
    BY <1>1, <1>4
  <1> QED  BY <1>1, <1>2, <1>3, <1>5

\* Whatever a request hydrates from is a staged entry under a real rid, and the
\* request ends up with the conversation id of that entry.
LEMMA LookupHit ==
    ASSUME NEW p, Good(p, {}), NEW rid \in Id, NEW conv \in Key,
           NEW k \in Lookup(p, rid, conv)
    PROVE  /\ k \in Keys(p) /\ k \in Id
           /\ HydratedConversation(p, rid, conv, k) \in Id
           /\ p.entry[k].conv = HydratedConversation(p, rid, conv, k)
  <1>1. k \in Keys(p) /\ k \in Id
    BY DEF Lookup, Target, Good, WellTyped, Key
  <1>2. p.entry[k] \in Entry /\ p.entry[k].conv \in Id
    BY <1>1 DEF Good, WellTyped, Entry
  <1>3. CASE conv = NoId \/ rid \in Keys(p)
    BY <1>1, <1>2, <1>3 DEF HydratedConversation
  <1>4. CASE ~(conv = NoId \/ rid \in Keys(p))
    <2>1. conv \in DOMAIN p.alias /\ p.alias[conv] = k
      BY <1>4 DEF Lookup, Target
    <2>2. p.entry[k].conv = conv
      BY <2>1 DEF Good, AliasesLead
    <2> QED  BY <1>1, <1>2, <1>4, <2>2 DEF HydratedConversation
  <1> QED  BY <1>3, <1>4

\* An empty registry is good.
LEMMA EmptyGood == Good(Empty, {}) /\ Cardinality(Keys(Empty)) <= MaxEntries
  <1>1. /\ Keys(Empty) = {} /\ Empty.older = {} /\ DOMAIN Empty.alias = {}
        /\ Empty.entry \in [{} -> Entry] /\ Empty.alias \in [{} -> Key]
    BY DEF Empty, Keys
  <1>2. IsFiniteSet({}) /\ Cardinality({}) = 0
    BY FS_EmptySet
  <1>3. WellTyped(Empty)
    BY <1>1, <1>2 DEF WellTyped, Ordered
  <1>4. AliasesLead(Empty) /\ Linked(Empty, {})
    BY <1>1 DEF AliasesLead, Linked
  <1> QED  BY <1>1, <1>2, <1>3, <1>4, MaxEntriesAssumption DEF Good
=============================================================================
