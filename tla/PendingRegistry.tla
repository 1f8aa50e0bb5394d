--------------------------- MODULE PendingRegistry ---------------------------
(***************************************************************************)
(* The pending-restore registry as a value: an OrderedDict from canonical  *)
(* keys to staged entries, and a dict of aliases from conversation ids to  *)
(* canonical keys.  Every operator below is what one handler does to that  *)
(* value; PendingRestore and RestoreScheduler make state machines of them. *)
(*                                                                         *)
(* A rid and a conversation id are both client-chosen strings, so one set  *)
(* Id holds both and they may collide.  NoId is Python's None: a restore   *)
(* may carry no rid, and a request may carry no conversation id.           *)
(***************************************************************************)
EXTENDS Integers, FiniteSets

CONSTANTS
    Id,      \* the strings used as rids and as conversation ids
    NoId,    \* None
    Snap,    \* the snapshot contents that can be staged
    MaxEntries  \* PENDING_RESTORE_REGISTRY_MAX

ASSUME NoIdAssumption == NoId \notin Id
ASSUME MaxEntriesAssumption == MaxEntries \in Nat \ {0}

(***************************************************************************)
(* p.entry : canonical key -> what is staged under it                      *)
(* p.older : the order of the OrderedDict, as the pairs <<a, b>> with a    *)
(*           nearer to the front than b                                    *)
(* p.alias : conversation id -> canonical key                              *)
(***************************************************************************)
Key == Id \cup {NoId}
Entry == [conv : Id, snap : Snap]

Keys(p) == DOMAIN p.entry

Empty == [entry |-> [k \in {} |-> {}], older |-> {}, alias |-> [a \in {} |-> NoId]]

\* Mutant: an eviction that forgets the aliases.
DropKeepsAliases(p, S) ==
    [entry |-> [k \in Keys(p) \ S |-> p.entry[k]],
     older |-> {e \in p.older : e[1] \notin S /\ e[2] \notin S},
     alias |-> p.alias]

\* Pop the keys S, and delete every alias whose target is one of them.
Drop(p, S) ==
    [entry |-> [k \in Keys(p) \ S |-> p.entry[k]],
     older |-> {e \in p.older : e[1] \notin S /\ e[2] \notin S},
     alias |-> [a \in {b \in DOMAIN p.alias : p.alias[b] \notin S} |-> p.alias[a]]]

\* Insert a key the dict does not hold: it goes to the end of the order.
Insert(p, k, e) ==
    [entry |-> [j \in Keys(p) \cup {k} |-> IF j = k THEN e ELSE p.entry[j]],
     older |-> p.older \cup {<<j, k>> : j \in Keys(p)},
     alias |-> p.alias]

\* Mutant: a hit that does not renew its entry.
NoMove(p, k) == p

\* OrderedDict.move_to_end.
MoveToEnd(p, k) ==
    [entry |-> p.entry,
     older |-> {e \in p.older : e[1] # k /\ e[2] # k} \cup {<<j, k>> : j \in Keys(p) \ {k}},
     alias |-> p.alias]

\* Mutant: aliases.setdefault in place of the assignment.
SetAliasIfAbsent(p, a, k) ==
    [entry |-> p.entry,
     older |-> p.older,
     alias |-> [b \in DOMAIN p.alias \cup {a} |-> IF b \in DOMAIN p.alias THEN p.alias[b] ELSE k]]

\* aliases[a] = k
SetAlias(p, a, k) ==
    [entry |-> p.entry,
     older |-> p.older,
     alias |-> [b \in DOMAIN p.alias \cup {a} |-> IF b = a THEN k ELSE p.alias[b]]]

\* aliases.get(a), as a set: empty when the alias is not there.
Target(p, a) == IF a \in DOMAIN p.alias THEN {p.alias[a]} ELSE {}

Oldest(p) == {k \in Keys(p) : \A j \in Keys(p) \ {k} : <<k, j>> \in p.older}

\* Mutants: the bound one too high, and one too low.
EvictLate(p) == IF Cardinality(Keys(p)) > MaxEntries + 1 THEN Drop(p, Oldest(p)) ELSE p
EvictEarly(p) == IF Cardinality(Keys(p)) >= MaxEntries THEN Drop(p, Oldest(p)) ELSE p

\* The loop that bounds the registry.  Staging adds one key to at most
\* MaxEntries of them, so the loop body runs at most once.
EvictOldest(p) ==
    IF Cardinality(Keys(p)) > MaxEntries THEN Drop(p, Oldest(p)) ELSE p

\* Mutant: the entry that held the conversation before is left in place.
OldOwnerKept(p, rid, conv) == {}

\* The canonical keys conv still stands for once rid has been inserted.
\* A target of None is taken for "no target" by the code.
OldOwner(p, rid, conv) == Target(p, conv) \ {NoId, rid}

LinkConversation(p, rid, conv) ==
    IF conv = rid
    THEN p
    ELSE LET q == Drop(p, Keys(p) \cap {conv})
         IN  SetAlias(Drop(q, OldOwner(q, rid, conv)), conv, rid)

Staged(p, rid, conv, snap) ==
    LET p1 == Drop(p, {rid})
        p2 == Drop(p1, Target(p1, rid))
        p3 == Insert(p2, rid, [conv |-> conv, snap |-> snap])
    IN  EvictOldest(LinkConversation(p3, rid, conv))

\* The entry a live restore of (rid, conv) clears.
ClearTarget(p, rid, conv) ==
    IF rid \in Keys(p) THEN {rid} ELSE (Target(p, conv) \ {NoId}) \cap Keys(p)

\* The entry a request with this rid and conversation id hydrates from.
Lookup(p, rid, conv) ==
    IF rid \in Keys(p)
    THEN {rid}
    ELSE IF conv = NoId \/ conv = rid
         THEN {}
         ELSE (Target(p, conv) \ {NoId}) \cap Keys(p)

\* Mutant: the request keeps the conversation id it came with.
KeepsOwnConversation(p, rid, conv, k) == IF conv = NoId THEN p.entry[k].conv ELSE conv

\* The conversation id the request carries once it has been hydrated.
HydratedConversation(p, rid, conv, k) ==
    IF conv = NoId \/ rid \in Keys(p) THEN p.entry[k].conv ELSE conv

\* The order of the dict: among any of the keys one is the oldest.
Ordered(p) ==
    /\ p.older \subseteq Keys(p) \X Keys(p)
    /\ \A j, k \in Keys(p) : <<j, k>> \in p.older => <<k, j>> \notin p.older
    /\ \A S \in SUBSET Keys(p) : S # {} => \E k \in S : \A j \in S \ {k} : <<k, j>> \in p.older

WellTyped(p) ==
    /\ Keys(p) \subseteq Key
    /\ p.entry \in [Keys(p) -> Entry]
    /\ DOMAIN p.alias \subseteq Id
    /\ p.alias \in [DOMAIN p.alias -> Key]
    /\ IsFiniteSet(Keys(p))
    /\ Ordered(p)

AliasesLead(p) ==
    \A a \in DOMAIN p.alias :
        /\ a \notin Keys(p)
        /\ p.alias[a] \in Keys(p)
        /\ p.entry[p.alias[a]].conv = a
=============================================================================
