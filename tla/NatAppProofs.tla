------------------------------ MODULE NatAppProofs ------------------------------
(***************************************************************************)
(* For every set of connections, clients and handles and every size of the *)
(* arrays: the cache of NatApp, the entries that wait for their client and *)
(* the rules in the hardware agree, whatever the library refuses and in    *)
(* whichever order the WAN, the clients and the connections change.        *)
(***************************************************************************)
EXTENDS NatApp, Integers, FiniteSetTheorems, WellFoundedInduction, TLAPS

\* Each enabled entry of the cache ca has its rule in the hardware, under a handle of
\* its own, and the hardware holds no other rule.
Linked(ca, he) ==
    /\ \A k \in CacheSlots : ca[k].enabled =>
         ca[k].rule # NoRule /\ ca[k].hdl \in Handles /\ he[ca[k].hdl] = ca[k].rule
    /\ \A h \in Handles : he[h] # NoRule => \E k \in CacheSlots : ca[k].enabled /\ ca[k].hdl = h
    /\ \A i, j \in CacheSlots : ca[i].enabled /\ ca[j].enabled /\ ca[i].hdl = ca[j].hdl => i = j

Distinct(ca) ==
    \A i, j \in CacheSlots :
      ca[i].rule # NoRule /\ ca[j].rule # NoRule /\ SameTuple(ca[i].rule, ca[j].rule) => i = j

\* The cache, its count and the library's rules he agree; tbl is the handle of the
\* hardware table, without which no entry is enabled.
CacheOK(ca, he, cnt, tbl) ==
    /\ ca \in [CacheSlots -> Entries] /\ he \in [Handles -> Rules \cup {NoRule}]
    /\ cnt = max_entries - Cardinality(FreeSlots(ca))
    /\ Linked(ca, he)
    /\ Distinct(ca)
    /\ tbl = 0 => \A k \in CacheSlots : ~ca[k].enabled

\* A rule made for a connection of a NAT client carries that client's address, and
\* the connection is not over.
Own(r, over) == src[r.conn] \in Clients => r.private_ip = src[r.conn] /\ r.conn \notin over

\* The rules in the cache ca and in the array te are such; te has one slot for each
\* of these connections.
ConnsOK(ca, te, over) ==
    /\ te \in [TempSlots -> Rules \cup {NoRule}]
    /\ \A k \in CacheSlots : ca[k].rule # NoRule => Own(ca[k].rule, over)
    /\ \A k \in TempSlots : te[k] # NoRule => Own(te[k], over)
    /\ \A i, j \in TempSlots :
         te[i] # NoRule /\ te[j] # NoRule /\ te[i].conn = te[j].conn /\ src[te[i].conn] \in Clients => i = j

-----------------------------------------------------------------------------
(* Searching and counting *)

\* A set of naturals that is not empty has a least element.
LEMMA LeastNumber ==
    ASSUME NEW T \in SUBSET Nat, T # {}
    PROVE  \E x \in T : \A y \in T : x <= y
  <1> DEFINE R == OpToRel(<, Nat)
  <1>1. IsWellFoundedOn(R, Nat)
    BY NatLessThanWellFounded
  <1>2. \A y, x \in Nat : <<y, x>> \in R <=> y < x
    BY DEF OpToRel
  <1> HIDE DEF R
  <1>3. PICK x \in T : \A y \in T : ~ (<<y, x>> \in R)
    BY <1>1, WFMin
  <1>4. \A y \in T : x <= y
    <2> TAKE y \in T
    <2>1. y \in Nat /\ x \in Nat
      OBVIOUS
    <2>2. ~(y < x)
      BY <1>2, <1>3, <2>1
    <2> QED
      BY <2>1, <2>2
  <1> QED
    BY <1>4

\* A search that finds something finds one of the slots it looks for.
LEMMA FirstFound ==
    ASSUME NEW T \in SUBSET Nat, T # {}
    PROVE  First(T) \in T
  <1>1. \E x \in T : \A y \in T : x <= y
    BY LeastNumber
  <1> QED
    BY <1>1 DEF First

\* The free slots are finitely many, at most all of them.
LEMMA FreeFinite ==
    ASSUME NEW ca
    PROVE  /\ IsFiniteSet(FreeSlots(ca)) /\ Cardinality(FreeSlots(ca)) \in Nat
           /\ Cardinality(FreeSlots(ca)) <= max_entries
  <1>1. IsFiniteSet(CacheSlots) /\ Cardinality(CacheSlots) = max_entries
    BY NatAppAssumption, FS_Interval DEF CacheSlots
  <1>2. FreeSlots(ca) \subseteq CacheSlots
    BY DEF FreeSlots
  <1> HIDE DEF FreeSlots
  <1>3. IsFiniteSet(FreeSlots(ca)) /\ Cardinality(FreeSlots(ca)) <= Cardinality(CacheSlots)
    BY <1>1, <1>2, FS_Subset
  <1>4. Cardinality(FreeSlots(ca)) \in Nat
    BY <1>3, FS_CardinalityType
  <1> QED
    BY <1>1, <1>3, <1>4

\* Filling a free slot makes the free slots one fewer.
LEMMA OneFewer ==
    ASSUME NEW ca, NEW cb, NEW k \in FreeSlots(ca), FreeSlots(cb) = FreeSlots(ca) \ {k}
    PROVE  Cardinality(FreeSlots(cb)) = Cardinality(FreeSlots(ca)) - 1
  <1> DEFINE F == FreeSlots(ca)
  <1>1. IsFiniteSet(F) /\ k \in F
    BY FreeFinite
  <1> HIDE DEF F
  <1>2. Cardinality(F \ {k}) = Cardinality(F) - 1
    BY <1>1, FS_RemoveElement
  <1> QED
    BY <1>2 DEF F

\* Emptying the used slots in S makes them as many more.
LEMMA SomeMore ==
    ASSUME NEW ca, NEW cb, NEW S \in SUBSET CacheSlots, S \cap FreeSlots(ca) = {},
           FreeSlots(cb) = FreeSlots(ca) \cup S
    PROVE  Cardinality(FreeSlots(cb)) = Cardinality(FreeSlots(ca)) + Cardinality(S)
  <1> DEFINE F == FreeSlots(ca)
  <1>1. IsFiniteSet(F) /\ Cardinality(F) \in Nat
    BY FreeFinite
  <1>2. IsFiniteSet(CacheSlots)
    BY NatAppAssumption, FS_Interval DEF CacheSlots
  <1>3. IsFiniteSet(S)
    BY <1>2, FS_Subset
  <1>4. F \cap S = {}
    OBVIOUS
  <1> HIDE DEF F
  <1>5. Cardinality(F \cup S) = Cardinality(F) + Cardinality(S) - Cardinality(F \cap S)
    BY <1>1, <1>3, FS_Union
  <1>6. Cardinality(F \cap S) = 0
    BY <1>4, FS_EmptySet
  <1>7. Cardinality(S) \in Nat
    BY <1>3, FS_CardinalityType
  <1> QED
    BY <1>1, <1>5, <1>6, <1>7 DEF F

-----------------------------------------------------------------------------
(* What the operations do to the cache and to the hardware *)

\* An entry whose rule the library took, in a free slot and under a free handle.
LEMMA LinkedStore ==
    ASSUME NEW ca \in [CacheSlots -> Entries], NEW he \in [Handles -> Rules \cup {NoRule}],
           Linked(ca, he),
           NEW k \in FreeSlots(ca), NEW h \in FreeHandles(he), NEW r \in Rules
    PROVE  Linked([ca EXCEPT ![k] = [rule |-> r, enabled |-> TRUE, hdl |-> h]],
                  [he EXCEPT ![h] = r])
  <1> DEFINE cb == [ca EXCEPT ![k] = [rule |-> r, enabled |-> TRUE, hdl |-> h]]
             hf == [he EXCEPT ![h] = r]
  <1>1. k \in CacheSlots /\ ca[k].rule = NoRule /\ h \in Handles /\ he[h] = NoRule
    BY DEF FreeSlots, FreeHandles
  <1>2. NoRule \notin Rules
    BY NatAppAssumption
  <1>3. cb[k].enabled /\ cb[k].rule = r /\ cb[k].hdl = h
    BY <1>1
  <1>4. \A i \in CacheSlots : i # k => cb[i] = ca[i]
    BY <1>1
  <1>5. hf[h] = r /\ \A g \in Handles : g # h => hf[g] = he[g]
    BY <1>1
  <1> HIDE DEF cb, hf
  <1>6. \A i \in CacheSlots : ca[i].enabled => i # k /\ ca[i].hdl # h
    <2> SUFFICES ASSUME NEW i \in CacheSlots, ca[i].enabled
                 PROVE  i # k /\ ca[i].hdl # h
      OBVIOUS
    <2>1. ca[i].rule # NoRule /\ he[ca[i].hdl] = ca[i].rule
      BY Zenon DEF Linked
    <2> QED
      BY <2>1, <1>1
  <1>7. \A i \in CacheSlots : cb[i].enabled =>
          cb[i].rule # NoRule /\ cb[i].hdl \in Handles /\ hf[cb[i].hdl] = cb[i].rule
    <2> TAKE i \in CacheSlots
    <2>1. CASE i = k
      BY <2>1, <1>1, <1>2, <1>3, <1>5
    <2>2. CASE i # k
      <3> SUFFICES ASSUME cb[i].enabled
                   PROVE  cb[i].rule # NoRule /\ cb[i].hdl \in Handles /\ hf[cb[i].hdl] = cb[i].rule
        OBVIOUS
      <3>1. cb[i] = ca[i]
        BY <1>4, <2>2
      <3>2. ca[i].enabled
        BY <3>1, Zenon
      <3>3. ca[i].rule # NoRule /\ ca[i].hdl \in Handles /\ he[ca[i].hdl] = ca[i].rule /\ ca[i].hdl # h
        BY <3>2, <1>6, Zenon DEF Linked
      <3> QED
        BY <3>1, <3>3, <1>5
    <2> QED
      BY <2>1, <2>2
  <1>8. \A g \in Handles : hf[g] # NoRule => \E i \in CacheSlots : cb[i].enabled /\ cb[i].hdl = g
    <2> SUFFICES ASSUME NEW g \in Handles, hf[g] # NoRule
                 PROVE  \E i \in CacheSlots : cb[i].enabled /\ cb[i].hdl = g
      OBVIOUS
    <2>1. CASE g = h
      BY <2>1, <1>1, <1>3
    <2>2. CASE g # h
      <3>1. he[g] # NoRule
        BY <2>2, <1>5
      <3>2. PICK i \in CacheSlots : ca[i].enabled /\ ca[i].hdl = g
        BY <3>1, Zenon DEF Linked
      <3>3. cb[i] = ca[i]
        BY <3>2, <1>4, <1>6, Zenon
      <3> QED
        BY <3>2, <3>3, Zenon
    <2> QED
      BY <2>1, <2>2
  <1>9. \A i, j \in CacheSlots : cb[i].enabled /\ cb[j].enabled /\ cb[i].hdl = cb[j].hdl => i = j
    <2> SUFFICES ASSUME NEW i \in CacheSlots, NEW j \in CacheSlots, cb[i].enabled, cb[j].enabled,
                        cb[i].hdl = cb[j].hdl, i # j
                 PROVE  FALSE
      OBVIOUS
    <2>1. CASE i # k /\ j # k
      <3>1. cb[i] = ca[i] /\ cb[j] = ca[j]
        BY <2>1, <1>4
      <3> QED
        BY <3>1, Zenon DEF Linked
    <2>2. CASE i = k
      <3>1. cb[j] = ca[j]
        BY <2>2, <1>4
      <3>2. ca[j].hdl = h
        BY <3>1, <2>2, <1>3
      <3> QED
        BY <3>1, <3>2, <1>6, Zenon
    <2>3. CASE j = k
      <3>1. cb[i] = ca[i]
        BY <2>3, <1>4
      <3>2. ca[i].hdl = h
        BY <3>1, <2>3, <1>3
      <3> QED
        BY <3>1, <3>2, <1>6, Zenon
    <2> QED
      BY <2>1, <2>2, <2>3
  <1>10. Linked(cb, hf)
    BY <1>7, <1>8, <1>9, Zenon DEF Linked
  <1> QED
    BY <1>10 DEF cb, hf

\* The entries in S are no longer enabled and their rules leave the library; the
\* others keep their rule, their handle and what they were.
LEMMA LinkedCut ==
    ASSUME NEW ca, NEW he, NEW cb, NEW S \in SUBSET CacheSlots, Linked(ca, he),
           \A k \in S : ~cb[k].enabled,
           \A k \in CacheSlots \ S : /\ cb[k].enabled <=> ca[k].enabled
                                     /\ cb[k].rule = ca[k].rule /\ cb[k].hdl = ca[k].hdl
    PROVE  Linked(cb, Without(he, ca, S))
  <1> DEFINE hf == Without(he, ca, S)
  <1>0. \A g \in Handles : \A k \in S : ca[k].enabled /\ ca[k].hdl = g => hf[g] = NoRule
    BY DEF Without
  <1>1. \A g \in Handles : (~ \E k \in S : ca[k].enabled /\ ca[k].hdl = g) => hf[g] = he[g]
    BY DEF Without
  <1> HIDE DEF hf
  <1>2. \A i \in CacheSlots : cb[i].enabled =>
          /\ ca[i].enabled /\ i \notin S /\ cb[i].rule = ca[i].rule /\ cb[i].hdl = ca[i].hdl
    BY Zenon
  <1>3. \A i \in CacheSlots : cb[i].enabled =>
          cb[i].rule # NoRule /\ cb[i].hdl \in Handles /\ hf[cb[i].hdl] = cb[i].rule
    <2> SUFFICES ASSUME NEW i \in CacheSlots, cb[i].enabled
                 PROVE  cb[i].rule # NoRule /\ cb[i].hdl \in Handles /\ hf[cb[i].hdl] = cb[i].rule
      OBVIOUS
    <2>1. ca[i].enabled /\ i \notin S /\ cb[i].rule = ca[i].rule /\ cb[i].hdl = ca[i].hdl
      BY <1>2, Zenon
    <2>2. ca[i].rule # NoRule /\ ca[i].hdl \in Handles /\ he[ca[i].hdl] = ca[i].rule
      BY <2>1, Zenon DEF Linked
    <2>3. ~ \E k \in S : ca[k].enabled /\ ca[k].hdl = ca[i].hdl
      BY <2>1, Zenon DEF Linked
    <2>4. hf[ca[i].hdl] = he[ca[i].hdl]
      BY <2>2, <2>3, <1>1, Zenon
    <2> QED
      BY <2>1, <2>2, <2>4, Zenon
  <1>4. \A g \in Handles : hf[g] # NoRule => \E i \in CacheSlots : cb[i].enabled /\ cb[i].hdl = g
    <2> SUFFICES ASSUME NEW g \in Handles, hf[g] # NoRule
                 PROVE  \E i \in CacheSlots : cb[i].enabled /\ cb[i].hdl = g
      OBVIOUS
    <2>0. ~ \E k \in S : ca[k].enabled /\ ca[k].hdl = g
      BY <1>0, Zenon
    <2>1. (~ \E k \in S : ca[k].enabled /\ ca[k].hdl = g) /\ he[g] # NoRule
      <3>1. hf[g] = he[g]
        BY <1>1, <2>0, Zenon
      <3> QED
        BY <3>1, <2>0
    <2>2. PICK i \in CacheSlots : ca[i].enabled /\ ca[i].hdl = g
      BY <2>1, Zenon DEF Linked
    <2>3. i \in CacheSlots \ S
      BY <2>1, <2>2, Zenon
    <2> QED
      BY <2>2, <2>3, Zenon
  <1>5. \A i, j \in CacheSlots : cb[i].enabled /\ cb[j].enabled /\ cb[i].hdl = cb[j].hdl => i = j
    <2> SUFFICES ASSUME NEW i \in CacheSlots, NEW j \in CacheSlots, cb[i].enabled, cb[j].enabled,
                        cb[i].hdl = cb[j].hdl
                 PROVE  i = j
      OBVIOUS
    <2>1. ca[i].enabled /\ ca[j].enabled /\ ca[i].hdl = ca[j].hdl
      BY <1>2, Zenon
    <2> QED
      BY <2>1, Zenon DEF Linked
  <1> QED
    BY <1>3, <1>4, <1>5, Zenon DEF Linked, hf

\* An entry that is stored without a rule in the library changes nothing there.
LEMMA LinkedSame ==
    ASSUME NEW ca, NEW he, NEW cb, Linked(ca, he),
           \A k \in CacheSlots : \/ ~cb[k].enabled /\ ~ca[k].enabled
                                 \/ cb[k] = ca[k]
    PROVE  Linked(cb, he)
  <1>1. \A i \in CacheSlots : (cb[i].enabled <=> ca[i].enabled) /\ (cb[i].enabled => cb[i] = ca[i])
    BY Zenon
  <1>2. \A i \in CacheSlots : cb[i].enabled =>
          cb[i].rule # NoRule /\ cb[i].hdl \in Handles /\ he[cb[i].hdl] = cb[i].rule
    BY <1>1, Zenon DEF Linked
  <1>3. \A g \in Handles : he[g] # NoRule => \E i \in CacheSlots : cb[i].enabled /\ cb[i].hdl = g
    <2> SUFFICES ASSUME NEW g \in Handles, he[g] # NoRule
                 PROVE  \E i \in CacheSlots : cb[i].enabled /\ cb[i].hdl = g
      OBVIOUS
    <2>1. PICK i \in CacheSlots : ca[i].enabled /\ ca[i].hdl = g
      BY Zenon DEF Linked
    <2>2. cb[i].enabled /\ cb[i] = ca[i]
      BY <2>1, <1>1, Zenon
    <2> QED
      BY <2>1, <2>2, Zenon
  <1>4. \A i, j \in CacheSlots : cb[i].enabled /\ cb[j].enabled /\ cb[i].hdl = cb[j].hdl => i = j
    BY <1>1, Zenon DEF Linked
  <1> QED
    BY <1>2, <1>3, <1>4, Zenon DEF Linked

\* From ca and he to cb and hf the rules of the entries in S, none enabled, go to the
\* library, which takes those it has an answer for, each under a free handle of its own.
Reinstalled(ca, he, cb, hf, S, lib) ==
    /\ S \subseteq CacheSlots
    /\ \A k \in S : ca[k].rule # NoRule
    /\ \A k \in S : ~ca[k].enabled
    /\ \A k \in S : lib[k] = Refused \/ lib[k] \in FreeHandles(he)
    /\ \A i, j \in S : i # j /\ lib[i] = lib[j] => lib[i] = Refused
    /\ \A k \in S : lib[k] = Refused => ~cb[k].enabled
    /\ \A k \in S : lib[k] # Refused =>
                      cb[k].enabled /\ cb[k].rule = ca[k].rule /\ cb[k].hdl = lib[k]
    /\ \A k \in CacheSlots \ S : cb[k] = ca[k]
    /\ \A k \in S : lib[k] # Refused => hf[lib[k]] = ca[k].rule
    /\ \A h \in Handles : (~ \E k \in S : lib[k] = h) => hf[h] = he[h]

\* Then they agree again.
LEMMA LinkedReinstall ==
    ASSUME NEW ca, NEW he, NEW cb, NEW hf, NEW S, NEW lib, Linked(ca, he),
           Reinstalled(ca, he, cb, hf, S, lib)
    PROVE  Linked(cb, hf)
  <1> USE DEF Reinstalled
  <1>0. Refused \notin Handles
    BY NatAppAssumption
  <1>1. \A i \in CacheSlots \ S : ca[i].enabled =>
          /\ ca[i].rule # NoRule /\ ca[i].hdl \in Handles /\ he[ca[i].hdl] = ca[i].rule
          /\ ~ \E k \in S : lib[k] = ca[i].hdl
    <2> SUFFICES ASSUME NEW i \in CacheSlots \ S, ca[i].enabled
                 PROVE  /\ ca[i].rule # NoRule /\ ca[i].hdl \in Handles /\ he[ca[i].hdl] = ca[i].rule
                        /\ ~ \E k \in S : lib[k] = ca[i].hdl
      OBVIOUS
    <2>1. ca[i].rule # NoRule /\ ca[i].hdl \in Handles /\ he[ca[i].hdl] = ca[i].rule
      BY Zenon DEF Linked
    <2> QED
      BY <2>1, <1>0 DEF FreeHandles
  <1>2. \A i \in CacheSlots : cb[i].enabled =>
          \/ i \in S /\ lib[i] # Refused /\ cb[i].rule = ca[i].rule /\ cb[i].hdl = lib[i]
          \/ i \notin S /\ cb[i] = ca[i] /\ ca[i].enabled
    BY Zenon
  <1>3. \A i \in CacheSlots : cb[i].enabled =>
          cb[i].rule # NoRule /\ cb[i].hdl \in Handles /\ hf[cb[i].hdl] = cb[i].rule
    <2> SUFFICES ASSUME NEW i \in CacheSlots, cb[i].enabled
                 PROVE  cb[i].rule # NoRule /\ cb[i].hdl \in Handles /\ hf[cb[i].hdl] = cb[i].rule
      OBVIOUS
    <2>1. CASE i \in S /\ lib[i] # Refused /\ cb[i].rule = ca[i].rule /\ cb[i].hdl = lib[i]
      BY <2>1 DEF FreeHandles
    <2>2. CASE i \notin S /\ cb[i] = ca[i] /\ ca[i].enabled
      <3>1. /\ ca[i].rule # NoRule /\ ca[i].hdl \in Handles /\ he[ca[i].hdl] = ca[i].rule
            /\ ~ \E k \in S : lib[k] = ca[i].hdl
        BY <2>2, <1>1, Zenon
      <3>2. hf[ca[i].hdl] = he[ca[i].hdl]
        BY <3>1, Zenon
      <3> QED
        BY <2>2, <3>1, <3>2, Zenon
    <2> QED
      BY <1>2, <2>1, <2>2
  <1>4. \A g \in Handles : hf[g] # NoRule => \E i \in CacheSlots : cb[i].enabled /\ cb[i].hdl = g
    <2> SUFFICES ASSUME NEW g \in Handles, hf[g] # NoRule
                 PROVE  \E i \in CacheSlots : cb[i].enabled /\ cb[i].hdl = g
      OBVIOUS
    <2>1. CASE \E k \in S : lib[k] = g
      <3>1. PICK k \in S : lib[k] = g
        BY <2>1
      <3>2. lib[k] # Refused
        BY <3>1, <1>0
      <3> QED
        BY <3>1, <3>2, Zenon
    <2>2. CASE ~ \E k \in S : lib[k] = g
      <3>1. he[g] # NoRule
        BY <2>2, Zenon
      <3>2. PICK i \in CacheSlots : ca[i].enabled /\ ca[i].hdl = g
        BY <3>1, Zenon DEF Linked
      <3>3. cb[i] = ca[i]
        BY <3>2, Zenon
      <3> QED
        BY <3>2, <3>3, Zenon
    <2> QED
      BY <2>1, <2>2
  <1>5. \A i, j \in CacheSlots : cb[i].enabled /\ cb[j].enabled /\ cb[i].hdl = cb[j].hdl => i = j
    <2> SUFFICES ASSUME NEW i \in CacheSlots, NEW j \in CacheSlots, cb[i].enabled, cb[j].enabled,
                        cb[i].hdl = cb[j].hdl
                 PROVE  i = j
      OBVIOUS
    <2>1. CASE i \in S /\ j \in S
      <3>1. lib[i] # Refused /\ lib[j] # Refused /\ cb[i].hdl = lib[i] /\ cb[j].hdl = lib[j]
        BY <2>1, <1>2, Zenon
      <3>2. lib[i] = lib[j]
        BY <3>1
      <3> QED
        BY <2>1, <3>1, <3>2
    <2>2. CASE i \notin S /\ j \notin S
      <3>1. ca[i].enabled /\ ca[j].enabled /\ ca[i].hdl = ca[j].hdl
        BY <2>2, <1>2, Zenon
      <3> QED
        BY <3>1, Zenon DEF Linked
    <2>3. CASE i \in S /\ j \notin S
      <3>1. cb[i].hdl = lib[i] /\ cb[j].hdl = ca[j].hdl /\ ca[j].enabled
        BY <2>3, <1>2, Zenon
      <3>2. ~ \E k \in S : lib[k] = ca[j].hdl
        BY <2>3, <3>1, <1>1, Zenon
      <3>3. lib[i] = ca[j].hdl
        BY <3>1
      <3> QED
        BY <2>3, <3>2, <3>3
    <2>4. CASE i \notin S /\ j \in S
      <3>1. cb[j].hdl = lib[j] /\ cb[i].hdl = ca[i].hdl /\ ca[i].enabled
        BY <2>4, <1>2, Zenon
      <3>2. ~ \E k \in S : lib[k] = ca[i].hdl
        BY <2>4, <3>1, <1>1, Zenon
      <3>3. lib[j] = ca[i].hdl
        BY <3>1
      <3> QED
        BY <2>4, <3>2, <3>3
    <2> QED
      BY <2>1, <2>2, <2>3, <2>4
  <1> QED
    BY <1>3, <1>4, <1>5, Zenon DEF Linked

-----------------------------------------------------------------------------
(* NatApp's state *)

States == [cache : [CacheSlots -> Entries], temp : [TempSlots -> Rules \cup {NoRule}], cnt : Int,
           pwr : [PwrSlots -> Clients \cup {NoAddr}], held : [Handles -> Rules \cup {NoRule}]]

\* A state of NatApp in which everything agrees.
Fine(st, tbl, over) ==
    st \in States /\ CacheOK(st.cache, st.held, st.cnt, tbl) /\ ConnsOK(st.cache, st.temp, over)

\* The cache with a new entry in slot k.
Stored(ca, k, new) == [ca EXCEPT ![k] = new]

\* An entry for a connection that has none, in a free slot.
LEMMA StoredKeeps ==
    ASSUME NEW ca \in [CacheSlots -> Entries], NEW k \in FreeSlots(ca), NEW new \in Entries,
           new.rule \in Rules, Distinct(ca), ~ChkForDup(ca, new.rule)
    PROVE  /\ Stored(ca, k, new) \in [CacheSlots -> Entries]
           /\ Distinct(Stored(ca, k, new))
           /\ Cardinality(FreeSlots(Stored(ca, k, new))) = Cardinality(FreeSlots(ca)) - 1
           /\ Stored(ca, k, new)[k] = new
           /\ \A i \in CacheSlots \ {k} : Stored(ca, k, new)[i] = ca[i]
  <1> DEFINE cb == Stored(ca, k, new)
  <1>1. k \in CacheSlots /\ ca[k].rule = NoRule
    BY DEF FreeSlots
  <1>3. cb = [ca EXCEPT ![k] = new]
    BY DEF Stored
  <1> HIDE DEF cb
  <1>4. cb \in [CacheSlots -> Entries] /\ cb[k] = new /\ \A i \in CacheSlots \ {k} : cb[i] = ca[i]
    BY <1>1, <1>3
  <1>5. NoRule \notin Rules
    BY NatAppAssumption
  <1>6. FreeSlots(cb) = FreeSlots(ca) \ {k}
    BY <1>1, <1>4, <1>5 DEF FreeSlots
  <1>7. Cardinality(FreeSlots(cb)) = Cardinality(FreeSlots(ca)) - 1
    BY <1>6, OneFewer
  <1>8. \A i \in CacheSlots : ca[i].rule # NoRule => ~SameTuple(ca[i].rule, new.rule)
    BY DEF ChkForDup, SlotsOf, cacheRules
  <1>9. Distinct(cb)
    <2> SUFFICES ASSUME NEW i \in CacheSlots, NEW j \in CacheSlots, i # j,
                        cb[i].rule # NoRule, cb[j].rule # NoRule, SameTuple(cb[i].rule, cb[j].rule)
                 PROVE  FALSE
      BY DEF Distinct
    <2>1. CASE i # k /\ j # k
      BY <2>1, <1>4 DEF Distinct
    <2>2. CASE i = k
      BY <2>2, <1>4, <1>8 DEF SameTuple
    <2>3. CASE j = k
      BY <2>3, <1>4, <1>8
    <2> QED
      BY <2>1, <2>2, <2>3
  <1> QED
    BY <1>4, <1>7, <1>9 DEF cb

\* What Store returns.
LEMMA StoreFacts ==
    ASSUME NEW st \in States, NEW r \in Rules, NEW e \in BOOLEAN, NEW h \in Handles \cup {NoHandle},
           FreeSlots(st.cache) # {}
    PROVE  \E k \in FreeSlots(st.cache) :
             /\ Store(st, r, e, h) \in States
             /\ Store(st, r, e, h).cache = Stored(st.cache, k, [rule |-> r, enabled |-> e, hdl |-> h])
             /\ Store(st, r, e, h).temp = st.temp
             /\ Store(st, r, e, h).cnt = st.cnt + 1
             /\ Store(st, r, e, h).held = st.held
  <1> DEFINE k == First(FreeSlots(st.cache))
             ca == Stored(st.cache, k, [rule |-> r, enabled |-> e, hdl |-> h])
             n == st.cnt + 1
  <1>1. FreeSlots(st.cache) \in SUBSET Nat
    BY NatAppAssumption DEF FreeSlots, CacheSlots
  <1>2. k \in FreeSlots(st.cache)
    BY <1>1, FirstFound
  <1>3. Store(st, r, e, h) = [st EXCEPT !.cache = ca, !.cnt = n]
    BY DEF Store, Stored
  <1>4. n \in Int
    BY DEF States
  <1>5. ca \in [CacheSlots -> Entries]
    <2>1. [rule |-> r, enabled |-> e, hdl |-> h] \in Entries
      BY DEF Entries
    <2>2. st.cache \in [CacheSlots -> Entries]
      BY DEF States
    <2> QED
      BY <2>1, <2>2 DEF Stored
  <1> HIDE DEF k, ca, n
  <1>6. /\ [st EXCEPT !.cache = ca, !.cnt = n] \in States
        /\ [st EXCEPT !.cache = ca, !.cnt = n].cache = ca
        /\ [st EXCEPT !.cache = ca, !.cnt = n].temp = st.temp
        /\ [st EXCEPT !.cache = ca, !.cnt = n].cnt = n
        /\ [st EXCEPT !.cache = ca, !.cnt = n].held = st.held
    BY <1>4, <1>5 DEF States
  <1> QED
    BY <1>2, <1>3, <1>6 DEF ca, n

\* No new connection is in the cache cb, and the waiting ones are the same.
LEMMA ConnsKept ==
    ASSUME NEW ca, NEW cb, NEW te, NEW over, ConnsOK(ca, te, over),
           \A k \in CacheSlots : cb[k].rule # NoRule => \/ cb[k].rule = ca[k].rule
                                                        \/ Own(cb[k].rule, over)
    PROVE  ConnsOK(cb, te, over)
  <1>1. \A k \in CacheSlots : cb[k].rule # NoRule => Own(cb[k].rule, over)
    BY Zenon DEF ConnsOK
  <1> QED
    BY <1>1, Zenon DEF ConnsOK

\* The two ways in: kept from the hardware, or with the rule in the library.
StoreOff(st, r) == Store(st, r, FALSE, NoHandle)
StoreOn(st, r, h) == [Store(st, r, TRUE, h) EXCEPT !.held[h] = r]

\* An entry that is stored and kept from the hardware.
LEMMA StoreDisabled ==
    ASSUME NEW tbl, NEW over, NEW st, Fine(st, tbl, over), NEW r \in Rules, Own(r, over),
           ~ChkForDup(st.cache, r), FreeSlots(st.cache) # {}
    PROVE  /\ Fine(StoreOff(st, r), tbl, over)
           /\ StoreOff(st, r).temp = st.temp
           /\ StoreOff(st, r).held = st.held
  <1> DEFINE so == Store(st, r, FALSE, NoHandle)
             new == [rule |-> r, enabled |-> FALSE, hdl |-> NoHandle]
             ca == st.cache
  <1>1. /\ st \in States /\ CacheOK(ca, st.held, st.cnt, tbl) /\ ConnsOK(ca, st.temp, over)
        /\ ca \in [CacheSlots -> Entries] /\ Distinct(ca) /\ Linked(ca, st.held)
    BY DEF Fine, CacheOK
  <1>2. PICK k \in FreeSlots(ca) :
          /\ so \in States /\ so.cache = Stored(ca, k, new) /\ so.temp = st.temp
          /\ so.cnt = st.cnt + 1 /\ so.held = st.held
    BY <1>1, StoreFacts
  <1> DEFINE cb == Stored(ca, k, new)
  <1>3. /\ cb \in [CacheSlots -> Entries] /\ Distinct(cb)
        /\ Cardinality(FreeSlots(cb)) = Cardinality(FreeSlots(ca)) - 1
        /\ cb[k] = new
        /\ \A i \in CacheSlots \ {k} : cb[i] = ca[i]
    <2>1. new \in Entries /\ new.rule = r /\ ~ChkForDup(ca, r)
      BY DEF Entries
    <2> HIDE DEF ca, new
    <2> QED
      BY <1>1, <2>1, StoredKeeps
  <1> HIDE DEF cb, ca, so
  <1>4. k \in CacheSlots /\ ca[k].rule = NoRule
    BY DEF FreeSlots
  <1>5. ~cb[k].enabled /\ cb[k].rule = r
    BY <1>3
  <1>6. ~ca[k].enabled
    BY <1>1, <1>4, Zenon DEF Linked
  <1>7. \A i \in CacheSlots : (~cb[i].enabled /\ ~ca[i].enabled) \/ cb[i] = ca[i]
    BY <1>3, <1>5, <1>6, Zenon
  <1>8. Linked(cb, st.held)
    BY <1>1, <1>7, LinkedSame
  <1>9. st.cnt + 1 = max_entries - Cardinality(FreeSlots(cb))
    <2>1. Cardinality(FreeSlots(ca)) \in Nat
      BY FreeFinite
    <2>2. st.cnt = max_entries - Cardinality(FreeSlots(ca))
      BY <1>1 DEF CacheOK
    <2> QED
      BY <2>1, <2>2, <1>3, NatAppAssumption
  <1>10. tbl = 0 => \A i \in CacheSlots : ~cb[i].enabled
    <2>1. tbl = 0 => \A i \in CacheSlots : ~ca[i].enabled
      BY <1>1, Zenon DEF CacheOK
    <2> QED
      BY <2>1, <1>3, <1>5, <1>7, Zenon
  <1>11. ConnsOK(cb, st.temp, over)
    <2>1. \A i \in CacheSlots : cb[i].rule # NoRule => cb[i].rule = ca[i].rule \/ Own(cb[i].rule, over)
      BY <1>3, <1>5
    <2> QED
      BY <1>1, <2>1, ConnsKept
  <1>12. CacheOK(cb, st.held, st.cnt + 1, tbl)
    <2>1. st.held \in [Handles -> Rules \cup {NoRule}]
      BY <1>1 DEF CacheOK
    <2> QED
      BY <2>1, <1>3, <1>8, <1>9, <1>10, Zenon DEF CacheOK
  <1>13. Fine(so, tbl, over)
    BY <1>2, <1>11, <1>12 DEF Fine, cb
  <1> QED
    BY <1>2, <1>13, Zenon DEF so, StoreOff

\* An entry that is stored and whose rule the library took.
LEMMA StoreEnabled ==
    ASSUME NEW tbl, NEW over, NEW st, Fine(st, tbl, over), NEW r \in Rules, Own(r, over),
           ~ChkForDup(st.cache, r), FreeSlots(st.cache) # {}, tbl # 0, NEW h \in FreeHandles(st.held)
    PROVE  /\ Fine(StoreOn(st, r, h), tbl, over)
           /\ StoreOn(st, r, h).temp = st.temp
           /\ StoreOn(st, r, h).held = [st.held EXCEPT ![h] = r]
  <1> DEFINE so == Store(st, r, TRUE, h)
             new == [rule |-> r, enabled |-> TRUE, hdl |-> h]
             sp == [so EXCEPT !.held[h] = r]
             ca == st.cache
             he == st.held
             hf == [he EXCEPT ![h] = r]
  <1>1. /\ st \in States /\ CacheOK(ca, he, st.cnt, tbl) /\ ConnsOK(ca, st.temp, over)
        /\ ca \in [CacheSlots -> Entries] /\ Distinct(ca) /\ Linked(ca, he)
        /\ he \in [Handles -> Rules \cup {NoRule}]
    BY DEF Fine, CacheOK
  <1>2. h \in Handles
    BY DEF FreeHandles
  <1>3. PICK k \in FreeSlots(ca) :
          /\ so \in States /\ so.cache = Stored(ca, k, new) /\ so.temp = st.temp
          /\ so.cnt = st.cnt + 1 /\ so.held = he
    BY <1>1, <1>2, StoreFacts
  <1> DEFINE cb == Stored(ca, k, new)
  <1>4. /\ cb \in [CacheSlots -> Entries] /\ Distinct(cb)
        /\ Cardinality(FreeSlots(cb)) = Cardinality(FreeSlots(ca)) - 1
        /\ cb[k] = new
        /\ \A i \in CacheSlots \ {k} : cb[i] = ca[i]
    <2>1. new \in Entries /\ new.rule = r /\ ~ChkForDup(ca, r)
      BY <1>2 DEF Entries
    <2> HIDE DEF ca, new
    <2> QED
      BY <1>1, <2>1, StoredKeeps
  <1>5. Linked(cb, hf)
    BY <1>1, LinkedStore DEF Stored
  <1>6. hf \in [Handles -> Rules \cup {NoRule}]
    BY <1>1
  <1>7. sp = [so EXCEPT !.held = hf]
    BY <1>3
  <1> HIDE DEF cb, ca, so, sp, he, hf
  <1>8. sp \in States /\ sp.cache = cb /\ sp.temp = st.temp /\ sp.cnt = st.cnt + 1 /\ sp.held = hf
    BY <1>3, <1>6, <1>7 DEF States, cb
  <1>9. st.cnt + 1 = max_entries - Cardinality(FreeSlots(cb))
    <2>1. Cardinality(FreeSlots(ca)) \in Nat
      BY FreeFinite
    <2>2. st.cnt = max_entries - Cardinality(FreeSlots(ca))
      BY <1>1 DEF CacheOK
    <2> QED
      BY <2>1, <2>2, <1>4, NatAppAssumption
  <1>10. ConnsOK(cb, st.temp, over)
    <2>0. cb[k].rule = r
      BY <1>4
    <2>1. \A i \in CacheSlots : cb[i].rule # NoRule => cb[i].rule = ca[i].rule \/ Own(cb[i].rule, over)
      BY <2>0, <1>4
    <2> QED
      BY <1>1, <2>1, ConnsKept
  <1>11. CacheOK(cb, hf, st.cnt + 1, tbl)
    BY <1>4, <1>5, <1>6, <1>9, Zenon DEF CacheOK
  <1>12. Fine(sp, tbl, over)
    BY <1>8, <1>10, <1>11 DEF Fine
  <1> QED
    BY <1>8, <1>12, Zenon DEF so, sp, he, hf, StoreOn

\* From st to su the entries in S are emptied, the others keep their rule, and cache and
\* hardware agree again.
Shrinks(st, su, S, tbm) ==
    /\ su \in States /\ S \subseteq CacheSlots /\ su.temp = st.temp
    /\ \A k \in S : st.cache[k].rule # NoRule /\ su.cache[k].rule = NoRule
    /\ \A k \in CacheSlots \ S : su.cache[k].rule = st.cache[k].rule
    /\ su.cnt = st.cnt - Cardinality(S)
    /\ Linked(su.cache, su.held)
    /\ tbm = 0 => \A k \in CacheSlots : ~su.cache[k].enabled

\* Then all is well.
LEMMA Shrunk ==
    ASSUME NEW tbl, NEW over, NEW st, Fine(st, tbl, over), NEW su, NEW S, NEW tbm,
           Shrinks(st, su, S, tbm)
    PROVE  Fine(su, tbm, over)
  <1> USE DEF Shrinks
  <1> DEFINE ca == st.cache
             cb == su.cache
  <1>1. /\ st.cnt = max_entries - Cardinality(FreeSlots(ca)) /\ ConnsOK(ca, st.temp, over) /\ Distinct(ca)
    BY DEF Fine, CacheOK
  <1>2. cb \in [CacheSlots -> Entries] /\ su.held \in [Handles -> Rules \cup {NoRule}]
    BY DEF States
  <1>3. Distinct(cb)
    <2> SUFFICES ASSUME NEW i \in CacheSlots, NEW j \in CacheSlots,
                        cb[i].rule # NoRule, cb[j].rule # NoRule, SameTuple(cb[i].rule, cb[j].rule)
                 PROVE  i = j
      BY DEF Distinct
    <2>1. cb[i].rule = ca[i].rule /\ cb[j].rule = ca[j].rule
      OBVIOUS
    <2> QED
      BY <2>1, <1>1 DEF Distinct
  <1>4. S \cap FreeSlots(ca) = {} /\ FreeSlots(cb) = FreeSlots(ca) \cup S
    BY DEF FreeSlots
  <1>5. Cardinality(FreeSlots(cb)) = Cardinality(FreeSlots(ca)) + Cardinality(S)
    <2>1. S \in SUBSET CacheSlots
      OBVIOUS
    <2> HIDE DEF ca, cb, Shrinks
    <2> QED
      BY <1>4, <2>1, SomeMore, Zenon
  <1>6. Cardinality(FreeSlots(ca)) \in Nat
    BY FreeFinite
  <1>7. Cardinality(S) \in Nat
    <2>1. IsFiniteSet(CacheSlots)
      BY NatAppAssumption, FS_Interval DEF CacheSlots
    <2>2. IsFiniteSet(S)
      BY <2>1, FS_Subset
    <2> QED
      BY <2>2, FS_CardinalityType
  <1>8. su.cnt = max_entries - Cardinality(FreeSlots(cb))
    BY <1>1, <1>5, <1>6, <1>7, NatAppAssumption
  <1>9. ConnsOK(cb, st.temp, over)
    <2>1. \A k \in CacheSlots : cb[k].rule # NoRule => cb[k].rule = ca[k].rule \/ Own(cb[k].rule, over)
      OBVIOUS
    <2> HIDE DEF ca, cb
    <2> QED
      BY <1>1, <2>1, ConnsKept
  <1>10. CacheOK(cb, su.held, su.cnt, tbm)
    BY <1>2, <1>3, <1>8, Zenon DEF CacheOK
  <1> QED
    BY <1>9, <1>10, Zenon DEF Fine

\* What Empty is.
LEMMA EmptyFacts == Empty \in Entries /\ Empty.rule = NoRule /\ ~Empty.enabled
  <1>1. Empty \in Entries /\ Empty.rule = NoRule
    BY DEF Empty, Entries
  <1>2. ~Empty.enabled
    BY DEF Empty
  <1> QED
    BY <1>1, <1>2

\* The library's table without some handles.
LEMMA WithoutType ==
    ASSUME NEW he \in [Handles -> Rules \cup {NoRule}], NEW ca, NEW S
    PROVE  Without(he, ca, S) \in [Handles -> Rules \cup {NoRule}]
  BY DEF Without

\* Used entries are wiped together with their rules in the hardware.
LEMMA WipeFine ==
    ASSUME NEW tbl, NEW over, NEW st, Fine(st, tbl, over), NEW S \in SUBSET CacheSlots,
           \A k \in S : st.cache[k].rule # NoRule
    PROVE  /\ Fine(Wipe(st, S), tbl, over)
           /\ Wipe(st, S).temp = st.temp
           /\ \A k \in S : Wipe(st, S).cache[k].rule = NoRule
           /\ \A k \in CacheSlots \ S : Wipe(st, S).cache[k] = st.cache[k]
  <1> DEFINE ca == st.cache
             cb == [k \in CacheSlots |-> IF k \in S THEN Empty ELSE ca[k]]
             n == st.cnt - Cardinality(S)
             hf == Without(st.held, ca, S)
             su == [st EXCEPT !.cache = cb, !.cnt = n, !.held = hf]
  <1>1. Wipe(st, S) = su
    BY DEF Wipe
  <1>2. /\ st \in States /\ Linked(ca, st.held) /\ ca \in [CacheSlots -> Entries]
        /\ st.held \in [Handles -> Rules \cup {NoRule}]
    BY DEF Fine, CacheOK
  <1>3. n \in Int
    <2>1. IsFiniteSet(CacheSlots)
      BY NatAppAssumption, FS_Interval DEF CacheSlots
    <2>2. IsFiniteSet(S)
      BY <2>1, FS_Subset
    <2>3. Cardinality(S) \in Nat
      BY <2>2, FS_CardinalityType
    <2> QED
      BY <2>3, <1>2 DEF States
  <1>4. cb \in [CacheSlots -> Entries]
    BY <1>2, EmptyFacts
  <1>5. hf \in [Handles -> Rules \cup {NoRule}]
    BY <1>2, WithoutType
  <1>6. (\A k \in S : cb[k] = Empty) /\ (\A k \in CacheSlots \ S : cb[k] = ca[k])
    OBVIOUS
  <1>7. Linked(cb, hf)
    <2> HIDE DEF cb, ca
    <2>1. \A k \in S : ~cb[k].enabled
      BY <1>6, EmptyFacts, Zenon
    <2>2. \A k \in CacheSlots \ S : /\ cb[k].enabled <=> ca[k].enabled
                                    /\ cb[k].rule = ca[k].rule /\ cb[k].hdl = ca[k].hdl
      BY <1>6, Zenon
    <2> QED
      BY <1>2, <2>1, <2>2, LinkedCut, Zenon
  <1>8. tbl = 0 => \A k \in CacheSlots : ~cb[k].enabled
    <2>1. tbl = 0 => \A k \in CacheSlots : ~ca[k].enabled
      BY Zenon DEF Fine, CacheOK
    <2> HIDE DEF cb, ca
    <2> QED
      BY <1>6, <2>1, EmptyFacts, Zenon
  <1> HIDE DEF cb, n, hf
  <1>9. su \in States /\ su.cache = cb /\ su.temp = st.temp /\ su.cnt = n /\ su.held = hf
    BY <1>2, <1>3, <1>4, <1>5 DEF States
  <1> HIDE DEF su
  <1>10. /\ \A k \in S : su.cache[k].rule = NoRule
         /\ \A k \in CacheSlots \ S : su.cache[k] = st.cache[k]
    BY <1>6, <1>9, EmptyFacts
  <1>11. Fine(su, tbl, over)
    <2>1. Linked(su.cache, su.held) /\ su.cnt = st.cnt - Cardinality(S)
      BY <1>7, <1>9 DEF n
    <2>2. tbl = 0 => \A k \in CacheSlots : ~su.cache[k].enabled
      BY <1>8, <1>9, Zenon
    <2>3. /\ \A k \in S : st.cache[k].rule # NoRule /\ su.cache[k].rule = NoRule
          /\ \A k \in CacheSlots \ S : su.cache[k].rule = st.cache[k].rule
      BY <1>10
    <2> HIDE DEF ca
    <2> QED
      BY <1>9, <2>1, <2>2, <2>3, Shrunk, Zenon DEF Shrinks
  <1> QED
    BY <1>1, <1>9, <1>10, <1>11

\* Entries stay in the cache and their rules leave the hardware.
LEMMA DisableFine ==
    ASSUME NEW tbl, NEW over, NEW st, Fine(st, tbl, over), NEW S \in SUBSET CacheSlots
    PROVE  Fine(Disable(st, S), tbl, over)
  <1> DEFINE ca == st.cache
             cb == [k \in CacheSlots |-> [ca[k] EXCEPT !.enabled = @ /\ k \notin S]]
             hf == Without(st.held, ca, S)
             su == [st EXCEPT !.cache = cb, !.held = hf]
  <1>1. Disable(st, S) = su
    BY DEF Disable
  <1>2. /\ st \in States /\ Linked(ca, st.held) /\ ca \in [CacheSlots -> Entries]
        /\ st.held \in [Handles -> Rules \cup {NoRule}]
    BY DEF Fine, CacheOK
  <1>3. \A k \in CacheSlots :
          cb[k] \in Entries /\ cb[k].rule = ca[k].rule /\ cb[k].hdl = ca[k].hdl
    <2> TAKE k \in CacheSlots
    <2>1. cb[k] = [ca[k] EXCEPT !.enabled = @ /\ k \notin S] /\ ca[k] \in Entries
      BY <1>2, Zenon
    <2> HIDE DEF cb, ca
    <2> QED
      BY <2>1 DEF Entries
  <1>4. \A k \in CacheSlots : cb[k].enabled <=> ca[k].enabled /\ k \notin S
    <2> TAKE k \in CacheSlots
    <2>1. cb[k] = [ca[k] EXCEPT !.enabled = @ /\ k \notin S] /\ ca[k] \in Entries
      BY <1>2, Zenon
    <2> HIDE DEF cb, ca
    <2> QED
      BY <2>1 DEF Entries
  <1>5. cb \in [CacheSlots -> Entries]
    BY <1>3
  <1>6. hf \in [Handles -> Rules \cup {NoRule}]
    BY <1>2, WithoutType
  <1> HIDE DEF cb
  <1>7. Linked(cb, hf)
    <2> HIDE DEF ca
    <2>1. \A k \in S : ~cb[k].enabled
      BY <1>4, Zenon
    <2>2. \A k \in CacheSlots \ S : /\ cb[k].enabled <=> ca[k].enabled
                                    /\ cb[k].rule = ca[k].rule /\ cb[k].hdl = ca[k].hdl
      BY <1>3, <1>4, Zenon
    <2> QED
      BY <1>2, <2>1, <2>2, LinkedCut, Zenon
  <1>8. tbl = 0 => \A k \in CacheSlots : ~cb[k].enabled
    <2>1. tbl = 0 => \A k \in CacheSlots : ~ca[k].enabled
      BY Zenon DEF Fine, CacheOK
    <2> HIDE DEF ca
    <2> QED
      BY <1>4, <2>1, Zenon
  <1> HIDE DEF hf
  <1>9. su \in States /\ su.cache = cb /\ su.temp = st.temp /\ su.cnt = st.cnt /\ su.held = hf
    BY <1>2, <1>5, <1>6 DEF States
  <1> HIDE DEF su
  <1>10. su.cnt = st.cnt - Cardinality({})
    BY <1>2, <1>9, FS_EmptySet DEF States
  <1>11. \A k \in CacheSlots \ {} : su.cache[k].rule = st.cache[k].rule
    BY <1>3, <1>9
  <1>12. tbl = 0 => \A k \in CacheSlots : ~su.cache[k].enabled
    BY <1>8, <1>9, Zenon
  <1>13. Linked(su.cache, su.held)
    BY <1>7, <1>9
  <1>14. Shrinks(st, su, {}, tbl)
    BY <1>9, <1>10, <1>11, <1>12, <1>13, Zenon DEF Shrinks
  <1> QED
    BY <1>1, <1>14, Shrunk, Zenon

\* The table is deleted: no entry is enabled and the hardware holds nothing.
LEMMA ResetFine ==
    ASSUME NEW tbl, NEW tbm, NEW over, NEW st, Fine(st, tbl, over)
    PROVE  /\ Fine(Reset(st), tbm, over)
           /\ \A k \in CacheSlots : ~Reset(st).cache[k].enabled
           /\ Reset(st).pwr = st.pwr
  <1> DEFINE ca == st.cache
             cb == [k \in CacheSlots |-> [ca[k] EXCEPT !.enabled = FALSE]]
             hf == [h \in Handles |-> NoRule]
             su == [st EXCEPT !.cache = cb, !.held = hf]
  <1>1. Reset(st) = su
    BY DEF Reset
  <1>2. st \in States /\ ca \in [CacheSlots -> Entries]
    BY DEF Fine, CacheOK
  <1>3. \A k \in CacheSlots : cb[k] \in Entries /\ cb[k].rule = ca[k].rule /\ ~cb[k].enabled
    <2> TAKE k \in CacheSlots
    <2>1. cb[k] = [ca[k] EXCEPT !.enabled = FALSE] /\ ca[k] \in Entries
      BY <1>2, Zenon
    <2> HIDE DEF cb, ca
    <2> QED
      BY <2>1 DEF Entries
  <1>4. cb \in [CacheSlots -> Entries]
    BY <1>3
  <1>5. hf \in [Handles -> Rules \cup {NoRule}]
    OBVIOUS
  <1>6. \A h \in Handles : hf[h] = NoRule
    OBVIOUS
  <1> HIDE DEF cb, hf
  <1>7. Linked(cb, hf)
    BY <1>3, <1>6, Zenon DEF Linked
  <1>8. /\ su \in States /\ su.cache = cb /\ su.temp = st.temp /\ su.cnt = st.cnt /\ su.held = hf
        /\ su.pwr = st.pwr
    BY <1>2, <1>4, <1>5 DEF States
  <1> HIDE DEF su
  <1>9. su.cnt = st.cnt - Cardinality({})
    BY <1>2, <1>8, FS_EmptySet DEF States
  <1>10. \A k \in CacheSlots : su.cache[k].rule = st.cache[k].rule
    BY <1>3, <1>8
  <1>11. \A k \in CacheSlots : ~su.cache[k].enabled
    BY <1>3, <1>8, Zenon
  <1>12. Linked(su.cache, su.held)
    BY <1>7, <1>8
  <1>13. Shrinks(st, su, {}, tbm)
    BY <1>8, <1>9, <1>10, <1>11, <1>12, Zenon DEF Shrinks
  <1> QED
    BY <1>1, <1>8, <1>11, <1>13, Shrunk, Zenon

\* Entries that were not enabled go back to the library, or out of the cache.
LEMMA ReinstallFine ==
    ASSUME NEW tbl, NEW over, NEW st, Fine(st, tbl, over), NEW S \in SUBSET CacheSlots,
           \A k \in S : st.cache[k].rule # NoRule /\ ~st.cache[k].enabled,
           NEW lib \in Batch(S, Answers(st.held, tbl))
    PROVE  Fine(Reinstall(st, S, lib), tbl, over) /\ Reinstall(st, S, lib).pwr = st.pwr
  <1> DEFINE ca == st.cache
             he == st.held
             lost == {k \in S : lib[k] = Refused}
             kept == S \ lost
             cb == [k \in CacheSlots |->
                      IF k \in lost THEN Empty
                      ELSE IF k \in kept THEN [ca[k] EXCEPT !.enabled = TRUE, !.hdl = lib[k]]
                      ELSE ca[k]]
             n == st.cnt - Cardinality(lost)
             hf == [h \in Handles |-> IF \E k \in kept : lib[k] = h
                                      THEN ca[CHOOSE k \in kept : lib[k] = h].rule ELSE he[h]]
             su == [st EXCEPT !.cache = cb, !.cnt = n, !.held = hf]
  <1>1. Reinstall(st, S, lib) = su
    BY DEF Reinstall
  <1>2. /\ st \in States /\ Linked(ca, he) /\ ca \in [CacheSlots -> Entries]
        /\ he \in [Handles -> Rules \cup {NoRule}] /\ st.cnt \in Int
    BY DEF Fine, CacheOK, States
  <1>3. Refused \notin Handles
    BY NatAppAssumption
  <1>4. /\ \A k \in S : lib[k] = Refused \/ lib[k] \in FreeHandles(he)
        /\ tbl = 0 => \A k \in S : lib[k] = Refused
        /\ \A i, j \in S : i # j /\ lib[i] = lib[j] => lib[i] = Refused
    <2>1. lib \in [S -> Answers(he, tbl)]
      BY DEF Batch
    <2>2. \A i, j \in S : i # j /\ lib[i] = lib[j] => lib[i] = Refused
      BY DEF Batch
    <2>3. Answers(he, tbl) \subseteq FreeHandles(he) \cup {Refused}
      BY DEF Answers
    <2>4. tbl = 0 => Answers(he, tbl) = {Refused}
      BY DEF Answers
    <2> QED
      BY <2>1, <2>2, <2>3, <2>4
  <1>5. \A k \in CacheSlots : /\ k \in lost => cb[k] = Empty
                              /\ k \in kept => cb[k] = [ca[k] EXCEPT !.enabled = TRUE, !.hdl = lib[k]]
                              /\ k \notin S => cb[k] = ca[k]
    BY Zenon
  <1>6. \A h \in Handles : (~ \E k \in S : lib[k] = h) => hf[h] = he[h]
    OBVIOUS
  <1>7. \A k \in S : lib[k] # Refused => hf[lib[k]] = ca[k].rule
    <2> SUFFICES ASSUME NEW k \in S, lib[k] # Refused
                 PROVE  hf[lib[k]] = ca[k].rule
      OBVIOUS
    <2>1. lib[k] \in Handles /\ k \in kept
      BY <1>4 DEF FreeHandles
    <2>2. hf[lib[k]] = ca[CHOOSE i \in kept : lib[i] = lib[k]].rule
      BY <2>1
    <2>3. (CHOOSE i \in kept : lib[i] = lib[k]) = k
      BY <2>1, <1>4
    <2> QED
      BY <2>2, <2>3
  <1>8. hf \in [Handles -> Rules \cup {NoRule}]
    <2>1. \A h \in Handles : hf[h] \in Rules \cup {NoRule}
      <3> TAKE h \in Handles
      <3>1. CASE \E k \in S : lib[k] = h
        <4>1. PICK k \in S : lib[k] = h
          BY <3>1
        <4>2. hf[h] = ca[k].rule
          BY <4>1, <1>3, <1>7
        <4>3. ca[k] \in Entries
          BY <1>2
        <4> QED
          BY <4>2, <4>3 DEF Entries
      <3>2. CASE ~ \E k \in S : lib[k] = h
        BY <3>2, <1>2, <1>6
      <3> QED
        BY <3>1, <3>2
    <2> QED
      BY <2>1
  <1> HIDE DEF cb, hf
  <1>9. \A k \in kept : /\ cb[k] \in Entries /\ cb[k].rule = ca[k].rule /\ cb[k].hdl = lib[k]
                        /\ cb[k].enabled
    <2> TAKE k \in kept
    <2>1. /\ cb[k] = [ca[k] EXCEPT !.enabled = TRUE, !.hdl = lib[k]]
          /\ ca[k] \in Entries /\ lib[k] \in Handles
      BY <1>2, <1>4, <1>5 DEF FreeHandles
    <2> HIDE DEF ca
    <2> QED
      BY <2>1 DEF Entries
  <1>10. cb = [k \in CacheSlots |-> cb[k]]
    BY DEF cb
  <1>11. cb \in [CacheSlots -> Entries]
    <2>1. \A k \in CacheSlots : cb[k] \in Entries
      BY <1>2, <1>5, <1>9, EmptyFacts
    <2> QED
      BY <1>10, <2>1
  <1>12. n \in Int
    <2>1. IsFiniteSet(CacheSlots)
      BY NatAppAssumption, FS_Interval DEF CacheSlots
    <2>2. IsFiniteSet(lost)
      BY <2>1, FS_Subset
    <2>3. Cardinality(lost) \in Nat
      BY <2>2, FS_CardinalityType
    <2> QED
      BY <2>3, <1>2
  <1>13. \A k \in S : lib[k] = Refused => ~cb[k].enabled
    BY <1>5, EmptyFacts, Zenon
  <1>14. Linked(cb, hf)
    <2>1. \A k \in S : lib[k] # Refused => cb[k].enabled /\ cb[k].rule = ca[k].rule /\ cb[k].hdl = lib[k]
      BY <1>9, Zenon
    <2>2. \A k \in CacheSlots \ S : cb[k] = ca[k]
      BY <1>5
    <2>3. (\A k \in S : ca[k].rule # NoRule) /\ (\A k \in S : ~ca[k].enabled)
      BY Zenon
    <2> HIDE DEF ca, he
    <2>4. Reinstalled(ca, he, cb, hf, S, lib)
      <3>1. \A k \in S : lib[k] = Refused \/ lib[k] \in FreeHandles(he)
        BY <1>4, Zenon
      <3>2. \A i, j \in S : i # j /\ lib[i] = lib[j] => lib[i] = Refused
        BY <1>4
      <3> QED
        BY <1>6, <1>7, <1>13, <2>1, <2>2, <2>3, <3>1, <3>2, Zenon DEF Reinstalled
    <2> QED
      BY <1>2, <2>4, LinkedReinstall, Zenon
  <1>15. tbl = 0 => \A k \in CacheSlots : ~cb[k].enabled
    <2>1. tbl = 0 => \A k \in CacheSlots : ~ca[k].enabled
      BY Zenon DEF Fine, CacheOK
    <2> HIDE DEF ca, he
    <2> QED
      BY <1>4, <1>5, <1>13, <2>1, Zenon
  <1> HIDE DEF n
  <1>16. /\ su \in States /\ su.cache = cb /\ su.temp = st.temp /\ su.cnt = n /\ su.held = hf
         /\ su.pwr = st.pwr
    BY <1>2, <1>8, <1>11, <1>12 DEF States
  <1> HIDE DEF su
  <1>17. Shrinks(st, su, lost, tbl)
    <2>1. lost \subseteq CacheSlots
      OBVIOUS
    <2>2. \A k \in lost : st.cache[k].rule # NoRule /\ su.cache[k].rule = NoRule
      BY <1>5, <1>16, EmptyFacts
    <2>3. \A k \in CacheSlots \ lost : su.cache[k].rule = st.cache[k].rule
      BY <1>5, <1>9, <1>16
    <2>4. su.cnt = st.cnt - Cardinality(lost)
      BY <1>16 DEF n
    <2>5. tbl = 0 => \A k \in CacheSlots : ~su.cache[k].enabled
      BY <1>15, <1>16, Zenon
    <2>6. Linked(su.cache, su.held)
      BY <1>14, <1>16
    <2> HIDE DEF lost
    <2> QED
      BY <1>16, <2>1, <2>2, <2>3, <2>4, <2>5, <2>6, Zenon DEF Shrinks
  <1>18. Fine(su, tbl, over)
    <2> HIDE DEF lost
    <2> QED
      BY <1>17, Shrunk, Zenon
  <1> QED
    BY <1>1, <1>16, <1>18

-----------------------------------------------------------------------------
(* NatApp's operations *)

\* AddEntry, whether or not the library takes the rule; other free handles stay free.
LEMMA AddEntryFine ==
    ASSUME NEW over, NEW st, Fine(st, nat_table_hdl, over), NEW r \in Rules, Own(r, over),
           NEW lib, lib = Refused \/ lib \in FreeHandles(st.held)
    PROVE  /\ Fine(AddEntry(st, r, lib), nat_table_hdl, over)
           /\ AddEntry(st, r, lib).temp = st.temp
           /\ \A g \in FreeHandles(st.held) : g # lib => g \in FreeHandles(AddEntry(st, r, lib).held)
  <1>1. CASE AddEntryFails(st, r, lib) \/ Invalid(r)
    BY <1>1 DEF AddEntry
  <1>2. CASE ~(AddEntryFails(st, r, lib) \/ Invalid(r)) /\ InPowerSave(st, r)
    <2>1. ~ChkForDup(st.cache, r) /\ FreeSlots(st.cache) # {}
      BY <1>2 DEF AddEntryFails
    <2>2. AddEntry(st, r, lib) = StoreOff(st, r)
      BY <1>2 DEF AddEntry, StoreOff
    <2> QED
      BY <2>1, <2>2, StoreDisabled
  <1>3. CASE ~(AddEntryFails(st, r, lib) \/ Invalid(r)) /\ ~InPowerSave(st, r)
    <2>1. /\ ~ChkForDup(st.cache, r) /\ FreeSlots(st.cache) # {} /\ nat_table_hdl # 0
          /\ lib \in FreeHandles(st.held)
      BY <1>3 DEF AddEntryFails
    <2>2. AddEntry(st, r, lib) = StoreOn(st, r, lib)
      BY <1>3 DEF AddEntry, StoreOn
    <2> DEFINE su == StoreOn(st, r, lib)
    <2>3. /\ Fine(su, nat_table_hdl, over) /\ su.temp = st.temp
          /\ su.held = [st.held EXCEPT ![lib] = r]
      BY <2>1, StoreEnabled
    <2> HIDE DEF su
    <2>4. \A g \in FreeHandles(st.held) : g # lib => g \in FreeHandles(su.held)
      <3>1. st.held \in [Handles -> Rules \cup {NoRule}]
        BY DEF Fine, CacheOK
      <3> QED
        BY <3>1, <2>3 DEF FreeHandles
    <2> QED
      BY <2>2, <2>3, <2>4 DEF su
  <1> QED
    BY <1>1, <1>2, <1>3

\* CacheEntry, while the WAN is down.
LEMMA CacheEntryFine ==
    ASSUME NEW tbl, NEW over, NEW st, Fine(st, tbl, over), NEW r \in Rules, Own(r, over)
    PROVE  Fine(CacheEntry(st, r), tbl, over)
  <1>1. CASE Invalid(r) \/ ChkForDup(st.cache, r) \/ FreeSlots(st.cache) = {}
    BY <1>1 DEF CacheEntry
  <1>2. CASE ~(Invalid(r) \/ ChkForDup(st.cache, r) \/ FreeSlots(st.cache) = {})
    <2>1. CacheEntry(st, r) = StoreOff(st, r)
      BY <1>2 DEF CacheEntry, StoreOff
    <2> QED
      BY <1>2, <2>1, StoreDisabled
  <1> QED
    BY <1>1, <1>2

\* The slots a search of the cache looks at.
LEMMA CacheSlotsOf ==
    ASSUME NEW ca, NEW r
    PROVE  SlotsOf(cacheRules(ca), r) = {k \in CacheSlots : ca[k].rule # NoRule /\ SameTuple(ca[k].rule, r)}
  BY DEF SlotsOf, cacheRules

\* DeleteEntry leaves no entry for the rule.
LEMMA DeleteEntryFine ==
    ASSUME NEW tbl, NEW over, NEW st, Fine(st, tbl, over), NEW r
    PROVE  /\ Fine(DeleteEntry(st, r), tbl, over)
           /\ DeleteEntry(st, r).temp = st.temp
           /\ \A k \in CacheSlots : DeleteEntry(st, r).cache[k].rule # NoRule =>
                ~SameTuple(DeleteEntry(st, r).cache[k].rule, r)
  <1> DEFINE S == SlotsOf(cacheRules(st.cache), r)
             k == First(S)
             su == Wipe(st, {k})
  <1>1. S = {i \in CacheSlots : st.cache[i].rule # NoRule /\ SameTuple(st.cache[i].rule, r)}
    BY CacheSlotsOf
  <1> HIDE DEF S
  <1>2. CASE S = {}
    <2>1. DeleteEntry(st, r) = st
      BY <1>2 DEF DeleteEntry, S
    <2> QED
      BY <1>1, <1>2, <2>1
  <1>3. CASE S # {}
    <2>1. DeleteEntry(st, r) = su
      BY <1>3 DEF DeleteEntry, S
    <2>2. S \in SUBSET Nat
      BY <1>1, NatAppAssumption DEF CacheSlots
    <2>3. k \in S
      BY <1>3, <2>2, FirstFound
    <2> HIDE DEF k
    <2>4. {k} \in SUBSET CacheSlots /\ \A i \in {k} : st.cache[i].rule # NoRule
      BY <1>1, <2>3
    <2>5. /\ Fine(su, tbl, over) /\ su.temp = st.temp
          /\ \A i \in {k} : su.cache[i].rule = NoRule
          /\ \A i \in CacheSlots \ {k} : su.cache[i] = st.cache[i]
      <3> DEFINE T == {k}
      <3>1. T \in SUBSET CacheSlots /\ \A i \in T : st.cache[i].rule # NoRule
        BY <2>4
      <3> HIDE DEF T
      <3>2. /\ Fine(Wipe(st, T), tbl, over) /\ Wipe(st, T).temp = st.temp
            /\ \A i \in T : Wipe(st, T).cache[i].rule = NoRule
            /\ \A i \in CacheSlots \ T : Wipe(st, T).cache[i] = st.cache[i]
        BY <3>1, WipeFine
      <3> QED
        BY <3>2 DEF T
    <2> HIDE DEF su
    <2>6. \A i \in CacheSlots : su.cache[i].rule # NoRule => ~SameTuple(su.cache[i].rule, r)
      <3> SUFFICES ASSUME NEW i \in CacheSlots, su.cache[i].rule # NoRule,
                          SameTuple(su.cache[i].rule, r)
                   PROVE  FALSE
        OBVIOUS
      <3>1. i # k /\ su.cache[i] = st.cache[i]
        BY <2>5
      <3>2. SameTuple(st.cache[i].rule, st.cache[k].rule) /\ st.cache[i].rule # NoRule
            /\ st.cache[k].rule # NoRule /\ k \in CacheSlots
        BY <3>1, <1>1, <2>3 DEF SameTuple
      <3>3. Distinct(st.cache)
        BY DEF Fine, CacheOK
      <3> QED
        BY <3>1, <3>2, <3>3 DEF Distinct
    <2> QED
      BY <2>1, <2>5, <2>6
  <1> QED
    BY <1>2, <1>3

\* Only the waiting connections change.
LEMMA TempFine ==
    ASSUME NEW tbl, NEW over, NEW st, Fine(st, tbl, over), NEW te, ConnsOK(st.cache, te, over)
    PROVE  /\ Fine([st EXCEPT !.temp = te], tbl, over)
           /\ [st EXCEPT !.temp = te].temp = te /\ [st EXCEPT !.temp = te].held = st.held
           /\ [st EXCEPT !.temp = te].cache = st.cache
  <1> DEFINE su == [st EXCEPT !.temp = te]
  <1>1. st \in States /\ te \in [TempSlots -> Rules \cup {NoRule}]
    BY DEF Fine, ConnsOK
  <1>2. su \in States /\ su.cache = st.cache /\ su.held = st.held /\ su.cnt = st.cnt /\ su.temp = te
    BY <1>1 DEF States
  <1> HIDE DEF su
  <1>3. Fine(su, tbl, over)
    BY <1>2 DEF Fine
  <1> QED
    BY <1>2, <1>3 DEF su

\* A slot that is emptied.
LEMMA TempEmptied ==
    ASSUME NEW ca, NEW te, NEW over, ConnsOK(ca, te, over), NEW k
    PROVE  ConnsOK(ca, [te EXCEPT ![k] = NoRule], over)
  <1> DEFINE tf == [te EXCEPT ![k] = NoRule]
  <1>1. te \in [TempSlots -> Rules \cup {NoRule}]
    BY DEF ConnsOK
  <1>2. tf \in [TempSlots -> Rules \cup {NoRule}] /\ \A i \in TempSlots : tf[i] # NoRule => tf[i] = te[i]
    BY <1>1
  <1> HIDE DEF tf
  <1>3. ConnsOK(ca, tf, over)
    BY <1>2 DEF ConnsOK
  <1> QED
    BY <1>3 DEF tf

\* A slot that is given a rule, unless another slot holds the connection.
LEMMA TempFilled ==
    ASSUME NEW ca, NEW te, NEW over, ConnsOK(ca, te, over), NEW k \in TempSlots,
           NEW r \in Rules, Own(r, over),
           src[r.conn] \in Clients =>
             \A i \in TempSlots \ {k} : te[i] # NoRule => te[i].conn # r.conn
    PROVE  ConnsOK(ca, [te EXCEPT ![k] = r], over)
  <1> DEFINE tf == [te EXCEPT ![k] = r]
  <1>1. te \in [TempSlots -> Rules \cup {NoRule}]
    BY DEF ConnsOK
  <1>2. /\ tf \in [TempSlots -> Rules \cup {NoRule}] /\ tf[k] = r
        /\ \A i \in TempSlots \ {k} : tf[i] = te[i]
    BY <1>1
  <1> HIDE DEF tf
  <1>3. \A i \in TempSlots : tf[i] # NoRule => Own(tf[i], over)
    BY <1>2 DEF ConnsOK
  <1>4. \A i, j \in TempSlots :
          tf[i] # NoRule /\ tf[j] # NoRule /\ tf[i].conn = tf[j].conn /\ src[tf[i].conn] \in Clients => i = j
    BY <1>2 DEF ConnsOK
  <1>5. ConnsOK(ca, tf, over)
    BY <1>2, <1>3, <1>4 DEF ConnsOK
  <1> QED
    BY <1>5 DEF tf

\* AddTempEntry.
LEMMA AddTempFine ==
    ASSUME NEW tbl, NEW over, NEW st, Fine(st, tbl, over), NEW r \in Rules, Own(r, over)
    PROVE  Fine(AddTempEntry(st, r), tbl, over)
  <1> DEFINE room == Holding(st.temp, NoRule)
             k == First(room)
             stay == isAlgPort(r) \/ ChkForDup(st.cache, r) \/ SlotsOf(st.temp, r) # {} \/ room = {}
             te == [st.temp EXCEPT ![k] = r]
  <1>1. ConnsOK(st.cache, st.temp, over) /\ st.temp \in [TempSlots -> Rules \cup {NoRule}]
    BY DEF Fine, ConnsOK
  <1>2. CASE stay
    BY <1>2 DEF AddTempEntry
  <1>3. CASE ~stay
    <2>1. AddTempEntry(st, r) = [st EXCEPT !.temp = te]
      BY <1>3 DEF AddTempEntry
    <2>2. room \in SUBSET TempSlots /\ room \in SUBSET Nat
      BY <1>1, NatAppAssumption DEF Holding, TempSlots
    <2>3. k \in TempSlots
      BY <1>3, <2>2, FirstFound
    <2>4. src[r.conn] \in Clients => \A i \in TempSlots \ {k} : st.temp[i] # NoRule => st.temp[i].conn # r.conn
      <3> SUFFICES ASSUME src[r.conn] \in Clients, NEW i \in TempSlots, st.temp[i] # NoRule,
                          st.temp[i].conn = r.conn
                   PROVE  FALSE
        OBVIOUS
      <3>1. Own(st.temp[i], over)
        BY <1>1 DEF ConnsOK
      <3>2. SameTuple(st.temp[i], r)
        BY <3>1 DEF SameTuple, Own
      <3>3. i \in SlotsOf(st.temp, r)
        BY <3>2, <1>1 DEF SlotsOf
      <3> QED
        BY <1>3, <3>3
    <2> HIDE DEF k
    <2>5. ConnsOK(st.cache, te, over)
      BY <1>1, <2>3, <2>4, TempFilled
    <2> HIDE DEF te
    <2> QED
      BY <2>1, <2>5, TempFine
  <1> QED
    BY <1>2, <1>3

\* Nothing waits for the connection of the rule, if it carries the address of a NAT client.
Cleared(te, r) ==
    src[r.conn] \in Clients /\ r.private_ip = src[r.conn] =>
      \A k \in TempSlots : te[k] # NoRule => te[k].conn # r.conn

\* DeleteTempEntry: if the rule carries the address of its NAT client, nothing waits
\* for its connection afterwards.
LEMMA DeleteTempFine ==
    ASSUME NEW tbl, NEW over, NEW st, Fine(st, tbl, over), NEW r
    PROVE  /\ Fine(DeleteTempEntry(st, r), tbl, over)
           /\ DeleteTempEntry(st, r).cache = st.cache
           /\ Cleared(DeleteTempEntry(st, r).temp, r)
  <1> DEFINE S == SlotsOf(st.temp, r)
             k == First(S)
             te == [st.temp EXCEPT ![k] = NoRule]
             client == src[r.conn] \in Clients /\ r.private_ip = src[r.conn]
  <1>1. ConnsOK(st.cache, st.temp, over) /\ st.temp \in [TempSlots -> Rules \cup {NoRule}]
    BY DEF Fine, ConnsOK
  <1>2. S = {i \in TempSlots : st.temp[i] # NoRule /\ SameTuple(st.temp[i], r)}
    BY <1>1 DEF SlotsOf
  <1>3. client => \A i \in TempSlots : st.temp[i] # NoRule /\ st.temp[i].conn = r.conn => i \in S
    <2> SUFFICES ASSUME client, NEW i \in TempSlots, st.temp[i] # NoRule, st.temp[i].conn = r.conn
                 PROVE  i \in S
      OBVIOUS
    <2>1. Own(st.temp[i], over)
      BY <1>1 DEF ConnsOK
    <2> QED
      BY <2>1, <1>2 DEF SameTuple, Own
  <1>4. CASE S = {}
    <2>1. DeleteTempEntry(st, r) = st
      BY <1>4 DEF DeleteTempEntry
    <2> QED
      BY <1>3, <1>4, <2>1 DEF Cleared
  <1>5. CASE S # {}
    <2>1. DeleteTempEntry(st, r) = [st EXCEPT !.temp = te]
      BY <1>5 DEF DeleteTempEntry
    <2>2. S \in SUBSET Nat
      BY <1>2, NatAppAssumption DEF TempSlots
    <2>3. k \in S
      BY <1>5, <2>2, FirstFound
    <2> HIDE DEF S, k
    <2>4. ConnsOK(st.cache, te, over)
      BY <1>1, TempEmptied
    <2>5. te[k] = NoRule /\ \A i \in TempSlots : te[i] # NoRule => i # k /\ te[i] = st.temp[i]
      BY <1>1, <1>2, <2>3
    <2> HIDE DEF te
    <2>6. /\ Fine([st EXCEPT !.temp = te], tbl, over)
          /\ [st EXCEPT !.temp = te].temp = te /\ [st EXCEPT !.temp = te].cache = st.cache
      BY <2>4, TempFine
    <2>7. client => \A i \in TempSlots : te[i] # NoRule => te[i].conn # r.conn
      <3> SUFFICES ASSUME client, NEW i \in TempSlots, te[i] # NoRule, te[i].conn = r.conn
                   PROVE  FALSE
        OBVIOUS
      <3>1. i # k /\ st.temp[i] # NoRule /\ st.temp[i].conn = r.conn
        BY <2>5
      <3>2. k \in TempSlots /\ st.temp[k] # NoRule /\ st.temp[k].conn = r.conn
        BY <1>2, <2>3 DEF SameTuple
      <3> QED
        BY <1>1, <3>1, <3>2 DEF ConnsOK
    <2>8. Cleared(te, r)
      BY <2>7 DEF Cleared
    <2> QED
      BY <2>1, <2>6, <2>8
  <1> QED
    BY <1>4, <1>5

\* The loop of FlushTempEntries: f is the state after each turn.
LoopOf(f, st, a, isAdd, isDummy, lib) ==
    f = [k \in 0..MAX_TEMP_ENTRIES |->
           IF k = 0 THEN st
           ELSE IF k \in Waiting(st, a) THEN FlushSlot(f[k-1], k, isAdd, isDummy, lib[k])
                ELSE f[k-1]]

LEMMA FlushIsLoop ==
    ASSUME NEW st, NEW a, NEW isAdd, NEW isDummy, NEW lib
    PROVE  FlushTempEntries(st, a, isAdd, isDummy, lib)
             = (CHOOSE f : LoopOf(f, st, a, isAdd, isDummy, lib))[MAX_TEMP_ENTRIES]
  BY Zenon DEF FlushTempEntries, LoopOf

\* The loop runs: its turns define a function.
LEMMA LoopRuns ==
    ASSUME NEW st, NEW a, NEW isAdd, NEW isDummy, NEW lib
    PROVE  \E f : LoopOf(f, st, a, isAdd, isDummy, lib)
  <1> DEFINE Turn(x, k) == IF k \in Waiting(st, a) THEN FlushSlot(x, k, isAdd, isDummy, lib[k]) ELSE x
             M == MAX_TEMP_ENTRIES
             Upto(n, f) == f = [k \in 0..n |-> IF k = 0 THEN st ELSE Turn(f[k-1], k)]
             T == {n \in 0..M : ~ \E f : Upto(n, f)}
  <1>1. M \in Nat
    BY NatAppAssumption
  <1>2. T = {}
    <2> SUFFICES ASSUME T # {}
                 PROVE  FALSE
      OBVIOUS
    <2>1. T \in SUBSET Nat
      BY <1>1
    <2> HIDE DEF Turn, M
    <2>2. PICK n \in T : \A m \in T : n <= m
      <3> HIDE DEF T
      <3> QED
        BY <2>1, LeastNumber
    <2>3. n \in Nat /\ n \in 0..M
      BY <1>1
    <2>4. n # 0
      <3>1. Upto(0, [k \in 0..0 |-> st])
        BY Z3
      <3> HIDE DEF Upto
      <3> QED
        BY <2>2, <3>1
    <2>5. n - 1 \in Nat /\ n - 1 \in 0..M /\ n - 1 \notin T
      BY <1>1, <2>2, <2>3, <2>4
    <2>6. PICK f : Upto(n - 1, f)
      BY <2>5
    <2> DEFINE g == [k \in 0..n |-> IF k = n THEN Turn(f[n-1], n) ELSE f[k]]
    <2>7. \A k \in 0..n-1 : g[k] = f[k] /\ f[k] = IF k = 0 THEN st ELSE Turn(f[k-1], k)
      BY <2>3, <2>4, <2>6
    <2>8. g[n] = Turn(f[n-1], n)
      BY <2>3
    <2>9. \A k \in 0..n : g[k] = IF k = 0 THEN st ELSE Turn(g[k-1], k)
      <3> TAKE k \in 0..n
      <3>1. CASE k = 0
        <4>1. 0 \in 0..n-1
          BY <2>3, <2>4
        <4>2. g[0] = st
          BY <4>1, <2>7
        <4> HIDE DEF g
        <4> QED
          BY <3>1, <4>2
      <3>2. CASE k # 0
        <4>1. k - 1 \in 0..n-1
          BY <3>2, <2>3
        <4>2. g[k-1] = f[k-1]
          BY <4>1, <2>7
        <4>3. g[k] = Turn(f[k-1], k)
          <5>1. CASE k = n
            BY <5>1, <2>8
          <5>2. CASE k # n
            <6>1. k \in 0..n-1
              BY <5>2, <2>3
            <6> QED
              BY <6>1, <3>2, <2>7
          <5> QED
            BY <5>1, <5>2
        <4> QED
          BY <3>2, <4>2, <4>3
      <3> QED
        BY <3>1, <3>2
    <2>10. g = [k \in 0..n |-> g[k]]
      OBVIOUS
    <2> HIDE DEF g
    <2>11. Upto(n, g)
      BY <2>9, <2>10
    <2> QED
      BY <2>2, <2>11
  <1>3. \E f : Upto(M, f)
    BY <1>1, <1>2
  <1> QED
    BY <1>3, Zenon DEF LoopOf

\* One turn of the loop.
LEMMA FlushSlotFine ==
    ASSUME NEW over, NEW st, Fine(st, nat_table_hdl, over), NEW k \in TempSlots, st.temp[k] # NoRule,
           NEW isAdd, NEW isDummy, isDummy => src[st.temp[k].conn] \notin Clients,
           NEW lib, lib = Refused \/ lib \in FreeHandles(st.held)
    PROVE  /\ Fine(FlushSlot(st, k, isAdd, isDummy, lib), nat_table_hdl, over)
           /\ \A i \in TempSlots \ {k} : FlushSlot(st, k, isAdd, isDummy, lib).temp[i] = st.temp[i]
           /\ \A g \in FreeHandles(st.held) :
                g # lib => g \in FreeHandles(FlushSlot(st, k, isAdd, isDummy, lib).held)
  <1> DEFINE t == st.temp[k]
             r == IF isDummy THEN Dummy(t) ELSE t
             sf == FlushSlot(st, k, isAdd, isDummy, lib)
             gone == ~isAdd \/ t.public_ip # pub_ip_addr
  <1>1. ConnsOK(st.cache, st.temp, over) /\ st.temp \in [TempSlots -> Rules \cup {NoRule}]
    BY DEF Fine, ConnsOK
  <1>2. t \in Rules /\ Own(t, over)
    BY <1>1 DEF ConnsOK
  <1>3. r \in Rules /\ r.conn = t.conn /\ (src[t.conn] \in Clients => r = t)
    <2>1. CASE isDummy
      <3>1. Dummy(t) \in Rules /\ Dummy(t).conn = t.conn
        <4> HIDE DEF t
        <4> QED
          BY <1>2 DEF Dummy, Rules, Addrs
      <3> QED
        BY <2>1, <3>1
    <2>2. CASE ~isDummy
      BY <2>2, <1>2
    <2> QED
      BY <2>1, <2>2
  <1>4. Own(r, over)
    <2> HIDE DEF r, t
    <2> QED
      BY <1>2, <1>3 DEF Own
  <1>5. src[r.conn] \in Clients => \A i \in TempSlots \ {k} : st.temp[i] # NoRule => st.temp[i].conn # r.conn
    <2> HIDE DEF r
    <2> QED
      BY <1>1, <1>3 DEF ConnsOK
  <1>6. CASE gone
    <2> DEFINE te == [st.temp EXCEPT ![k] = NoRule]
    <2>1. sf = [st EXCEPT !.temp = te]
      BY <1>6 DEF FlushSlot
    <2>2. ConnsOK(st.cache, te, over)
      BY <1>1, TempEmptied
    <2>3. \A i \in TempSlots \ {k} : te[i] = st.temp[i]
      BY <1>1
    <2> HIDE DEF te, sf
    <2>4. /\ Fine([st EXCEPT !.temp = te], nat_table_hdl, over)
          /\ [st EXCEPT !.temp = te].temp = te /\ [st EXCEPT !.temp = te].held = st.held
      BY <2>2, TempFine
    <2>5. /\ Fine(sf, nat_table_hdl, over)
          /\ \A i \in TempSlots \ {k} : sf.temp[i] = st.temp[i]
          /\ \A g \in FreeHandles(st.held) : g # lib => g \in FreeHandles(sf.held)
      BY <2>1, <2>3, <2>4
    <2> QED
      BY <2>5, Zenon DEF sf
  <1>7. CASE ~gone /\ AddEntryFails(st, r, lib)
    <2> DEFINE te == [st.temp EXCEPT ![k] = r]
    <2>1. sf = [st EXCEPT !.temp = te]
      BY <1>7 DEF FlushSlot
    <2> HIDE DEF r
    <2>2. ConnsOK(st.cache, te, over)
      BY <1>1, <1>3, <1>4, <1>5, TempFilled
    <2>3. \A i \in TempSlots \ {k} : te[i] = st.temp[i]
      BY <1>1
    <2> HIDE DEF te, sf
    <2>4. /\ Fine([st EXCEPT !.temp = te], nat_table_hdl, over)
          /\ [st EXCEPT !.temp = te].temp = te /\ [st EXCEPT !.temp = te].held = st.held
      BY <2>2, TempFine
    <2>5. /\ Fine(sf, nat_table_hdl, over)
          /\ \A i \in TempSlots \ {k} : sf.temp[i] = st.temp[i]
          /\ \A g \in FreeHandles(st.held) : g # lib => g \in FreeHandles(sf.held)
      BY <2>1, <2>3, <2>4
    <2> QED
      BY <2>5, Zenon DEF sf
  <1>8. CASE ~gone /\ ~AddEntryFails(st, r, lib)
    <2> DEFINE sa == AddEntry(st, r, lib)
               te == [sa.temp EXCEPT ![k] = NoRule]
    <2>1. sf = [sa EXCEPT !.temp = te]
      BY <1>8 DEF FlushSlot
    <2> HIDE DEF r
    <2>2. /\ Fine(sa, nat_table_hdl, over) /\ sa.temp = st.temp
          /\ \A g \in FreeHandles(st.held) : g # lib => g \in FreeHandles(sa.held)
      BY <1>3, <1>4, AddEntryFine
    <2> HIDE DEF sa
    <2>3. ConnsOK(sa.cache, sa.temp, over)
      BY <2>2 DEF Fine
    <2>4. ConnsOK(sa.cache, te, over)
      BY <2>3, TempEmptied
    <2>5. \A i \in TempSlots \ {k} : te[i] = st.temp[i]
      BY <1>1, <2>2
    <2> HIDE DEF te, sf
    <2>6. /\ Fine([sa EXCEPT !.temp = te], nat_table_hdl, over)
          /\ [sa EXCEPT !.temp = te].temp = te /\ [sa EXCEPT !.temp = te].held = sa.held
      BY <2>2, <2>4, TempFine
    <2>7. /\ Fine(sf, nat_table_hdl, over)
          /\ \A i \in TempSlots \ {k} : sf.temp[i] = st.temp[i]
          /\ \A g \in FreeHandles(st.held) : g # lib => g \in FreeHandles(sf.held)
      BY <2>1, <2>2, <2>5, <2>6
    <2> QED
      BY <2>7, Zenon DEF sf
  <1> QED
    BY <1>6, <1>7, <1>8

\* The answers lib may be the library's to the entries that wait for a; a rule that is
\* rewritten is not one of a NAT client.
Flushable(st, a, isDummy, lib) ==
    /\ isDummy => \A k \in Waiting(st, a) : src[st.temp[k].conn] \notin Clients
    /\ \A k \in Waiting(st, a) : lib[k] = Refused \/ lib[k] \in FreeHandles(st.held)
    /\ \A i, j \in Waiting(st, a) : i # j /\ lib[i] = lib[j] => lib[i] = Refused

\* FlushTempEntries.  After k turns the entries beyond k wait as before and the answers
\* to them are still free.
LEMMA FlushFine ==
    ASSUME NEW over, NEW st, Fine(st, nat_table_hdl, over), NEW a, NEW isAdd, NEW isDummy, NEW lib,
           Flushable(st, a, isDummy, lib)
    PROVE  Fine(FlushTempEntries(st, a, isAdd, isDummy, lib), nat_table_hdl, over)
  <1> DEFINE f == CHOOSE h : LoopOf(h, st, a, isAdd, isDummy, lib)
             W == Waiting(st, a)
             M == MAX_TEMP_ENTRIES
             Good(k) == /\ Fine(f[k], nat_table_hdl, over)
                        /\ \A i \in TempSlots : i > k => f[k].temp[i] = st.temp[i]
                        /\ \A i \in W : i > k => lib[i] = Refused \/ lib[i] \in FreeHandles(f[k].held)
             T == {k \in 0..M : ~Good(k)}
  <1>1. FlushTempEntries(st, a, isAdd, isDummy, lib) = f[M]
    BY FlushIsLoop
  <1>2. LoopOf(f, st, a, isAdd, isDummy, lib)
    BY LoopRuns, Zenon
  <1>3. M \in Nat /\ TempSlots = 1..M
    BY NatAppAssumption DEF TempSlots
  <1> HIDE DEF f
  <1>4. f[0] = st
    BY <1>2, <1>3 DEF LoopOf
  <1>5. \A k \in 1..M : /\ k \in W => f[k] = FlushSlot(f[k-1], k, isAdd, isDummy, lib[k])
                        /\ k \notin W => f[k] = f[k-1]
    BY <1>2, <1>3 DEF LoopOf
  <1>6. W \subseteq TempSlots /\ \A k \in W : st.temp[k] # NoRule
    BY DEF Waiting
  <1>7. /\ isDummy => \A k \in W : src[st.temp[k].conn] \notin Clients
        /\ \A k \in W : lib[k] = Refused \/ lib[k] \in FreeHandles(st.held)
        /\ \A i, j \in W : i # j /\ lib[i] = lib[j] => lib[i] = Refused
    BY DEF Flushable
  <1> HIDE DEF W
  <1>8. Good(0)
    BY <1>4, <1>7
  <1>9. ASSUME NEW n \in 1..M, Good(n - 1)
        PROVE  Good(n)
    <2> DEFINE p == f[n-1]
    <2>1. n \in TempSlots /\ n > n - 1 /\ n \in Int
      BY <1>3
    <2>2. /\ Fine(p, nat_table_hdl, over)
          /\ \A i \in TempSlots : i >= n => p.temp[i] = st.temp[i]
          /\ \A i \in W : i >= n => lib[i] = Refused \/ lib[i] \in FreeHandles(p.held)
      BY <1>3, <1>6, <1>9
    <2> HIDE DEF p
    <2>3. CASE n \in W
      <3> DEFINE q == FlushSlot(p, n, isAdd, isDummy, lib[n])
                 l == lib[n]
      <3>1. f[n] = q
        BY <1>5, <2>3 DEF p
      <3>2. /\ p.temp[n] # NoRule /\ (isDummy => src[p.temp[n].conn] \notin Clients)
            /\ lib[n] = Refused \/ lib[n] \in FreeHandles(p.held)
        BY <1>6, <1>7, <2>1, <2>2, <2>3
      <3>3. /\ Fine(q, nat_table_hdl, over)
            /\ \A i \in TempSlots \ {n} : q.temp[i] = p.temp[i]
            /\ \A g \in FreeHandles(p.held) : g # l => g \in FreeHandles(q.held)
        BY <2>1, <2>2, <3>2, FlushSlotFine
      <3> HIDE DEF q
      <3>4. \A i \in TempSlots : i > n => q.temp[i] = st.temp[i]
        BY <1>3, <2>1, <2>2, <3>3
      <3>5. \A i \in W : i > n => lib[i] = Refused \/ lib[i] \in FreeHandles(q.held)
        <4> SUFFICES ASSUME NEW i \in W, i > n, lib[i] # Refused
                     PROVE  lib[i] \in FreeHandles(q.held)
          OBVIOUS
        <4>1. i # n /\ i >= n
          BY <1>3, <1>6, <2>1
        <4>2. lib[i] \in FreeHandles(p.held)
          BY <2>2, <4>1
        <4>3. lib[i] # l
          BY <1>7, <2>3, <4>1
        <4> QED
          BY <3>3, <4>2, <4>3
      <3> QED
        BY <3>1, <3>3, <3>4, <3>5
    <2>4. CASE n \notin W
      <3>1. f[n] = p
        BY <1>5, <2>4 DEF p
      <3> QED
        BY <1>3, <1>6, <2>1, <2>2, <3>1
    <2> QED
      BY <2>3, <2>4
  <1>10. T = {}
    <2> SUFFICES ASSUME T # {}
                 PROVE  FALSE
      OBVIOUS
    <2> HIDE DEF Good, M
    <2>1. T \in SUBSET Nat
      BY <1>3
    <2>2. PICK n \in T : \A m \in T : n <= m
      <3> HIDE DEF T
      <3> QED
        BY <2>1, LeastNumber
    <2>3. n \in 0..M /\ ~Good(n) /\ n # 0
      BY <1>8
    <2>4. n \in 1..M /\ n - 1 \in 0..M
      BY <1>3, <2>3
    <2>5. ~(n - 1 \in T)
      BY <1>3, <2>2, <2>3
    <2>6. Good(n - 1)
      BY <2>4, <2>5
    <2> QED
      BY <1>9, <2>3, <2>4, <2>6
  <1>11. Good(M)
    BY <1>3, <1>10
  <1> QED
    BY <1>1, <1>11

\* The library's answers to a loop.
LEMMA BatchAnswers ==
    ASSUME NEW S, NEW he, NEW tbl, NEW lib \in Batch(S, Answers(he, tbl))
    PROVE  /\ \A k \in S : lib[k] = Refused \/ lib[k] \in FreeHandles(he)
           /\ \A i, j \in S : i # j /\ lib[i] = lib[j] => lib[i] = Refused
  <1>1. lib \in [S -> Answers(he, tbl)] /\ \A i, j \in S : i # j /\ lib[i] = lib[j] => lib[i] = Refused
    BY DEF Batch
  <1>2. Answers(he, tbl) \subseteq FreeHandles(he) \cup {Refused}
    BY DEF Answers
  <1> QED
    BY <1>1, <1>2

LEMMA AddTempEntriesFine ==
    ASSUME NEW over, NEW st, Fine(st, nat_table_hdl, over), NEW a, NEW isDummy,
           isDummy => \A k \in Waiting(st, a) : src[st.temp[k].conn] \notin Clients,
           NEW su \in AddTempEntries(st, a, isDummy)
    PROVE  Fine(su, nat_table_hdl, over)
  <1>1. PICK lib \in Batch(Waiting(st, a), Answers(st.held, nat_table_hdl)) :
          su = FlushTempEntries(st, a, TRUE, isDummy, lib)
    BY Zenon DEF AddTempEntries
  <1>2. /\ \A k \in Waiting(st, a) : lib[k] = Refused \/ lib[k] \in FreeHandles(st.held)
        /\ \A i, j \in Waiting(st, a) : i # j /\ lib[i] = lib[j] => lib[i] = Refused
    BY BatchAnswers
  <1>3. Flushable(st, a, isDummy, lib)
    BY <1>2 DEF Flushable
  <1>4. Fine(FlushTempEntries(st, a, TRUE, isDummy, lib), nat_table_hdl, over)
    BY <1>3, FlushFine, Zenon
  <1> QED
    BY <1>1, <1>4, Zenon

LEMMA DropTempEntriesFine ==
    ASSUME NEW over, NEW st, Fine(st, nat_table_hdl, over), NEW a
    PROVE  Fine(DropTempEntries(st, a), nat_table_hdl, over)
  <1> DEFINE lib == [k \in TempSlots |-> Refused]
  <1>1. \A k \in Waiting(st, a) : lib[k] = Refused
    BY DEF Waiting
  <1> HIDE DEF lib
  <1>2. Flushable(st, a, FALSE, lib)
    BY <1>1, Zenon DEF Flushable
  <1>3. Fine(FlushTempEntries(st, a, FALSE, FALSE, lib), nat_table_hdl, over)
    BY <1>2, FlushFine, Zenon
  <1> QED
    BY <1>3, Zenon DEF DropTempEntries, lib

\* PwrSaveIfs alone changes.
LEMMA PwrFine ==
    ASSUME NEW tbl, NEW over, NEW st, Fine(st, tbl, over), NEW k, NEW b \in Clients \cup {NoAddr}
    PROVE  /\ Fine([st EXCEPT !.pwr[k] = b], tbl, over)
           /\ [st EXCEPT !.pwr[k] = b].cache = st.cache
           /\ [st EXCEPT !.pwr[k] = b].held = st.held
  <1> DEFINE su == [st EXCEPT !.pwr[k] = b]
             pw == [st.pwr EXCEPT ![k] = b]
  <1>1. st \in States /\ st.pwr \in [PwrSlots -> Clients \cup {NoAddr}]
    BY DEF Fine, States
  <1>2. pw \in [PwrSlots -> Clients \cup {NoAddr}] /\ su = [st EXCEPT !.pwr = pw]
    BY <1>1
  <1> HIDE DEF pw, su
  <1>3. /\ su \in States /\ su.cache = st.cache /\ su.temp = st.temp /\ su.held = st.held
        /\ su.cnt = st.cnt
    BY <1>1, <1>2 DEF States
  <1>4. Fine(su, tbl, over)
    BY <1>3 DEF Fine
  <1> QED
    BY <1>3, <1>4 DEF su

LEMMA AwakenFine ==
    ASSUME NEW tbl, NEW over, NEW st, Fine(st, tbl, over), NEW a
    PROVE  /\ Fine(Awaken(st, a), tbl, over)
           /\ Awaken(st, a).cache = st.cache /\ Awaken(st, a).held = st.held
  <1>1. CASE Holding(st.pwr, a) = {}
    BY <1>1 DEF Awaken
  <1>2. CASE Holding(st.pwr, a) # {}
    <2>1. Awaken(st, a) = [st EXCEPT !.pwr[First(Holding(st.pwr, a))] = NoAddr]
      BY <1>2 DEF Awaken
    <2> QED
      BY <2>1, PwrFine
  <1> QED
    BY <1>1, <1>2

\* Power save: on, off, and the client leaves.
LEMMA PowerFine ==
    ASSUME NEW over, NEW st, Fine(st, nat_table_hdl, over), NEW a \in Clients
    PROVE  /\ Fine(UpdatePwrSaveIf(st, a), nat_table_hdl, over)
           /\ \A su \in ResetPwrSaveIf(st, a) : Fine(su, nat_table_hdl, over)
  <1>1. EntriesOf(st, a) \in SUBSET CacheSlots
    BY DEF EntriesOf
  <1>2. Fine(UpdatePwrSaveIf(st, a), nat_table_hdl, over)
    <2> DEFINE room == Holding(st.pwr, NoAddr)
               noted == IF room = {} THEN st ELSE [st EXCEPT !.pwr[First(room)] = a]
    <2>1. Fine(noted, nat_table_hdl, over)
      <3>1. Fine([st EXCEPT !.pwr[First(room)] = a], nat_table_hdl, over)
        BY PwrFine
      <3> QED
        BY <3>1
    <2>2. UpdatePwrSaveIf(st, a) = st \/ UpdatePwrSaveIf(st, a) = Disable(noted, EntriesOf(st, a))
      BY DEF UpdatePwrSaveIf
    <2> HIDE DEF noted
    <2>3. Fine(Disable(noted, EntriesOf(st, a)), nat_table_hdl, over)
      BY <1>1, <2>1, DisableFine
    <2> QED
      BY <2>2, <2>3
  <1>3. ASSUME NEW su \in ResetPwrSaveIf(st, a)
        PROVE  Fine(su, nat_table_hdl, over)
    <2> DEFINE S == DisabledOf(st, a)
               sw == Awaken(st, a)
    <2>1. PICK lib \in Batch(S, Answers(st.held, nat_table_hdl)) : su = Reinstall(sw, S, lib)
      BY Zenon DEF ResetPwrSaveIf
    <2>2. Fine(sw, nat_table_hdl, over) /\ sw.cache = st.cache /\ sw.held = st.held
      BY AwakenFine
    <2>3. S \in SUBSET CacheSlots /\ \A k \in S : st.cache[k].rule # NoRule
      BY DEF DisabledOf, EntriesOf
    <2>4. \A k \in S : ~st.cache[k].enabled
      BY Zenon DEF DisabledOf
    <2> HIDE DEF S, sw
    <2>5. \A k \in S : sw.cache[k].rule # NoRule /\ ~sw.cache[k].enabled
      BY <2>2, <2>3, <2>4, Zenon
    <2>6. lib \in Batch(S, Answers(sw.held, nat_table_hdl))
      BY <2>2
    <2>7. Fine(Reinstall(sw, S, lib), nat_table_hdl, over)
      BY <2>2, <2>3, <2>5, <2>6, ReinstallFine, Zenon
    <2> QED
      BY <2>1, <2>7
  <1> QED
    BY <1>2, <1>3

LEMMA ClntDisconFine ==
    ASSUME NEW tbl, NEW over, NEW st, Fine(st, tbl, over), NEW a
    PROVE  Fine(DelEntriesOnClntDiscon(st, a), tbl, over)
  <1>1. EntriesOf(st, a) \in SUBSET CacheSlots
    BY DEF EntriesOf
  <1>2. Fine(Awaken(st, a), tbl, over)
    BY AwakenFine
  <1>3. Fine(Disable(Awaken(st, a), EntriesOf(st, a)), tbl, over)
    BY <1>1, <1>2, DisableFine
  <1> QED
    BY <1>3 DEF DelEntriesOnClntDiscon

LEMMA STAClntDisconFine ==
    ASSUME NEW tbl, NEW over, NEW st, Fine(st, tbl, over), NEW a
    PROVE  Fine(DelEntriesOnSTAClntDiscon(st, a), tbl, over)
  <1> DEFINE S == {k \in CacheSlots : st.cache[k].rule # NoRule /\ dst[st.cache[k].rule.conn] = a}
  <1>1. S \in SUBSET CacheSlots /\ \A k \in S : st.cache[k].rule # NoRule
    OBVIOUS
  <1>2. DelEntriesOnSTAClntDiscon(st, a) = Wipe(st, S)
    BY Zenon DEF DelEntriesOnSTAClntDiscon
  <1> HIDE DEF S
  <1>3. Fine(Wipe(st, S), tbl, over)
    BY <1>1, WipeFine
  <1> QED
    BY <1>2, <1>3

-----------------------------------------------------------------------------
(* The inductive invariant *)

\* The connections that are over.
Over == {c \in Conns : life[c] = "closed"}

\* StaClntCnt counts the peers that are stored.
StaCounted == StaClntCnt = Cardinality({k \in StaSlots : sta_clnt_ipv4_addr[k] # NoAddr})

\* The listener's own variables have their types.
ListenerOK ==
    /\ {pub_ip_addr, pub_ip_addr_pre, wan_ipaddr} \subseteq Wans \cup {NoAddr}
    /\ nat_table_hdl \in {0, 1}
    /\ {WanUp, isStaMode} \subseteq BOOLEAN
    /\ nat_iface_ipv4_addr \in [IfaceSlots -> Clients \cup {NoAddr}]
    /\ nonnat_iface_ipv4_addr \in [IfaceSlots -> NonNatClients \cup {NoAddr}]
    /\ sta_clnt_ipv4_addr \in [StaSlots -> StaClients \cup {NoAddr}]
    /\ life \in [Conns -> {"open", "fin", "closed"}]
    /\ power_save_set \subseteq Clients

\* NatApp's state is fine, for the connections that are over.
NatFine == Fine(State, nat_table_hdl, Over)

CacheInv == NatFine /\ ListenerOK /\ TableFollowsWan /\ StaCounted

\* A handler that leaves NatApp in a fine state keeps it so.
LEMMA BecomeFine ==
    ASSUME NEW su, Fine(su, nat_table_hdl', Over'), Become(su)
    PROVE  NatFine'
  <1>1. su \in States
    BY DEF Fine
  <1>2. State' = su
    BY <1>1 DEF State, Become, States
  <1> QED
    BY <1>2 DEF NatFine

\* Without an enabled entry everything agrees with or without a table.
LEMMA FineTable ==
    ASSUME NEW tbl, NEW tbm, NEW over, NEW st, Fine(st, tbl, over),
           \A k \in CacheSlots : ~st.cache[k].enabled
    PROVE  Fine(st, tbm, over)
  BY Zenon DEF Fine, CacheOK

\* A new table, with the entries of the cache or without.
LEMMA AddTableFine ==
    ASSUME NEW tbl, NEW over, NEW st, Fine(st, tbl, over),
           \A k \in CacheSlots : ~st.cache[k].enabled,
           NEW pub, NEW pre, NEW su \in AddTable(st, pub, pre)
    PROVE  Fine(su, 1, over)
  <1> DEFINE S == IF pub # pre THEN {} ELSE {k \in CacheSlots : st.cache[k].rule # NoRule}
  <1>1. PICK lib \in Batch(S, Answers(st.held, 1)) : su = Reinstall(st, S, lib)
    BY Zenon DEF AddTable
  <1>2. S \in SUBSET CacheSlots /\ \A k \in S : st.cache[k].rule # NoRule
    OBVIOUS
  <1> HIDE DEF S
  <1>3. \A k \in S : st.cache[k].rule # NoRule /\ ~st.cache[k].enabled
    BY <1>2, Zenon
  <1>4. Fine(st, 1, over)
    BY FineTable, Zenon
  <1>5. Fine(Reinstall(st, S, lib), 1, over)
    BY <1>2, <1>3, <1>4, ReinstallFine, Zenon
  <1> QED
    BY <1>1, <1>5

\* A slot that is filled, and one that is emptied, in the array of the STA clients.
LEMMA StaCount ==
    ASSUME NEW sta \in [StaSlots -> StaClients \cup {NoAddr}], NEW k \in StaSlots, NEW a \in StaClients
    PROVE  LET Used(array) == {i \in StaSlots : array[i] # NoAddr} IN
           /\ Cardinality(Used(sta)) \in 0..MAX_STA_CLNT_IFACES
           /\ sta[k] = NoAddr => Cardinality(Used([sta EXCEPT ![k] = a])) = Cardinality(Used(sta)) + 1
           /\ sta[k] # NoAddr => Cardinality(Used([sta EXCEPT ![k] = NoAddr])) = Cardinality(Used(sta)) - 1
  <1> DEFINE Used(array) == {i \in StaSlots : array[i] # NoAddr}
             U == Used(sta)
  <1>0. a # NoAddr
    BY AddressAssumption
  <1>1. IsFiniteSet(StaSlots) /\ Cardinality(StaSlots) = MAX_STA_CLNT_IFACES /\ MAX_STA_CLNT_IFACES \in Nat
    BY NatAppAssumption, FS_Interval DEF StaSlots
  <1>2. U \in SUBSET StaSlots
    OBVIOUS
  <1>3. sta[k] = NoAddr => k \notin U /\ Used([sta EXCEPT ![k] = a]) = U \cup {k}
    BY <1>0
  <1>4. sta[k] # NoAddr => k \in U /\ Used([sta EXCEPT ![k] = NoAddr]) = U \ {k}
    OBVIOUS
  <1> HIDE DEF U
  <1>5. IsFiniteSet(U) /\ Cardinality(U) <= Cardinality(StaSlots)
    BY <1>1, <1>2, FS_Subset
  <1>6. Cardinality(U) \in Nat
    BY <1>5, FS_CardinalityType
  <1>7. k \notin U => Cardinality(U \cup {k}) = Cardinality(U) + 1
    BY <1>5, FS_AddElement
  <1>8. k \in U => Cardinality(U \ {k}) = Cardinality(U) - 1
    BY <1>5, FS_RemoveElement
  <1>9. Cardinality(U) \in 0..MAX_STA_CLNT_IFACES
    BY <1>1, <1>5, <1>6
  <1> QED
    BY <1>3, <1>4, <1>7, <1>8, <1>9 DEF U

\* Fewer connections are over.
LEMMA FineFewer ==
    ASSUME NEW tbl, NEW over, NEW st, Fine(st, tbl, over), NEW less, less \subseteq over
    PROVE  Fine(st, tbl, less)
  <1>1. ConnsOK(st.cache, st.temp, over)
    BY DEF Fine
  <1>2. ConnsOK(st.cache, st.temp, less)
    BY <1>1 DEF ConnsOK, Own
  <1> QED
    BY <1>2, Zenon DEF Fine

\* One more is over, of which nothing is left if it was a NAT client's.
LEMMA FineMore ==
    ASSUME NEW tbl, NEW over, NEW st, Fine(st, tbl, over), NEW c,
           src[c] \in Clients => /\ \A k \in CacheSlots : st.cache[k].rule # NoRule => st.cache[k].rule.conn # c
                                 /\ \A k \in TempSlots : st.temp[k] # NoRule => st.temp[k].conn # c
    PROVE  Fine(st, tbl, over \cup {c})
  <1>1. ConnsOK(st.cache, st.temp, over)
    BY DEF Fine
  <1>2. ConnsOK(st.cache, st.temp, over \cup {c})
    <2>1. \A k \in CacheSlots : st.cache[k].rule # NoRule => Own(st.cache[k].rule, over \cup {c})
      BY <1>1 DEF ConnsOK, Own
    <2>2. \A k \in TempSlots : st.temp[k] # NoRule => Own(st.temp[k], over \cup {c})
      BY <1>1 DEF ConnsOK, Own
    <2> QED
      BY <1>1, <2>1, <2>2 DEF ConnsOK
  <1> QED
    BY <1>2, Zenon DEF Fine

\* The rule made for a connection: the address of a NAT client is never rewritten.
LEMMA RuleOfFacts ==
    ASSUME ListenerOK, NEW c \in Conns
    PROVE  /\ RuleOf(c) \in Rules /\ RuleOf(c).conn = c
           /\ src[c] \in Clients => RuleOf(c).private_ip = src[c] /\ ~Ignored(c)
  <1> DEFINE r == PopulateTCPorUDPEntry(c)
  <1>1. /\ r \in Rules /\ r.conn = c /\ r.private_ip = src[c] /\ r.public_ip \in Addrs
    BY NatAppAssumption DEF PopulateTCPorUDPEntry, Rules, Addrs, ListenerOK
  <1> HIDE DEF r
  <1>2. Dummy(r) \in Rules /\ Dummy(r).conn = c
    BY <1>1 DEF Dummy, Rules
  <1>3. RuleOf(c) \in {r, Dummy(r)}
    BY DEF RuleOf, IfaceRule, r
  <1>4. ASSUME src[c] \in Clients
        PROVE  RuleOf(c).private_ip = src[c] /\ ~Ignored(c)
    <2>1. src[c] \notin Wans \cup {NoAddr} \cup NonNatClients /\ dst[c] \notin NonNatClients
      BY <1>4, AddressAssumption
    <2>2. src[c] # wan_ipaddr
      BY <2>1 DEF ListenerOK
    <2>3. ~OnNonNatIface(r)
      <3>1. nonnat_iface_ipv4_addr \in [IfaceSlots -> NonNatClients \cup {NoAddr}]
        BY DEF ListenerOK
      <3>2. ~Listed(nonnat_iface_ipv4_addr, src[c]) /\ ~Listed(nonnat_iface_ipv4_addr, dst[c])
        BY <2>1, <3>1 DEF Listed, Holding
      <3> QED
        BY <1>1, <3>2 DEF OnNonNatIface, OnIface
    <2>4. RuleOf(c) = r
      BY <2>2, <2>3 DEF RuleOf, IfaceRule, r
    <2>5. src[c] \in PrivateSubnet
      BY <1>4, AddressAssumption
    <2>6. AddIface(r)
      BY <1>1, <2>5 DEF AddIface
    <2> QED
      BY <1>1, <2>1, <2>2, <2>4, <2>6 DEF Ignored, NoNatStatus, r
  <1> QED
    BY <1>1, <1>2, <1>3, <1>4

\* The message of an open connection.
LEMMA AddNatFine ==
    ASSUME ListenerOK, NEW c \in Conns, NEW over, c \notin over,
           Fine(State, nat_table_hdl, over), NEW su \in AddNatEntry(c)
    PROVE  Fine(su, nat_table_hdl, over)
  <1> DEFINE r == RuleOf(c)
  <1>1. r \in Rules /\ r.conn = c /\ (src[c] \in Clients => r.private_ip = src[c])
    BY RuleOfFacts
  <1> HIDE DEF r
  <1>2. Own(r, over)
    BY <1>1 DEF Own
  <1>3. Fine(CacheEntry(State, r), nat_table_hdl, over) /\ Fine(AddTempEntry(State, r), nat_table_hdl, over)
    BY <1>1, <1>2, CacheEntryFine, AddTempFine
  <1>4. \A lib \in Answers(held, nat_table_hdl) : Fine(AddEntry(State, r, lib), nat_table_hdl, over)
    <2> TAKE lib \in Answers(held, nat_table_hdl)
    <2>1. lib = Refused \/ lib \in FreeHandles(held)
      BY DEF Answers
    <2>2. State.held = held
      BY DEF State
    <2> QED
      BY <1>1, <1>2, <2>1, <2>2, AddEntryFine
  <1>5. su \in {State, CacheEntry(State, r), AddTempEntry(State, r)}
          \cup {AddEntry(State, r, lib) : lib \in Answers(held, nat_table_hdl)}
    BY DEF AddNatEntry, r
  <1> QED
    BY <1>3, <1>4, <1>5

\* The message of a closing one: nothing is left of a NAT client's.
LEMMA DeleteNatFine ==
    ASSUME ListenerOK, NEW c \in Conns, NEW over, Fine(State, nat_table_hdl, over)
    PROVE  LET su == DeleteNatEntry(c) IN
           /\ Fine(su, nat_table_hdl, over)
           /\ src[c] \in Clients => /\ \A k \in CacheSlots : su.cache[k].rule # NoRule => su.cache[k].rule.conn # c
                                    /\ \A k \in TempSlots : su.temp[k] # NoRule => su.temp[k].conn # c
  <1> DEFINE r == RuleOf(c)
             su == DeleteNatEntry(c)
             sd == DeleteEntry(State, r)
  <1>1. r \in Rules /\ r.conn = c /\ (src[c] \in Clients => r.private_ip = src[c] /\ ~Ignored(c))
    BY RuleOfFacts
  <1>2. CASE Ignored(c)
    <2>1. su = State
      BY <1>2 DEF DeleteNatEntry
    <2> QED
      BY <1>1, <1>2, <2>1
  <1>3. CASE ~Ignored(c)
    <2>1. su = DeleteTempEntry(sd, r)
      BY <1>3 DEF DeleteNatEntry
    <2> HIDE DEF su, r
    <2>2. /\ Fine(sd, nat_table_hdl, over)
          /\ \A k \in CacheSlots : sd.cache[k].rule # NoRule => ~SameTuple(sd.cache[k].rule, r)
      BY DeleteEntryFine
    <2> HIDE DEF sd
    <2>3. Fine(su, nat_table_hdl, over) /\ su.cache = sd.cache /\ Cleared(su.temp, r)
      BY <2>1, <2>2, DeleteTempFine
    <2>4. ASSUME src[c] \in Clients, NEW k \in CacheSlots, su.cache[k].rule # NoRule,
                 su.cache[k].rule.conn = c
          PROVE  FALSE
      <3>1. ConnsOK(sd.cache, sd.temp, over)
        BY <2>2 DEF Fine
      <3>2. Own(sd.cache[k].rule, over)
        BY <2>3, <2>4, <3>1 DEF ConnsOK
      <3>3. SameTuple(sd.cache[k].rule, r)
        BY <1>1, <2>3, <2>4, <3>2 DEF Own, SameTuple, r
      <3> QED
        BY <2>2, <2>3, <2>4, <3>3
    <2>5. src[c] \in Clients => \A k \in TempSlots : su.temp[k] # NoRule => su.temp[k].conn # c
      BY <1>1, <2>3 DEF r, Cleared
    <2> QED
      BY <2>3, <2>4, <2>5 DEF su
  <1> QED
    BY <1>2, <1>3

-----------------------------------------------------------------------------
(* Every step preserves it *)

\* TriggerWANUp: no entry is enabled when the new table comes, because the old one is
\* gone or there was none.
LEMMA WanUpFine ==
    ASSUME CacheInv, NEW a \in Wans, NEW is_sta \in BOOLEAN, TriggerWANUp(a, is_sta)
    PROVE  NatFine'
  <1> DEFINE down == WanUp /\ CanDeleteTable(wan_ipaddr)
             st == IF down THEN Reset(State) ELSE State
             pre == IF down THEN pub_ip_addr ELSE pub_ip_addr_pre
  <1>1. Fine(State, nat_table_hdl, Over)
    BY DEF CacheInv, NatFine
  <1>2. Over' = Over
    BY DEF TriggerWANUp, Over
  <1>3. Fine(st, nat_table_hdl, Over) /\ \A k \in CacheSlots : ~st.cache[k].enabled
    <2>1. CASE down
      <3>1. st = Reset(State)
        BY <2>1
      <3>2. Fine(Reset(State), nat_table_hdl, Over) /\ \A k \in CacheSlots : ~Reset(State).cache[k].enabled
        BY <1>1, ResetFine, Zenon
      <3> HIDE DEF st
      <3> QED
        BY <3>1, <3>2, Zenon
    <2>2. CASE ~down
      <3>1. st = State
        BY <2>2
      <3>2. nat_table_hdl = 0
        BY <2>2 DEF CacheInv, TableFollowsWan, CanDeleteTable
      <3>3. \A k \in CacheSlots : ~State.cache[k].enabled
        BY <1>1, <3>2, Zenon DEF Fine, CacheOK
      <3> HIDE DEF st
      <3> QED
        BY <1>1, <3>1, <3>3, Zenon
    <2> QED
      BY <2>1, <2>2
  <1>4. \/ (\E new \in AddTable(st, a, pre) : Become(new)) /\ nat_table_hdl' = 1
        \/ Become(st) /\ nat_table_hdl' = 0
    BY Zenon DEF TriggerWANUp
  <1> HIDE DEF st, pre
  <1>5. CASE (\E new \in AddTable(st, a, pre) : Become(new)) /\ nat_table_hdl' = 1
    <2>1. PICK new \in AddTable(st, a, pre) : Become(new)
      BY <1>5
    <2>2. Fine(new, 1, Over)
      BY <1>3, AddTableFine, Zenon
    <2>3. Fine(new, nat_table_hdl', Over')
      BY <1>2, <1>5, <2>2
    <2> QED
      BY <2>1, <2>3, BecomeFine
  <1>6. CASE Become(st) /\ nat_table_hdl' = 0
    <2>1. Fine(st, 0, Over)
      BY <1>3, FineTable, Zenon
    <2>2. Fine(st, nat_table_hdl', Over')
      BY <1>2, <1>6, <2>1
    <2> QED
      BY <1>6, <2>2, BecomeFine
  <1> QED
    BY <1>4, <1>5, <1>6

LEMMA WanDownFine ==
    ASSUME CacheInv, NEW a \in Wans, TriggerWANDown(a)
    PROVE  NatFine'
  <1>1. Fine(State, nat_table_hdl, Over)
    BY DEF CacheInv, NatFine
  <1>2. Over' = Over /\ nat_table_hdl' = 0 /\ Become(Reset(State))
    BY DEF TriggerWANDown, Over
  <1>3. Fine(Reset(State), nat_table_hdl', Over)
    BY <1>1, ResetFine, Zenon
  <1>4. Fine(Reset(State), nat_table_hdl', Over')
    BY <1>2, <1>3
  <1> QED
    BY <1>2, <1>4, BecomeFine

\* A handler that touches neither the table nor a connection.
LEMMA BecomeSame ==
    ASSUME NEW su, Fine(su, nat_table_hdl, Over), Become(su), nat_table_hdl' = nat_table_hdl, life' = life
    PROVE  NatFine'
  <1>1. Over' = Over
    BY DEF Over
  <1>2. Fine(su, nat_table_hdl', Over')
    BY <1>1
  <1> QED
    BY <1>2, BecomeFine

\* The clients behind NAT interfaces.
LEMMA ClientFine ==
    ASSUME CacheInv, NEW a \in Clients,
           \/ HandleNeighIpAddrAddEvt(a) \/ HandleNeighIpAddrDelEvt(a)
           \/ WlanClientPwrSave(a) \/ WlanClientRecover(a)
    PROVE  NatFine'
  <1>1. Fine(State, nat_table_hdl, Over)
    BY DEF CacheInv, NatFine
  <1>2. nat_table_hdl' = nat_table_hdl /\ life' = life
    BY DEF HandleNeighIpAddrAddEvt, HandleNeighIpAddrDelEvt, WlanClientPwrSave, WlanClientRecover, tableVars
  <1>3. CASE HandleNeighIpAddrAddEvt(a)
    <2>1. PICK st \in ResetPwrSaveIf(State, a) : \E new \in AddTempEntries(st, a, FALSE) : Become(new)
      BY <1>3, Zenon DEF HandleNeighIpAddrAddEvt
    <2>2. PICK new \in AddTempEntries(st, a, FALSE) : Become(new)
      BY <2>1, Zenon
    <2>3. Fine(st, nat_table_hdl, Over)
      BY <1>1, PowerFine, Zenon
    <2>4. Fine(new, nat_table_hdl, Over)
      BY <2>3, AddTempEntriesFine, Zenon
    <2> QED
      BY <1>2, <2>2, <2>4, BecomeSame
  <1>4. CASE HandleNeighIpAddrDelEvt(a)
    <2> DEFINE sd == DropTempEntries(State, a)
    <2>1. Become(DelEntriesOnClntDiscon(sd, a))
      BY <1>4, Zenon DEF HandleNeighIpAddrDelEvt
    <2>2. Fine(sd, nat_table_hdl, Over)
      BY <1>1, DropTempEntriesFine
    <2> HIDE DEF sd
    <2>3. Fine(DelEntriesOnClntDiscon(sd, a), nat_table_hdl, Over)
      BY <2>2, ClntDisconFine
    <2> QED
      BY <1>2, <2>1, <2>3, BecomeSame
  <1>5. CASE WlanClientPwrSave(a)
    <2>1. Become(UpdatePwrSaveIf(State, a))
      BY <1>5, Zenon DEF WlanClientPwrSave
    <2>2. Fine(UpdatePwrSaveIf(State, a), nat_table_hdl, Over)
      BY <1>1, PowerFine, Zenon
    <2> QED
      BY <1>2, <2>1, <2>2, BecomeSame
  <1>6. CASE WlanClientRecover(a)
    <2>1. PICK new \in ResetPwrSaveIf(State, a) : Become(new)
      BY <1>6, Zenon DEF WlanClientRecover
    <2>2. Fine(new, nat_table_hdl, Over)
      BY <1>1, PowerFine, Zenon
    <2> QED
      BY <1>2, <2>1, <2>2, BecomeSame
  <1> QED
    BY <1>3, <1>4, <1>5, <1>6

\* The clients behind other interfaces: no connection of a NAT client waits for one.
LEMMA NonNatFine ==
    ASSUME CacheInv, NEW a \in NonNatClients, HandleNonNatIPAddrAdd(a) \/ HandleNonNatIPAddrDel(a)
    PROVE  NatFine'
  <1>1. Fine(State, nat_table_hdl, Over)
    BY DEF CacheInv, NatFine
  <1>2. nat_table_hdl' = nat_table_hdl /\ life' = life
    BY DEF HandleNonNatIPAddrAdd, HandleNonNatIPAddrDel, tableVars
  <1>3. CASE HandleNonNatIPAddrAdd(a)
    <2>1. PICK new \in AddTempEntries(State, a, TRUE) : Become(new)
      BY <1>3, Zenon DEF HandleNonNatIPAddrAdd
    <2>2. \A k \in Waiting(State, a) : src[State.temp[k].conn] \notin Clients
      <3> SUFFICES ASSUME NEW k \in Waiting(State, a), src[State.temp[k].conn] \in Clients
                   PROVE  FALSE
        OBVIOUS
      <3> DEFINE t == State.temp[k]
      <3>1. k \in TempSlots /\ t # NoRule /\ a \in {t.private_ip, dst[t.conn]}
        BY DEF Waiting
      <3>2. ConnsOK(State.cache, State.temp, Over)
        BY <1>1 DEF Fine
      <3>3. t \in Rules /\ Own(t, Over)
        BY <3>1, <3>2 DEF ConnsOK
      <3>4. t.private_ip \in Clients /\ t.conn \in Conns
        BY <3>3 DEF Own, Rules
      <3> HIDE DEF t
      <3>5. t.private_ip # a /\ dst[t.conn] # a
        BY <3>4, AddressAssumption DEF t
      <3> QED
        BY <3>1, <3>5
    <2>3. Fine(new, nat_table_hdl, Over)
      BY <1>1, <2>2, AddTempEntriesFine, Zenon
    <2> QED
      BY <1>2, <2>1, <2>3, BecomeSame
  <1>4. CASE HandleNonNatIPAddrDel(a)
    <2> DEFINE sd == DropTempEntries(State, a)
    <2>1. Become(DelEntriesOnClntDiscon(sd, a))
      BY <1>4, Zenon DEF HandleNonNatIPAddrDel
    <2>2. Fine(sd, nat_table_hdl, Over)
      BY <1>1, DropTempEntriesFine
    <2> HIDE DEF sd
    <2>3. Fine(DelEntriesOnClntDiscon(sd, a), nat_table_hdl, Over)
      BY <2>2, ClntDisconFine
    <2> QED
      BY <1>2, <2>1, <2>3, BecomeSame
  <1> QED
    BY <1>3, <1>4

\* The peers on the network joined in STA mode.
LEMMA StaFine ==
    ASSUME CacheInv, NEW a \in StaClients, HandleSTAClientAddEvt(a) \/ HandleSTAClientDelEvt(a)
    PROVE  NatFine'
  <1>1. Fine(State, nat_table_hdl, Over)
    BY DEF CacheInv, NatFine
  <1>2. nat_table_hdl' = nat_table_hdl /\ life' = life
    BY DEF HandleSTAClientAddEvt, HandleSTAClientDelEvt, tableVars
  <1>3. CASE HandleSTAClientAddEvt(a)
    <2>1. PICK new \in AddTempEntries(State, a, FALSE) : Become(new)
      BY <1>3, Zenon DEF HandleSTAClientAddEvt
    <2>2. Fine(new, nat_table_hdl, Over)
      BY <1>1, AddTempEntriesFine, Zenon
    <2> QED
      BY <1>2, <2>1, <2>2, BecomeSame
  <1>4. CASE HandleSTAClientDelEvt(a)
    <2> DEFINE sd == IF Holding(sta_clnt_ipv4_addr, a) = {} THEN State
                     ELSE DelEntriesOnSTAClntDiscon(State, a)
    <2>1. Become(DropTempEntries(sd, a))
      BY <1>4, Zenon DEF HandleSTAClientDelEvt
    <2>2. Fine(DelEntriesOnSTAClntDiscon(State, a), nat_table_hdl, Over)
      BY <1>1, STAClntDisconFine
    <2>3. Fine(sd, nat_table_hdl, Over)
      BY <1>1, <2>2
    <2> HIDE DEF sd
    <2>4. Fine(DropTempEntries(sd, a), nat_table_hdl, Over)
      BY <2>3, DropTempEntriesFine
    <2> QED
      BY <1>2, <2>1, <2>4, BecomeSame
  <1> QED
    BY <1>3, <1>4

\* The connections.
LEMMA ConnFine ==
    ASSUME CacheInv, NEW c \in Conns, ConnOpen(c) \/ ConnFin(c) \/ ConnDestroy(c)
    PROVE  NatFine'
  <1>1. Fine(State, nat_table_hdl, Over) /\ ListenerOK /\ life \in [Conns -> {"open", "fin", "closed"}]
    BY DEF CacheInv, NatFine, ListenerOK
  <1>2. nat_table_hdl' = nat_table_hdl
    BY DEF ConnOpen, ConnFin, ConnDestroy, tableVars
  <1>3. CASE ConnOpen(c)
    <2>1. PICK new \in AddNatEntry(c) : Become(new)
      BY <1>3, Zenon DEF ConnOpen
    <2>2. Over' \subseteq Over /\ c \notin Over'
      BY <1>1, <1>3 DEF ConnOpen, Over
    <2>3. Fine(State, nat_table_hdl, Over')
      BY <1>1, <2>2, FineFewer
    <2>4. Fine(new, nat_table_hdl, Over')
      BY <1>1, <2>2, <2>3, AddNatFine
    <2> QED
      BY <1>2, <2>1, <2>4, BecomeFine
  <1>4. CASE ConnFin(c)
    <2>1. Become(DeleteNatEntry(c))
      BY <1>4, Zenon DEF ConnFin
    <2>2. Over' \subseteq Over
      BY <1>1, <1>4 DEF ConnFin, Over
    <2>3. Fine(DeleteNatEntry(c), nat_table_hdl, Over)
      BY <1>1, DeleteNatFine
    <2>4. Fine(DeleteNatEntry(c), nat_table_hdl, Over')
      BY <2>2, <2>3, FineFewer
    <2> QED
      BY <1>2, <2>1, <2>4, BecomeFine
  <1>5. CASE ConnDestroy(c)
    <2> DEFINE su == DeleteNatEntry(c)
    <2>1. Become(su)
      BY <1>5, Zenon DEF ConnDestroy
    <2>2. Over' = Over \cup {c}
      BY <1>1, <1>5 DEF ConnDestroy, Over
    <2>3. /\ Fine(su, nat_table_hdl, Over)
          /\ src[c] \in Clients => /\ \A k \in CacheSlots : su.cache[k].rule # NoRule => su.cache[k].rule.conn # c
                                   /\ \A k \in TempSlots : su.temp[k] # NoRule => su.temp[k].conn # c
      BY <1>1, DeleteNatFine
    <2> HIDE DEF su
    <2>4. Fine(su, nat_table_hdl, Over \cup {c})
      BY <2>3, FineMore
    <2> QED
      BY <1>2, <2>1, <2>2, <2>4, BecomeFine
  <1> QED
    BY <1>3, <1>4, <1>5

\* The first state.
LEMMA CacheInit == Init => CacheInv
  <1> SUFFICES ASSUME Init
               PROVE  CacheInv
    OBVIOUS
  <1>1. /\ cache = [k \in CacheSlots |-> Empty] /\ temp = [k \in TempSlots |-> NoRule] /\ curCnt = 0
        /\ held = [h \in Handles |-> NoRule] /\ PwrSaveIfs \in [PwrSlots -> HeapClients \cup {NoAddr}]
    BY DEF Init
  <1>2. /\ \A k \in CacheSlots : cache[k] = Empty
        /\ cache \in [CacheSlots -> Entries] /\ held \in [Handles -> Rules \cup {NoRule}]
        /\ temp \in [TempSlots -> Rules \cup {NoRule}]
        /\ PwrSaveIfs \in [PwrSlots -> Clients \cup {NoAddr}]
    BY <1>1, EmptyFacts, NatAppAssumption
  <1>3. \A k \in CacheSlots : cache[k].rule = NoRule /\ ~cache[k].enabled
    BY <1>2, EmptyFacts, Zenon
  <1>4. curCnt = max_entries - Cardinality(FreeSlots(cache))
    <2>1. FreeSlots(cache) = CacheSlots
      BY <1>3 DEF FreeSlots
    <2>2. Cardinality(CacheSlots) = max_entries
      BY NatAppAssumption, FS_Interval DEF CacheSlots
    <2> QED
      BY <1>1, <2>1, <2>2, NatAppAssumption
  <1>5. Linked(cache, held)
    <2>1. \A h \in Handles : held[h] = NoRule
      BY <1>1
    <2> QED
      BY <1>3, <2>1, Zenon DEF Linked
  <1>6. Distinct(cache)
    BY <1>3 DEF Distinct
  <1>7. CacheOK(cache, held, curCnt, nat_table_hdl)
    BY <1>2, <1>3, <1>4, <1>5, <1>6, Zenon DEF CacheOK
  <1>8. \A k \in TempSlots : temp[k] = NoRule
    BY <1>1
  <1>9. ConnsOK(cache, temp, Over)
    BY <1>2, <1>3, <1>8, Zenon DEF ConnsOK
  <1>10. NatFine
    <2>1. curCnt \in Int
      BY <1>1
    <2>2. /\ State \in States /\ State.cache = cache /\ State.temp = temp /\ State.cnt = curCnt
          /\ State.held = held
      BY <1>2, <2>1 DEF State, States
    <2> QED
      BY <1>7, <1>9, <2>2 DEF NatFine, Fine
  <1>11. ListenerOK
    BY NatAppAssumption DEF Init, ListenerOK
  <1>12. StaCounted
    <2>1. {k \in StaSlots : sta_clnt_ipv4_addr[k] # NoAddr} = {} /\ StaClntCnt = 0
      BY DEF Init
    <2> QED
      BY <2>1, FS_EmptySet DEF StaCounted
  <1> QED
    BY <1>10, <1>11, <1>12 DEF CacheInv, TableFollowsWan, Init

\* The listener's variables: only the WAN's handlers change the table, and only the STA
\* clients' their count.
LEMMA ListenerStep ==
    ASSUME CacheInv, Next
    PROVE  ListenerOK' /\ TableFollowsWan' /\ StaCounted'
  <1> USE DEF CacheInv
  <1>1. CASE \E a \in Wans, is_sta \in BOOLEAN : TriggerWANUp(a, is_sta)
    <2>1. PICK a \in Wans, is_sta \in BOOLEAN : TriggerWANUp(a, is_sta)
      BY <1>1
    <2>2. /\ WanUp' = TRUE /\ isStaMode' = is_sta /\ wan_ipaddr' = a
          /\ pub_ip_addr_pre' \in {pub_ip_addr, pub_ip_addr_pre}
          /\ \/ nat_table_hdl' = 1 /\ pub_ip_addr' = a
             \/ nat_table_hdl' = 0 /\ pub_ip_addr' \in {NoAddr, pub_ip_addr}
          /\ UNCHANGED sta_clnt_ipv4_addr /\ UNCHANGED StaClntCnt /\ UNCHANGED nat_iface_ipv4_addr
          /\ UNCHANGED nonnat_iface_ipv4_addr /\ UNCHANGED power_save_set /\ UNCHANGED life
      BY <2>1 DEF TriggerWANUp, staVars, ifaceVars
    <2>3. ListenerOK'
      BY <2>2 DEF ListenerOK
    <2> QED
      BY <2>2, <2>3 DEF TableFollowsWan, StaCounted
  <1>2. CASE \E a \in Wans : TriggerWANDown(a)
    <2>1. PICK a \in Wans : TriggerWANDown(a)
      BY <1>2
    <2>2. /\ WanUp' = FALSE /\ isStaMode' = isStaMode /\ wan_ipaddr' = NoAddr
          /\ pub_ip_addr_pre' = pub_ip_addr /\ nat_table_hdl' = 0 /\ pub_ip_addr' = NoAddr
          /\ UNCHANGED sta_clnt_ipv4_addr /\ UNCHANGED StaClntCnt /\ UNCHANGED nat_iface_ipv4_addr
          /\ UNCHANGED nonnat_iface_ipv4_addr /\ UNCHANGED power_save_set /\ UNCHANGED life
      BY <2>1 DEF TriggerWANDown, staVars, ifaceVars
    <2>3. ListenerOK'
      BY <2>2 DEF ListenerOK
    <2> QED
      BY <2>2, <2>3 DEF TableFollowsWan, StaCounted
  <1>3. ASSUME UNCHANGED <<tableVars, wanVars>>
        PROVE  /\ TableFollowsWan'
               /\ UNCHANGED pub_ip_addr /\ UNCHANGED pub_ip_addr_pre /\ UNCHANGED wan_ipaddr
               /\ UNCHANGED nat_table_hdl /\ UNCHANGED WanUp /\ UNCHANGED isStaMode
    BY <1>3 DEF tableVars, wanVars, TableFollowsWan
  <1>4. CASE \E a \in Clients : \/ HandleNeighIpAddrAddEvt(a) \/ HandleNeighIpAddrDelEvt(a)
                                \/ WlanClientPwrSave(a) \/ WlanClientRecover(a)
    <2>1. PICK a \in Clients : \/ HandleNeighIpAddrAddEvt(a) \/ HandleNeighIpAddrDelEvt(a)
                               \/ WlanClientPwrSave(a) \/ WlanClientRecover(a)
      BY <1>4
    <2>2. /\ UNCHANGED <<tableVars, wanVars>>
          /\ UNCHANGED sta_clnt_ipv4_addr /\ UNCHANGED StaClntCnt
          /\ UNCHANGED nonnat_iface_ipv4_addr /\ UNCHANGED life
          /\ power_save_set' \subseteq power_save_set \cup {a}
      BY <2>1 DEF HandleNeighIpAddrAddEvt, HandleNeighIpAddrDelEvt, WlanClientPwrSave, WlanClientRecover,
                  staVars
    <2>3. nat_iface_ipv4_addr' \in [IfaceSlots -> Clients \cup {NoAddr}]
      <3>1. nat_iface_ipv4_addr \in [IfaceSlots -> Clients \cup {NoAddr}]
        BY DEF ListenerOK
      <3>2. \/ UNCHANGED nat_iface_ipv4_addr
            \/ nat_iface_ipv4_addr' = [nat_iface_ipv4_addr EXCEPT ![First(NatSlots(a))] = a]
            \/ nat_iface_ipv4_addr' = [k \in IfaceSlots |->
                 IF nat_iface_ipv4_addr[k] = a THEN NoAddr ELSE nat_iface_ipv4_addr[k]]
        BY <2>1, Zenon DEF HandleNeighIpAddrAddEvt, HandleNeighIpAddrDelEvt, WlanClientPwrSave,
                           WlanClientRecover
      <3> QED
        BY <3>1, <3>2
    <2>4. ListenerOK'
      BY <1>3, <2>2, <2>3 DEF ListenerOK
    <2> QED
      BY <1>3, <2>2, <2>4 DEF StaCounted
  <1>5. CASE \E a \in NonNatClients : HandleNonNatIPAddrAdd(a) \/ HandleNonNatIPAddrDel(a)
    <2>1. PICK a \in NonNatClients : HandleNonNatIPAddrAdd(a) \/ HandleNonNatIPAddrDel(a)
      BY <1>5
    <2>2. /\ UNCHANGED <<tableVars, wanVars>>
          /\ UNCHANGED sta_clnt_ipv4_addr /\ UNCHANGED StaClntCnt
          /\ UNCHANGED nat_iface_ipv4_addr /\ UNCHANGED life /\ UNCHANGED power_save_set
      BY <2>1 DEF HandleNonNatIPAddrAdd, HandleNonNatIPAddrDel, staVars
    <2>3. nonnat_iface_ipv4_addr' \in [IfaceSlots -> NonNatClients \cup {NoAddr}]
      <3>1. nonnat_iface_ipv4_addr \in [IfaceSlots -> NonNatClients \cup {NoAddr}]
        BY DEF ListenerOK
      <3>2. \E k : \/ nonnat_iface_ipv4_addr' = [nonnat_iface_ipv4_addr EXCEPT ![k] = a]
                   \/ nonnat_iface_ipv4_addr' = [nonnat_iface_ipv4_addr EXCEPT ![k] = NoAddr]
        BY <2>1, Zenon DEF HandleNonNatIPAddrAdd, HandleNonNatIPAddrDel
      <3> QED
        BY <3>1, <3>2
    <2>4. ListenerOK'
      BY <1>3, <2>2, <2>3 DEF ListenerOK
    <2> QED
      BY <1>3, <2>2, <2>4 DEF StaCounted
  <1>6. CASE \E a \in StaClients : HandleSTAClientAddEvt(a) \/ HandleSTAClientDelEvt(a)
    <2>1. PICK a \in StaClients : HandleSTAClientAddEvt(a) \/ HandleSTAClientDelEvt(a)
      BY <1>6
    <2>2. /\ UNCHANGED <<tableVars, wanVars>>
          /\ UNCHANGED nat_iface_ipv4_addr /\ UNCHANGED nonnat_iface_ipv4_addr
          /\ UNCHANGED life /\ UNCHANGED power_save_set
      BY <2>1 DEF HandleSTAClientAddEvt, HandleSTAClientDelEvt, ifaceVars
    <2> DEFINE sta == sta_clnt_ipv4_addr
               Used(array) == {i \in StaSlots : array[i] # NoAddr}
    <2>3. sta \in [StaSlots -> StaClients \cup {NoAddr}] /\ StaClntCnt = Cardinality(Used(sta))
      BY DEF ListenerOK, StaCounted
    <2>4. \/ sta' = sta /\ StaClntCnt' = StaClntCnt
          \/ \E k \in StaSlots : sta[k] = NoAddr /\ sta' = [sta EXCEPT ![k] = a] /\ StaClntCnt' = StaClntCnt + 1
          \/ \E k \in StaSlots : sta[k] # NoAddr /\ sta' = [sta EXCEPT ![k] = NoAddr] /\ StaClntCnt' = StaClntCnt - 1
      <3>1. CASE HandleSTAClientAddEvt(a)
        <4> DEFINE k == First(StaSlotsFor(a))
                   isNew == StaSlotsFor(a) # {} /\ sta[k] = NoAddr
        <4>1. CASE ~isNew
          BY <3>1, <4>1 DEF HandleSTAClientAddEvt
        <4>2. CASE isNew
          <5>1. sta' = [sta EXCEPT ![k] = a] /\ StaClntCnt' = StaClntCnt + 1
            BY <3>1, <4>2 DEF HandleSTAClientAddEvt
          <5>2. StaSlotsFor(a) \in SUBSET StaSlots /\ StaSlotsFor(a) \in SUBSET Nat
            BY <2>3, NatAppAssumption DEF StaSlotsFor, Holding, StaSlots
          <5>3. k \in StaSlotsFor(a)
            BY <4>2, <5>2, FirstFound
          <5> HIDE DEF k
          <5>4. k \in StaSlots
            BY <5>2, <5>3
          <5> QED
            BY <4>2, <5>1, <5>4
        <4> QED
          BY <4>1, <4>2
      <3>2. CASE HandleSTAClientDelEvt(a)
        <4> DEFINE S == Holding(sta, a)
                   k == First(S)
        <4>1. CASE S = {}
          BY <3>2, <4>1 DEF HandleSTAClientDelEvt
        <4>2. CASE S # {}
          <5>1. sta' = [sta EXCEPT ![k] = NoAddr] /\ StaClntCnt' = StaClntCnt - 1
            BY <3>2, <4>2 DEF HandleSTAClientDelEvt
          <5>2. S \in SUBSET StaSlots /\ S \in SUBSET Nat
            BY <2>3, NatAppAssumption DEF Holding, StaSlots
          <5>3. k \in S
            BY <4>2, <5>2, FirstFound
          <5> HIDE DEF k
          <5>4. k \in StaSlots /\ sta[k] = a /\ a # NoAddr
            BY <5>2, <5>3, AddressAssumption DEF Holding
          <5> QED
            BY <5>1, <5>4
        <4> QED
          BY <4>1, <4>2
      <3> QED
        BY <2>1, <3>1, <3>2
    <2>5. CASE sta' = sta /\ StaClntCnt' = StaClntCnt
      <3>1. ListenerOK'
        BY <1>3, <2>2, <2>5 DEF ListenerOK
      <3> QED
        BY <1>3, <2>2, <2>5, <3>1 DEF StaCounted
    <2>6. CASE \E k \in StaSlots : sta[k] = NoAddr /\ sta' = [sta EXCEPT ![k] = a] /\ StaClntCnt' = StaClntCnt + 1
      <3>1. PICK k \in StaSlots : sta[k] = NoAddr /\ sta' = [sta EXCEPT ![k] = a] /\ StaClntCnt' = StaClntCnt + 1
        BY <2>6
      <3>2. Cardinality(Used([sta EXCEPT ![k] = a])) = Cardinality(Used(sta)) + 1
        BY <2>3, <3>1, StaCount
      <3>3. StaCounted'
        BY <2>3, <3>1, <3>2 DEF StaCounted
      <3>4. sta' \in [StaSlots -> StaClients \cup {NoAddr}]
        BY <2>3, <3>1
      <3>5. ListenerOK'
        BY <1>3, <2>2, <3>4 DEF ListenerOK
      <3> QED
        BY <1>3, <2>2, <3>3, <3>5
    <2>7. CASE \E k \in StaSlots : sta[k] # NoAddr /\ sta' = [sta EXCEPT ![k] = NoAddr] /\ StaClntCnt' = StaClntCnt - 1
      <3>1. PICK k \in StaSlots : sta[k] # NoAddr /\ sta' = [sta EXCEPT ![k] = NoAddr] /\ StaClntCnt' = StaClntCnt - 1
        BY <2>7
      <3>2. Cardinality(Used([sta EXCEPT ![k] = NoAddr])) = Cardinality(Used(sta)) - 1
        BY <2>3, <3>1, StaCount
      <3>3. StaCounted'
        BY <2>3, <3>1, <3>2 DEF StaCounted
      <3>4. sta' \in [StaSlots -> StaClients \cup {NoAddr}]
        BY <2>3, <3>1
      <3>5. ListenerOK'
        BY <1>3, <2>2, <3>4 DEF ListenerOK
      <3> QED
        BY <1>3, <2>2, <3>3, <3>5
    <2> QED
      BY <2>4, <2>5, <2>6, <2>7
  <1>7. CASE \E c \in Conns : ConnOpen(c) \/ ConnFin(c) \/ ConnDestroy(c)
    <2>1. PICK c \in Conns : ConnOpen(c) \/ ConnFin(c) \/ ConnDestroy(c)
      BY <1>7
    <2>2. /\ UNCHANGED <<tableVars, wanVars>>
          /\ UNCHANGED sta_clnt_ipv4_addr /\ UNCHANGED StaClntCnt /\ UNCHANGED nat_iface_ipv4_addr
          /\ UNCHANGED nonnat_iface_ipv4_addr /\ UNCHANGED power_save_set
          /\ \E s \in {"open", "fin", "closed"} : life' = [life EXCEPT ![c] = s]
      BY <2>1 DEF ConnOpen, ConnFin, ConnDestroy, staVars, ifaceVars
    <2>3. life' \in [Conns -> {"open", "fin", "closed"}]
      <3>1. life \in [Conns -> {"open", "fin", "closed"}]
        BY DEF ListenerOK
      <3>2. PICK s \in {"open", "fin", "closed"} : life' = [life EXCEPT ![c] = s]
        BY <2>2
      <3> QED
        BY <3>1, <3>2
    <2>4. ListenerOK'
      BY <1>3, <2>2, <2>3 DEF ListenerOK
    <2> QED
      BY <1>3, <2>2, <2>4 DEF StaCounted
  <1> QED
    BY <1>1, <1>2, <1>4, <1>5, <1>6, <1>7 DEF Next

-----------------------------------------------------------------------------
(* Theorems *)

\* A step of NatApp or of the listener, or none.
LEMMA CacheStep == CacheInv /\ [Next]_vars => CacheInv'
  <1> SUFFICES ASSUME CacheInv, [Next]_vars
               PROVE  CacheInv'
    OBVIOUS
  <1>1. CASE Next
    <2>1. NatFine'
      <3>1. CASE \E a \in Wans, is_sta \in BOOLEAN : TriggerWANUp(a, is_sta)
        BY <3>1, WanUpFine
      <3>2. CASE \E a \in Wans : TriggerWANDown(a)
        BY <3>2, WanDownFine
      <3>3. CASE \E a \in Clients : \/ HandleNeighIpAddrAddEvt(a) \/ HandleNeighIpAddrDelEvt(a)
                                    \/ WlanClientPwrSave(a) \/ WlanClientRecover(a)
        BY <3>3, ClientFine
      <3>4. CASE \E a \in NonNatClients : HandleNonNatIPAddrAdd(a) \/ HandleNonNatIPAddrDel(a)
        BY <3>4, NonNatFine
      <3>5. CASE \E a \in StaClients : HandleSTAClientAddEvt(a) \/ HandleSTAClientDelEvt(a)
        BY <3>5, StaFine
      <3>6. CASE \E c \in Conns : ConnOpen(c) \/ ConnFin(c) \/ ConnDestroy(c)
        BY <3>6, ConnFine
      <3> QED
        BY <1>1, <3>1, <3>2, <3>3, <3>4, <3>5, <3>6 DEF Next
    <2>2. ListenerOK' /\ TableFollowsWan' /\ StaCounted'
      BY <1>1, ListenerStep
    <2> QED
      BY <2>1, <2>2 DEF CacheInv
  <1>2. CASE UNCHANGED vars
    <2>1. /\ UNCHANGED cache /\ UNCHANGED temp /\ UNCHANGED curCnt /\ UNCHANGED PwrSaveIfs /\ UNCHANGED held
          /\ UNCHANGED pub_ip_addr /\ UNCHANGED pub_ip_addr_pre /\ UNCHANGED nat_table_hdl
          /\ UNCHANGED WanUp /\ UNCHANGED wan_ipaddr /\ UNCHANGED isStaMode
          /\ UNCHANGED sta_clnt_ipv4_addr /\ UNCHANGED StaClntCnt
          /\ UNCHANGED nat_iface_ipv4_addr /\ UNCHANGED nonnat_iface_ipv4_addr /\ UNCHANGED power_save_set
          /\ UNCHANGED life
      BY <1>2 DEF vars, natVars, tableVars, wanVars, staVars, ifaceVars
    <2>2. State' = State /\ Over' = Over
      BY <2>1 DEF State, Over
    <2>3. NatFine'
      BY <2>1, <2>2 DEF CacheInv, NatFine
    <2>4. ListenerOK'
      BY <2>1 DEF CacheInv, ListenerOK
    <2> QED
      BY <2>1, <2>3, <2>4 DEF CacheInv, TableFollowsWan, StaCounted
  <1> QED
    BY <1>1, <1>2

\* The cache, the waiting connections, the hardware and the listener's counts agree in
\* every reachable state.
THEOREM CacheInvariant == Spec => []CacheInv
  <1>1. Init => CacheInv
    BY CacheInit
  <1>2. CacheInv /\ [Next]_vars => CacheInv'
    BY CacheStep
  <1> QED
    BY <1>1, <1>2, PTL DEF Spec

\* What the invariant says, in the words of the run's properties.
LEMMA CacheInvSound == CacheInv => CacheSound
  <1> SUFFICES ASSUME CacheInv
               PROVE  CacheSound
    OBVIOUS
  <1>1. /\ State \in States /\ CacheOK(cache, held, curCnt, nat_table_hdl) /\ ConnsOK(cache, temp, Over)
    <2>1. State.cache = cache /\ State.temp = temp /\ State.cnt = curCnt /\ State.held = held
      BY DEF State
    <2> QED
      BY <2>1 DEF CacheInv, NatFine, Fine
  <1>2. CountExact
    <2>1. curCnt = max_entries - Cardinality(FreeSlots(cache))
      BY <1>1, Zenon DEF CacheOK
    <2> QED
      BY <2>1 DEF CountExact
  <1>3. TypeOK
    <2>1. /\ cache \in [CacheSlots -> Entries] /\ temp \in [TempSlots -> Rules \cup {NoRule}]
          /\ held \in [Handles -> Rules \cup {NoRule}]
      BY <1>1 DEF CacheOK, ConnsOK
    <2>2. PwrSaveIfs \in [PwrSlots -> Clients \cup {NoAddr}]
      BY <1>1 DEF States, State
    <2>3. curCnt \in 0..max_entries
      <3>1. Cardinality(FreeSlots(cache)) \in Nat /\ Cardinality(FreeSlots(cache)) <= max_entries
        BY FreeFinite
      <3> QED
        BY <1>2, <3>1, NatAppAssumption DEF CountExact
    <2>4. StaClntCnt \in 0..MAX_STA_CLNT_IFACES
      <3> DEFINE U == {k \in StaSlots : sta_clnt_ipv4_addr[k] # NoAddr}
      <3>1. IsFiniteSet(StaSlots) /\ Cardinality(StaSlots) = MAX_STA_CLNT_IFACES
        BY NatAppAssumption, FS_Interval DEF StaSlots
      <3>2. U \in SUBSET StaSlots
        OBVIOUS
      <3>3. StaClntCnt = Cardinality(U)
        BY DEF CacheInv, StaCounted
      <3> HIDE DEF U
      <3>4. IsFiniteSet(U) /\ Cardinality(U) <= Cardinality(StaSlots)
        BY <3>1, <3>2, FS_Subset
      <3>5. Cardinality(U) \in Nat
        BY <3>4, FS_CardinalityType
      <3> QED
        BY <3>1, <3>3, <3>4, <3>5, NatAppAssumption
    <2>5. ListenerOK
      BY DEF CacheInv
    <2> QED
      BY <2>1, <2>2, <2>3, <2>4, <2>5, Zenon DEF TypeOK, ListenerOK
  <1>4. Linked(cache, held)
    BY <1>1, Zenon DEF CacheOK
  <1>5. HardwareExact
    <2> SUFFICES ASSUME NEW h \in Handles
                 PROVE  LET S == {k \in CacheSlots : cache[k].enabled /\ cache[k].hdl = h} IN
                        IF held[h] = NoRule THEN S = {}
                        ELSE \E k \in S : S = {k} /\ SameTuple(cache[k].rule, held[h])
      BY DEF HardwareExact
    <2> DEFINE S == {k \in CacheSlots : cache[k].enabled /\ cache[k].hdl = h}
    <2>1. \A k \in S : cache[k].rule # NoRule /\ held[h] = cache[k].rule
      <3> SUFFICES ASSUME NEW k \in CacheSlots, cache[k].enabled, cache[k].hdl = h
                   PROVE  cache[k].rule # NoRule /\ held[h] = cache[k].rule
        BY Zenon
      <3> QED
        BY <1>4, Zenon DEF Linked
    <2>2. \A i, j \in S : i = j
      BY <1>4, Zenon DEF Linked
    <2>3. held[h] # NoRule => \E k \in CacheSlots : k \in S
      BY <1>4, Zenon DEF Linked
    <2> HIDE DEF S
    <2>4. IF held[h] = NoRule THEN S = {}
          ELSE \E k \in S : S = {k} /\ SameTuple(cache[k].rule, held[h])
      <3>1. CASE held[h] = NoRule
        BY <3>1, <2>1
      <3>2. CASE held[h] # NoRule
        <4>1. PICK k \in S : TRUE
          BY <3>2, <2>3
        <4>2. S = {k}
          BY <2>2
        <4>3. SameTuple(cache[k].rule, held[h])
          BY <2>1 DEF SameTuple
        <4> QED
          BY <3>2, <4>2, <4>3
      <3> QED
        BY <3>1, <3>2
    <2> QED
      BY <2>4, Zenon DEF S
  <1>6. NoDuplicateEntry
    <2>1. Distinct(cache)
      BY <1>1, Zenon DEF CacheOK
    <2> QED
      BY <2>1 DEF Distinct, NoDuplicateEntry
  <1>7. ClosedForgotten
    BY <1>1 DEF ConnsOK, Own, Over, ClosedForgotten
  <1> QED
    BY <1>2, <1>3, <1>5, <1>6, <1>7 DEF CacheSound

\* For every number of slots, clients, connections and handles, whatever the library
\* refuses: the hardware holds exactly the rules of the enabled entries, each under the
\* handle its entry remembers, the count is right, no connection is cached twice, and
\* nothing is left of a NAT client's connection that is over.
THEOREM CacheAlwaysSound == Spec => []CacheSound
  BY CacheInvariant, CacheInvSound, PTL

\* There is a table only while the WAN is believed up, and for the address believed in.
THEOREM TableAlwaysFollowsWan == Spec => []TableFollowsWan
  <1>1. CacheInv => TableFollowsWan
    BY DEF CacheInv
  <1> QED
    BY <1>1, CacheInvariant, PTL
===============================================================================
