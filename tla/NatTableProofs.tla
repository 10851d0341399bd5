---------------------------- MODULE NatTableProofs ----------------------------
(***************************************************************************)
(* For every table size, every set of rules and every pair of hashes: a    *)
(* handle stands for one live rule, libipanat implements the map NatRules, *)
(* and, until a DMA command fails, both tables stay linked, their chains   *)
(* have no circles, every live rule is found from its two slots and can be *)
(* deleted.                                                                *)
(***************************************************************************)
EXTENDS NatTable, FiniteSetTheorems, WellFoundedInduction, TLAPS

\* The entries that may hold a rule.
Usable == UsableExpn \cup (BaseEntries \ {0})

(* Whatever fails *)

\* The call in progress has a rule; the entry it found is free and stays so.
CallSound ==
    /\ pc = "idle" => new_prev = 0 /\ new_index_prev = 0
    /\ pc # "idle" => valid /\ arg \in Rules
    /\ pc = "walk" => new_prev = 0 /\ new_index_prev = 0
    /\ pc \in {"index", "walk_index", "write"} => new_entry \in Usable /\ ~enable[new_entry]
    /\ pc \in {"index", "walk_index"} => new_index_prev = 0
    /\ pc = "write" => new_index \in Usable

RulesHeld == \A e \in Entries : enable[e] => e \in Usable /\ rule[e] \in Rules

HandlesInv == TypeOK /\ HandlesSound /\ CallSound /\ RulesHeld

(* Until a command fails *)

\* Some order of the entries increases along every link.
Acyclic(nxt) ==
    \E rank \in [Entries -> Nat] : \A e \in Entries : nxt[e] # 0 => rank[e] < rank[nxt[e]]

\* The walks of the call in progress are in the chains of the rule's two slots, and
\* they ended where the chain did.
CallLinked ==
    /\ pc = "walk" => InUse(cursor) /\ dst_hash(rule[cursor]) = dst_hash(arg)
    /\ pc \in {"index", "walk_index", "write"} =>
        /\ new_prev = 0 => new_entry = dst_hash(arg)
        /\ new_prev # 0 =>
            /\ new_entry \in UsableExpn /\ InUse(new_prev) /\ next_index[new_prev] = 0
            /\ dst_hash(rule[new_prev]) = dst_hash(arg)
    /\ pc = "walk_index" => IndexUsed(cursor) /\ src_hash(rule[idx_tbl_entry[cursor]]) = src_hash(arg)
    /\ pc = "write" =>
        /\ ~IndexUsed(new_index)
        /\ new_index_prev = 0 => new_index = src_hash(arg)
        /\ new_index_prev # 0 =>
            /\ new_index \in UsableExpn /\ IndexUsed(new_index_prev) /\ idx_next_index[new_index_prev] = 0
            /\ src_hash(rule[idx_tbl_entry[new_index_prev]]) = src_hash(arg)

LinkedInv ==
    /\ ChainsLinked /\ IndexLinked /\ EveryRuleHasHandle /\ CallLinked
    /\ Acyclic(next_index) /\ Acyclic(idx_next_index)

TableInv == HandlesInv /\ (failures = 0 => LinkedInv)

----------------------------------------------------------------------------
(* Entries and slots *)

\* The sets of entries.
LEMMA EntryFacts ==
    /\ table_entries \in Nat /\ table_entries >= 2 /\ expn_table_entries \in Nat /\ expn_table_entries >= 2
    /\ 0 \in Entries /\ 0 \notin Usable /\ 0 \notin UsableExpn /\ 0 \notin ExpnEntries /\ Entries \subseteq Nat
    /\ Usable \subseteq Entries /\ BaseEntries \subseteq Entries /\ ExpnEntries \subseteq Entries
    /\ UsableExpn \subseteq ExpnEntries /\ UsableExpn \subseteq Usable
    /\ BaseEntries \cap ExpnEntries = {} /\ BaseEntries \ {0} \subseteq Usable
    /\ \A e \in Usable : e \in BaseEntries \/ e \in UsableExpn
    /\ \A e \in Entries : e \in BaseEntries \/ e \in ExpnEntries
  BY NatTableAssumption DEF Usable, BaseEntries, ExpnEntries, Entries, UsableExpn

\* A hash selects a base entry other than 0.
LEMMA SlotFacts ==
    \A r \in Rules : dst_hash(r) \in BaseEntries \ {0} /\ src_hash(r) \in BaseEntries \ {0}
  <1>1. \A h \in Nat : Slot(h) \in BaseEntries \ {0}
    <2> SUFFICES ASSUME NEW h \in Nat PROVE Slot(h) \in BaseEntries \ {0}
      OBVIOUS
    <2>1. h % table_entries \in 0..(table_entries - 1)
      BY NatTableAssumption
    <2> QED
      BY <2>1, NatTableAssumption DEF Slot, BaseEntries
  <1>2. \A r \in Rules : DstHash[r] \in Nat /\ SrcHash[r] \in Nat
    BY NatTableAssumption
  <1> QED
    BY <1>1, <1>2 DEF dst_hash, src_hash

\* A set of naturals that is not empty has a least element.
LEMMA LeastNumber ==
    ASSUME NEW T \in SUBSET Nat, T # {}
    PROVE  \E x \in T : \A y \in T : x <= y
  <1> DEFINE R == OpToRel(<, Nat)
  <1>1. IsWellFoundedOn(R, Nat)
    BY NatLessThanWellFounded
  <1>2. \A y, x \in Nat : <<y, x>> \in R <=> y < x
    BY DEF OpToRel
  <1> HIDE DEF R
  <1>3. PICK x \in T : \A y \in T : ~ (<<y, x>> \in R)
    BY <1>1, WFMin
  <1>4. \A y \in T : x <= y
    <2> TAKE y \in T
    <2>1. y \in Nat /\ x \in Nat
      OBVIOUS
    <2>2. ~(y < x)
      BY <1>2, <1>3, <2>1
    <2> QED
      BY <2>1, <2>2
  <1> QED
    BY <1>4

\* FirstOf finds the least free entry, and the null index only if there is none.
LEMMA FirstOfFacts ==
    ASSUME NEW free \in SUBSET Nat
    PROVE  /\ free = {} => FirstOf(free) = 0
           /\ free # {} => FirstOf(free) \in free /\ \A f \in free : FirstOf(free) <= f
  <1>1. free # {} => \E e \in free : \A f \in free : e <= f
    BY LeastNumber
  <1> QED
    BY <1>1 DEF FirstOf

\* The free expansion entry that an add takes.
LEMMA FreeFacts ==
    /\ expn_tbl_free_entry # 0 => expn_tbl_free_entry \in UsableExpn /\ ~enable[expn_tbl_free_entry]
    /\ expn_tbl_free_entry = 0 => FreeExpn = {}
    /\ index_expn_get_free_entry # 0 =>
         index_expn_get_free_entry \in UsableExpn /\ idx_tbl_entry[index_expn_get_free_entry] = 0
    /\ index_expn_get_free_entry = 0 => FreeIndexExpn = {}
  <1>1. FreeExpn \in SUBSET Nat /\ 0 \notin FreeExpn
    BY EntryFacts DEF FreeExpn
  <1>2. FreeIndexExpn \in SUBSET Nat /\ 0 \notin FreeIndexExpn
    BY EntryFacts DEF FreeIndexExpn
  <1>3. (FreeExpn = {} => expn_tbl_free_entry = 0) /\ (FreeExpn # {} => expn_tbl_free_entry \in FreeExpn)
    BY <1>1, FirstOfFacts DEF expn_tbl_free_entry
  <1>4. /\ FreeIndexExpn = {} => index_expn_get_free_entry = 0
        /\ FreeIndexExpn # {} => index_expn_get_free_entry \in FreeIndexExpn
    BY <1>2, FirstOfFacts DEF index_expn_get_free_entry
  <1>5. expn_tbl_free_entry # 0 => expn_tbl_free_entry \in UsableExpn /\ ~enable[expn_tbl_free_entry]
    BY <1>3 DEF FreeExpn
  <1>6. index_expn_get_free_entry # 0 =>
          index_expn_get_free_entry \in UsableExpn /\ idx_tbl_entry[index_expn_get_free_entry] = 0
    BY <1>4 DEF FreeIndexExpn
  <1> QED
    BY <1>1, <1>2, <1>3, <1>4, <1>5, <1>6

\* The handle that an add gives out.
LEMMA HandleFacts ==
    ASSUME TypeOK
    PROVE  /\ make_rule_hdl = 0 \/ (make_rule_hdl \in Handles /\ rule_id_array[make_rule_hdl] = 0)
           /\ \A h \in Handles : rule_id_array[h] = 0 => make_rule_hdl \in Handles /\ make_rule_hdl <= h
           /\ 0 \notin Handles
  <1> DEFINE F == {h \in Handles : rule_id_array[h] = 0}
  <1>1. F \in SUBSET Nat /\ 0 \notin Handles
    BY EntryFacts DEF Handles
  <1>2. make_rule_hdl = FirstOf(F)
    BY DEF make_rule_hdl
  <1>3. (F = {} => make_rule_hdl = 0) /\ (F # {} => make_rule_hdl \in F /\ \A f \in F : make_rule_hdl <= f)
    BY <1>1, <1>2, FirstOfFacts
  <1> QED
    BY <1>1, <1>3

----------------------------------------------------------------------------
(* Types *)

\* The tables after a reset.
LEMMA ResetTypes ==
    ASSUME reset_tbl
    PROVE  /\ enable' \in [Entries -> BOOLEAN] /\ dead' \in [Entries -> BOOLEAN]
           /\ rule' \in [Entries -> Rules \cup {NoRule}]
           /\ next_index' \in [Entries -> Entries] /\ prev_index' \in [Entries -> Entries]
           /\ indx_tbl_entry' \in [Entries -> Entries]
           /\ idx_tbl_entry' \in [Entries -> Entries] /\ idx_next_index' \in [Entries -> Entries]
           /\ idx_prev_index' \in [Entries -> Entries]
           /\ rule_id_array' \in [Handles -> Entries]
  BY EntryFacts DEF reset_tbl, AllFalse, AllZero, NoRules, NoHandles

\* A deletion writes entries into the tables.
LEMMA DeleteTypes ==
    ASSUME TypeOK, NEW e \in Entries, DelRule(e), DelIndex(e)
    PROVE  /\ enable' \in [Entries -> BOOLEAN] /\ dead' \in [Entries -> BOOLEAN]
           /\ rule' \in [Entries -> Rules \cup {NoRule}]
           /\ next_index' \in [Entries -> Entries] /\ prev_index' \in [Entries -> Entries]
           /\ indx_tbl_entry' \in [Entries -> Entries]
           /\ idx_tbl_entry' \in [Entries -> Entries] /\ idx_next_index' \in [Entries -> Entries]
           /\ idx_prev_index' \in [Entries -> Entries]
  <1> DEFINE pos == Position(e, next_index)
             linked == [x \in Entries |->
                 IF pos \in {"middle", "last"} /\ x = prev_index[e]
                 THEN (IF pos = "middle" THEN next_index[e] ELSE 0)
                 ELSE next_index[x]]
             freed == (IF pos = "head" THEN {} ELSE {e})
                      \cup {x \in BaseEntries : dead[x] /\ linked[x] = 0}
  <1>1. linked \in [Entries -> Entries]
    BY EntryFacts DEF TypeOK
  <1>2. /\ enable' = [x \in Entries |-> x \notin freed /\ enable[x]]
        /\ rule' = [x \in Entries |-> IF x \in freed THEN NoRule ELSE rule[x]]
        /\ dead' = [x \in Entries |-> x \notin freed /\ (dead[x] \/ (x = e /\ pos = "head"))]
        /\ next_index' = [x \in Entries |-> IF x \in freed THEN 0 ELSE linked[x]]
        /\ prev_index' = [x \in Entries |->
                IF x \in freed THEN 0
                ELSE IF pos = "middle" /\ x = next_index[e] THEN prev_index[e]
                ELSE prev_index[x]]
    BY DEF DelRule
  <1> HIDE DEF pos, linked, freed
  <1>3. enable' \in [Entries -> BOOLEAN] /\ dead' \in [Entries -> BOOLEAN]
    BY <1>2
  <1>4. rule' \in [Entries -> Rules \cup {NoRule}]
    BY <1>2 DEF TypeOK
  <1>5. next_index' \in [Entries -> Entries] /\ prev_index' \in [Entries -> Entries]
    BY <1>1, <1>2, EntryFacts DEF TypeOK
  <1> DEFINE i == indx_tbl_entry[e]
             q == Position(i, idx_next_index)
             n == idx_next_index[i]
             gone == IF q = "head" THEN n ELSE i
  <1>6. i \in Entries /\ n \in Entries /\ 0 \in Entries
    BY EntryFacts DEF TypeOK
  <1>7. /\ idx_tbl_entry' = [x \in Entries |->
                IF x = gone THEN 0
                ELSE IF q = "head" /\ x = i THEN idx_tbl_entry[n]
                ELSE idx_tbl_entry[x]]
        /\ idx_next_index' = [x \in Entries |->
                IF x = gone THEN 0
                ELSE IF q = "head" /\ x = i THEN idx_next_index[n]
                ELSE IF q \in {"middle", "last"} /\ x = idx_prev_index[i] THEN n
                ELSE idx_next_index[x]]
        /\ idx_prev_index' = [x \in Entries |->
                IF q = "head" /\ x = idx_next_index[n] /\ x \in ExpnEntries THEN i
                ELSE IF q = "middle" /\ x = n THEN idx_prev_index[i]
                ELSE IF q = "middle" /\ x = i THEN 0
                ELSE idx_prev_index[x]]
        /\ indx_tbl_entry' = [x \in Entries |->
                IF dead[x] /\ ~enable'[x] THEN 0
                ELSE IF q = "head" /\ x = idx_tbl_entry[n] THEN i
                ELSE IF enable[x] /\ ~enable'[x] THEN 0 ELSE indx_tbl_entry[x]]
    BY DEF DelIndex
  <1> HIDE DEF i, q, n, gone
  <1>8. idx_tbl_entry' \in [Entries -> Entries] /\ idx_next_index' \in [Entries -> Entries]
    BY <1>6, <1>7 DEF TypeOK
  <1>9. idx_prev_index' \in [Entries -> Entries] /\ indx_tbl_entry' \in [Entries -> Entries]
    BY <1>6, <1>7 DEF TypeOK
  <1> QED
    BY <1>3, <1>4, <1>5, <1>8, <1>9

\* The commands of an add that may fail.
LEMMA FailedFacts ==
    ASSUME NEW failed \in SUBSET AddCommands
    PROVE  Cardinality(failed) \in Nat /\ (Cardinality(failed) = 0 => failed = {})
  <1>1. IsFiniteSet(AddCommands)
    <2> DEFINE one == {"link"}
               two == one \cup {"index link"}
    <2>1. IsFiniteSet(one)
      BY FS_Singleton
    <2> HIDE DEF one
    <2>2. IsFiniteSet(two)
      BY <2>1, FS_AddElement
    <2> HIDE DEF two
    <2>3. IsFiniteSet(two \cup {"enable"})
      BY <2>2, FS_AddElement
    <2>4. AddCommands = two \cup {"enable"}
      BY DEF AddCommands, one, two
    <2> QED
      BY <2>3, <2>4
  <1>2. IsFiniteSet(failed)
    BY <1>1, FS_Subset
  <1> QED
    BY <1>2, FS_CardinalityType, FS_EmptySet

\* The write of an add.
LEMMA WriteTypes ==
    ASSUME TypeOK, CallSound, NEW failed \in SUBSET AddCommands, AddWrite(failed)
    PROVE  TypeOK'
  <1>1. new_entry \in Entries /\ new_index \in Entries /\ new_prev \in Entries /\ new_index_prev \in Entries
        /\ arg \in Rules /\ 0 \in Entries
    BY EntryFacts DEF TypeOK, CallSound, AddWrite
  <1>2. enable' \in [Entries -> BOOLEAN] /\ dead' \in [Entries -> BOOLEAN]
    <2>1. PICK b \in BOOLEAN : enable' = [enable EXCEPT ![new_entry] = b]
      BY DEF AddWrite
    <2>2. dead' = [dead EXCEPT ![new_entry] = FALSE]
      BY DEF AddWrite
    <2> QED
      BY <2>1, <2>2 DEF TypeOK
  <1>3. rule' \in [Entries -> Rules \cup {NoRule}] /\ prev_index' \in [Entries -> Entries]
        /\ indx_tbl_entry' \in [Entries -> Entries] /\ idx_tbl_entry' \in [Entries -> Entries]
    BY <1>1 DEF TypeOK, AddWrite
  <1>4. next_index' \in [Entries -> Entries] /\ idx_next_index' \in [Entries -> Entries]
        /\ idx_prev_index' \in [Entries -> Entries]
    BY <1>1 DEF TypeOK, AddWrite
  <1>5. rule_id_array' \in [Handles -> Entries]
    BY <1>1 DEF TypeOK, AddWrite
  <1>6. failures' \in Nat
    <2>1. Cardinality(failed) \in Nat
      BY FailedFacts
    <2>2. failures' = failures + Cardinality(failed) /\ failures \in Nat
      BY DEF AddWrite, TypeOK
    <2> QED
      BY <2>1, <2>2
  <1>7. pc' \in PCs /\ arg' \in Rules \cup {NoRule} /\ cursor' \in Entries /\ new_entry' \in Entries
        /\ new_prev' \in Entries /\ new_index' \in Entries /\ new_index_prev' \in Entries /\ valid' \in BOOLEAN
    BY <1>1 DEF AddWrite, Return, PCs, TypeOK
  <1> QED
    BY <1>2, <1>3, <1>4, <1>5, <1>6, <1>7 DEF TypeOK

\* Every step keeps the types.
LEMMA TypesStep ==
    ASSUME TypeOK, CallSound, [Next]_vars
    PROVE  TypeOK'
  <1>1. CASE UNCHANGED vars
    BY <1>1 DEF vars, TypeOK
  <1>2. CASE add_ipv4_tbl \/ del_ipv4_table
    <2>1. reset_tbl /\ valid' \in BOOLEAN /\ UNCHANGED <<call, failures>>
      BY <1>2 DEF add_ipv4_tbl, del_ipv4_table
    <2> QED
      BY <2>1, ResetTypes DEF TypeOK, call
  <1>3. CASE \E r \in Rules : AddStart(r)
    <2>1. PICK r \in Rules : AddStart(r)
      BY <1>3
    <2>2. dst_hash(r) \in Entries
      BY SlotFacts, EntryFacts
    <2> QED
      BY <2>1, <2>2 DEF AddStart, TypeOK, table, index, PCs
  <1>4. CASE WalkNext \/ WalkEnd \/ WalkFails
    <2>1. expn_tbl_free_entry # 0 => expn_tbl_free_entry \in Entries
      BY FreeFacts, EntryFacts
    <2> QED
      BY <1>4, <2>1, EntryFacts DEF WalkNext, WalkEnd, WalkFails, Return, TypeOK, table, index, PCs
  <1>5. CASE IndexStart
    <2>1. src_hash(arg) \in Entries
      BY <1>5, SlotFacts, EntryFacts DEF CallSound, IndexStart
    <2> QED
      BY <1>5, <2>1 DEF IndexStart, TypeOK, table, index, PCs
  <1>6. CASE IndexWalkNext \/ IndexWalkEnd \/ IndexWalkFails
    <2>1. index_expn_get_free_entry # 0 => index_expn_get_free_entry \in Entries
      BY FreeFacts, EntryFacts
    <2> QED
      BY <1>6, <2>1, EntryFacts
         DEF IndexWalkNext, IndexWalkEnd, IndexWalkFails, Return, TypeOK, table, index, PCs
  <1>7. CASE \E failed \in SUBSET AddCommands : AddWrite(failed)
    BY <1>7, WriteTypes
  <1>8. CASE \E h \in Handles : del_ipv4_rule(h)
    <2>1. PICK h \in Handles : del_ipv4_rule(h)
      BY <1>8
    <2>2. rule_id_array[h] \in Entries /\ 0 \in Entries
      BY EntryFacts DEF TypeOK
    <2>3. rule_id_array' \in [Handles -> Entries]
      BY <2>1, <2>2 DEF del_ipv4_rule, TypeOK
    <2> QED
      BY <2>1, <2>2, <2>3, DeleteTypes DEF del_ipv4_rule, TypeOK, call
  <1> QED
    BY <1>1, <1>2, <1>3, <1>4, <1>5, <1>6, <1>7, <1>8 DEF Next, AddSteps

----------------------------------------------------------------------------
(* Handles *)

\* A deletion leaves the other live entries alone.
LEMMA DelRuleOthers ==
    ASSUME TypeOK, NEW e \in Entries, DelRule(e)
    PROVE  /\ \A x \in Entries : x # e /\ Alive(x) => enable'[x] /\ ~dead'[x]
           /\ \A x \in Entries : enable'[x] => enable[x] /\ rule'[x] = rule[x]
           /\ ~(enable'[e] /\ ~dead'[e])
  <1> DEFINE pos == Position(e, next_index)
             linked == [x \in Entries |->
                 IF pos \in {"middle", "last"} /\ x = prev_index[e]
                 THEN (IF pos = "middle" THEN next_index[e] ELSE 0)
                 ELSE next_index[x]]
             extra == {x \in BaseEntries : dead[x] /\ linked[x] = 0}
             freed == (IF pos = "head" THEN {} ELSE {e}) \cup extra
  <1>1. /\ enable' = [x \in Entries |-> x \notin freed /\ enable[x]]
        /\ rule' = [x \in Entries |-> IF x \in freed THEN NoRule ELSE rule[x]]
        /\ dead' = [x \in Entries |-> x \notin freed /\ (dead[x] \/ (x = e /\ pos = "head"))]
    BY DEF DelRule
  <1>2. \A x \in extra : dead[x]
    OBVIOUS
  <1> HIDE DEF pos, extra
  <1>3. \A x \in freed : x = e \/ dead[x]
    BY <1>2
  <1>4. pos # "head" => e \in freed
    OBVIOUS
  <1> HIDE DEF freed
  <1>5. \A x \in Entries : /\ enable'[x] <=> (x \notin freed /\ enable[x])
                           /\ dead'[x] <=> (x \notin freed /\ (dead[x] \/ (x = e /\ pos = "head")))
                           /\ x \notin freed => rule'[x] = rule[x]
    BY <1>1
  <1> QED
    BY <1>3, <1>4, <1>5 DEF Alive

\* The write of an add changes one entry.
LEMMA WriteOthers ==
    ASSUME TypeOK, CallSound, NEW failed \in SUBSET AddCommands, AddWrite(failed)
    PROVE  /\ new_entry \in Usable /\ new_entry \in Entries /\ ~enable[new_entry] /\ arg \in Rules
           /\ \A x \in Entries : x # new_entry =>
                enable'[x] = enable[x] /\ dead'[x] = dead[x] /\ rule'[x] = rule[x]
           /\ enable'[new_entry] <=> "enable" \notin failed
           /\ ~dead'[new_entry] /\ rule'[new_entry] = arg
  <1>1. new_entry \in Usable /\ new_entry \in Entries /\ ~enable[new_entry] /\ arg \in Rules
    BY EntryFacts DEF CallSound, AddWrite
  <1>2. /\ rule' = [rule EXCEPT ![new_entry] = arg]
        /\ enable' = [enable EXCEPT ![new_entry] = "enable" \notin failed]
        /\ dead' = [dead EXCEPT ![new_entry] = FALSE]
    BY DEF AddWrite
  <1> QED
    BY <1>1, <1>2 DEF TypeOK

\* What the handles are after the write.
LEMMA WriteHandles ==
    ASSUME TypeOK, HandlesSound, CallSound, NEW failed \in SUBSET AddCommands, AddWrite(failed)
    PROVE  /\ \A h \in Handles : rule_id_array[h] # new_entry
           /\ \A h \in Handles :
                \/ h = make_rule_hdl /\ "enable" \notin failed /\ rule_id_array[h] = 0 /\ rule_id_array'[h] = new_entry
                \/ (h = make_rule_hdl => "enable" \in failed) /\ rule_id_array'[h] = rule_id_array[h]
  <1>1. \A h \in Handles : rule_id_array[h] # new_entry
    BY WriteOthers, EntryFacts DEF HandlesSound, Alive
  <1>2. \A h \in Handles : rule_id_array'[h] =
            IF h = make_rule_hdl /\ "enable" \notin failed THEN new_entry ELSE rule_id_array[h]
    BY DEF AddWrite
  <1> QED
    BY <1>1, <1>2, HandleFacts

\* A handle stands for one live rule, whatever fails.
LEMMA HandlesStep ==
    ASSUME HandlesInv, [Next]_vars
    PROVE  HandlesInv'
  <1>1. TypeOK /\ HandlesSound /\ CallSound /\ RulesHeld /\ TypeOK'
    BY TypesStep DEF HandlesInv
  <1> SUFFICES HandlesSound' /\ CallSound' /\ RulesHeld'
    BY <1>1 DEF HandlesInv
  <1>2. ASSUME UNCHANGED <<enable, dead, rule, rule_id_array>> PROVE HandlesSound' /\ RulesHeld'
    BY <1>1, <1>2 DEF HandlesSound, RulesHeld, Alive
  <1>3. CASE UNCHANGED vars
    BY <1>1, <1>2, <1>3 DEF vars, CallSound
  <1>4. CASE add_ipv4_tbl \/ del_ipv4_table
    <2>1. reset_tbl /\ UNCHANGED call /\ pc = "idle"
      BY <1>1, <1>4 DEF add_ipv4_tbl, del_ipv4_table, CallSound
    <2>2. CallSound'
      BY <1>1, <2>1 DEF CallSound, call
    <2> QED
      BY <2>1, <2>2 DEF reset_tbl, AllFalse, NoHandles, HandlesSound, RulesHeld
  <1>5. CASE \E r \in Rules : AddStart(r)
    <2>1. PICK r \in Rules : AddStart(r)
      BY <1>5
    <2>2. dst_hash(r) \in Usable
      BY SlotFacts, EntryFacts
    <2>3. CallSound'
      BY <1>1, <2>1, <2>2 DEF AddStart, CallSound, table
    <2> QED
      BY <1>2, <2>1, <2>3 DEF AddStart, table
  <1>6. CASE WalkNext \/ WalkEnd \/ WalkFails
    <2>1. expn_tbl_free_entry # 0 => expn_tbl_free_entry \in Usable /\ ~enable[expn_tbl_free_entry]
      BY FreeFacts, EntryFacts
    <2>2. CallSound'
      BY <1>1, <1>6, <2>1 DEF WalkNext, WalkEnd, WalkFails, Return, CallSound, table
    <2> QED
      BY <1>2, <1>6, <2>2 DEF WalkNext, WalkEnd, WalkFails, table
  <1>7. CASE IndexStart
    <2>1. src_hash(arg) \in Usable
      BY <1>1, <1>7, SlotFacts, EntryFacts DEF CallSound, IndexStart
    <2>2. CallSound'
      BY <1>1, <1>7, <2>1 DEF IndexStart, CallSound, table
    <2> QED
      BY <1>2, <1>7, <2>2 DEF IndexStart, table
  <1>8. CASE IndexWalkNext \/ IndexWalkEnd \/ IndexWalkFails
    <2>1. index_expn_get_free_entry # 0 => index_expn_get_free_entry \in Usable
      BY FreeFacts, EntryFacts
    <2>2. CallSound'
      BY <1>1, <1>8, <2>1 DEF IndexWalkNext, IndexWalkEnd, IndexWalkFails, Return, CallSound, table
    <2> QED
      BY <1>2, <1>8, <2>2 DEF IndexWalkNext, IndexWalkEnd, IndexWalkFails, table
  <1>9. CASE \E failed \in SUBSET AddCommands : AddWrite(failed)
    <2>1. PICK failed \in SUBSET AddCommands : AddWrite(failed)
      BY <1>9
    <2>2. CallSound'
      BY <1>1, <2>1 DEF AddWrite, Return, CallSound
    <2>3. RulesHeld'
      BY <1>1, <2>1, WriteOthers DEF RulesHeld
    <2>4. /\ \A h \in Handles : rule_id_array[h] # new_entry
          /\ \A h \in Handles :
                \/ h = make_rule_hdl /\ "enable" \notin failed /\ rule_id_array[h] = 0 /\ rule_id_array'[h] = new_entry
                \/ (h = make_rule_hdl => "enable" \in failed) /\ rule_id_array'[h] = rule_id_array[h]
      BY <1>1, <2>1, WriteHandles
    <2>5. /\ new_entry \in Entries /\ ~enable[new_entry]
          /\ \A x \in Entries : x # new_entry => enable'[x] = enable[x] /\ dead'[x] = dead[x]
          /\ enable'[new_entry] <=> "enable" \notin failed
          /\ ~dead'[new_entry]
      BY <1>1, <2>1, WriteOthers
    <2>6. \A h \in Handles : rule_id_array'[h] # 0 => enable'[rule_id_array'[h]] /\ ~dead'[rule_id_array'[h]]
      BY <1>1, <2>4, <2>5 DEF HandlesSound, Alive, TypeOK
    <2>7. \A g, h \in Handles : rule_id_array'[g] = rule_id_array'[h] /\ g # h => rule_id_array'[h] = 0
      BY <1>1, <2>4 DEF HandlesSound
    <2> QED
      BY <2>2, <2>3, <2>6, <2>7 DEF HandlesSound, Alive
  <1>10. CASE \E h \in Handles : del_ipv4_rule(h)
    <2>1. PICK h \in Handles : del_ipv4_rule(h)
      BY <1>10
    <2> DEFINE e == rule_id_array[h]
    <2>2. e \in Entries /\ e # 0 /\ DelRule(e) /\ rule_id_array' = [rule_id_array EXCEPT ![h] = 0]
          /\ pc = "idle" /\ UNCHANGED call
      BY <1>1, <2>1 DEF del_ipv4_rule, Parses, TypeOK
    <2>3. CallSound'
      BY <1>1, <2>2 DEF CallSound, call
    <2>4. /\ \A x \in Entries : x # e /\ Alive(x) => enable'[x] /\ ~dead'[x]
          /\ \A x \in Entries : enable'[x] => enable[x] /\ rule'[x] = rule[x]
      BY <1>1, <2>2, DelRuleOthers
    <2>5. RulesHeld'
      BY <1>1, <2>4 DEF RulesHeld
    <2>6. \A g \in Handles : rule_id_array'[g] = IF g = h THEN 0 ELSE rule_id_array[g]
      BY <1>1, <2>2 DEF TypeOK
    <2>7. \A g \in Handles : rule_id_array'[g] # 0 => enable'[rule_id_array'[g]] /\ ~dead'[rule_id_array'[g]]
      <3> SUFFICES ASSUME NEW g \in Handles, rule_id_array'[g] # 0
                   PROVE  enable'[rule_id_array'[g]] /\ ~dead'[rule_id_array'[g]]
        OBVIOUS
      <3>1. g # h /\ rule_id_array'[g] = rule_id_array[g] /\ rule_id_array[g] # e /\ rule_id_array[g] \in Entries
        BY <1>1, <2>2, <2>6 DEF HandlesSound, TypeOK
      <3> QED
        BY <1>1, <3>1, <2>4 DEF HandlesSound
    <2>8. \A g, k \in Handles : rule_id_array'[g] = rule_id_array'[k] /\ g # k => rule_id_array'[k] = 0
      BY <1>1, <2>6 DEF HandlesSound
    <2> QED
      BY <2>3, <2>5, <2>7, <2>8 DEF HandlesSound, Alive
  <1> QED
    BY <1>3, <1>4, <1>5, <1>6, <1>7, <1>8, <1>9, <1>10 DEF Next, AddSteps

LEMMA HandlesInit ==
    ASSUME Init
    PROVE  HandlesInv
  <1>1. /\ enable = AllFalse /\ dead = AllFalse /\ rule = NoRules
        /\ next_index = AllZero /\ prev_index = AllZero /\ indx_tbl_entry = AllZero
        /\ idx_tbl_entry = AllZero /\ idx_next_index = AllZero /\ idx_prev_index = AllZero
        /\ rule_id_array = NoHandles /\ Idle /\ failures = 0 /\ valid = FALSE
    BY DEF Init
  <1>2. TypeOK
    BY <1>1, EntryFacts DEF TypeOK, AllFalse, AllZero, NoRules, NoHandles, Idle, PCs
  <1>3. HandlesSound /\ RulesHeld
    BY <1>1 DEF HandlesSound, RulesHeld, AllFalse, NoHandles
  <1>4. CallSound
    BY <1>1 DEF CallSound, Idle
  <1> QED
    BY <1>2, <1>3, <1>4 DEF HandlesInv

----------------------------------------------------------------------------
(* The map from handles to rules *)

\* The abstract map of a state.
Held == [h \in Handles |-> IF rule_id_array[h] = 0 THEN NoRule ELSE rule[rule_id_array[h]]]

\* Every step of the library is a step of the map, or leaves it as it is.
LEMMA MapStep ==
    ASSUME HandlesInv, [Next]_vars
    PROVE  \/ \E h \in Handles, r \in Rules : Held[h] = NoRule /\ Held' = [Held EXCEPT ![h] = r]
           \/ \E h \in Handles : Held[h] # NoRule /\ Held' = [Held EXCEPT ![h] = NoRule]
           \/ Held' = [h \in Handles |-> NoRule]
           \/ Held' = Held
  <1>1. TypeOK /\ HandlesSound /\ CallSound /\ RulesHeld
    BY DEF HandlesInv
  <1>2. CASE UNCHANGED <<rule, rule_id_array>>
    BY <1>2 DEF Held
  <1>3. CASE reset_tbl
    BY <1>3 DEF Held, reset_tbl, NoHandles
  <1>4. CASE \E failed \in SUBSET AddCommands : AddWrite(failed)
    <2>1. PICK failed \in SUBSET AddCommands : AddWrite(failed)
      BY <1>4
    <2>2. /\ \A h \in Handles : rule_id_array[h] # new_entry
          /\ \A h \in Handles :
                \/ h = make_rule_hdl /\ "enable" \notin failed /\ rule_id_array[h] = 0 /\ rule_id_array'[h] = new_entry
                \/ (h = make_rule_hdl => "enable" \in failed) /\ rule_id_array'[h] = rule_id_array[h]
      BY <1>1, <2>1, WriteHandles
    <2>3. /\ new_entry \in Entries /\ new_entry # 0 /\ arg \in Rules
          /\ \A x \in Entries : x # new_entry => rule'[x] = rule[x]
          /\ rule'[new_entry] = arg
      BY <1>1, <2>1, WriteOthers, EntryFacts
    <2>4. ASSUME NEW h \in Handles, rule_id_array'[h] = rule_id_array[h]
          PROVE  Held'[h] = Held[h]
      BY <1>1, <2>2, <2>3, <2>4 DEF Held, TypeOK
    <2>5. CASE "enable" \notin failed /\ make_rule_hdl \in Handles
      <3> DEFINE k == make_rule_hdl
      <3>1. rule_id_array[k] = 0 /\ rule_id_array'[k] = new_entry
        BY <2>2, <2>5
      <3>2. Held[k] = NoRule /\ Held'[k] = arg
        BY <2>3, <2>5, <3>1 DEF Held
      <3>3. \A h \in Handles : h # k => Held'[h] = Held[h]
        BY <2>2, <2>4
      <3>4. Held' = [Held EXCEPT ![k] = arg]
        BY <2>5, <3>2, <3>3 DEF Held
      <3> QED
        BY <2>3, <2>5, <3>2, <3>4
    <2>6. CASE "enable" \in failed \/ make_rule_hdl \notin Handles
      <3>1. \A h \in Handles : Held'[h] = Held[h]
        BY <2>2, <2>4, <2>6
      <3> QED
        BY <3>1 DEF Held
    <2> QED
      BY <2>5, <2>6
  <1>5. CASE \E h \in Handles : del_ipv4_rule(h)
    <2>1. PICK h \in Handles : del_ipv4_rule(h)
      BY <1>5
    <2> DEFINE e == rule_id_array[h]
    <2>2. e \in Entries /\ e # 0 /\ DelRule(e) /\ rule_id_array' = [rule_id_array EXCEPT ![h] = 0]
      BY <1>1, <2>1 DEF del_ipv4_rule, Parses, TypeOK
    <2>3. /\ \A x \in Entries : x # e /\ Alive(x) => enable'[x] /\ ~dead'[x]
          /\ \A x \in Entries : enable'[x] => enable[x] /\ rule'[x] = rule[x]
      BY <1>1, <2>2, DelRuleOthers
    <2>4. Held[h] # NoRule
      BY <1>1, <2>2, NatTableAssumption DEF Held, HandlesSound, Alive, RulesHeld
    <2>5. \A g \in Handles : rule_id_array'[g] = IF g = h THEN 0 ELSE rule_id_array[g]
      BY <1>1, <2>2 DEF TypeOK
    <2>6. Held'[h] = NoRule
      BY <2>5 DEF Held
    <2>7. \A g \in Handles : g # h => Held'[g] = Held[g]
      <3> SUFFICES ASSUME NEW g \in Handles, g # h PROVE Held'[g] = Held[g]
        OBVIOUS
      <3>1. CASE rule_id_array[g] = 0
        BY <2>5, <3>1 DEF Held
      <3>2. CASE rule_id_array[g] # 0
        <4>1. rule_id_array[g] \in Entries /\ rule_id_array[g] # e /\ Alive(rule_id_array[g])
          BY <1>1, <2>2, <3>2 DEF HandlesSound, TypeOK
        <4>2. rule'[rule_id_array[g]] = rule[rule_id_array[g]]
          BY <2>3, <4>1
        <4> QED
          BY <2>5, <3>2, <4>2 DEF Held
      <3> QED
        BY <3>1, <3>2
    <2>8. Held' = [Held EXCEPT ![h] = NoRule]
      BY <2>6, <2>7 DEF Held
    <2> QED
      BY <2>4, <2>8
  <1> QED
    BY <1>2, <1>3, <1>4, <1>5
       DEF Next, AddSteps, AddStart, WalkNext, WalkEnd, WalkFails, IndexStart, IndexWalkNext, IndexWalkEnd,
           IndexWalkFails, add_ipv4_tbl, del_ipv4_table, table, vars

\* libipanat implements the map from handles to rules, for tables of every size,
\* whichever commands of an add fail: ipa_nati_add_ipv4_rule gives a new rule a handle
\* that stood for none, ipa_nati_del_ipv4_rule removes the rule of its handle and no
\* other, and the steps between change nothing a client can see.
THEOREM MapRefinement == Spec => ImplementsNatRules
  <1>1. Init => Abstract!NInit
    BY DEF Init, Abstract!NInit, NoHandles
  <1>2. HandlesInv /\ [Next]_vars => [Abstract!NNext]_Held
    BY MapStep DEF Abstract!NNext, Abstract!NAdd, Abstract!NDelete, Abstract!NDeleteTable, Held
  <1>3. Init => HandlesInv
    BY HandlesInit
  <1>4. HandlesInv /\ [Next]_vars => HandlesInv'
    BY HandlesStep
  <1> QED
    BY <1>1, <1>2, <1>3, <1>4, PTL DEF Spec, ImplementsNatRules, Abstract!NSpec, Held

----------------------------------------------------------------------------
(* The linked tables: calls that do not write *)

\* A reset table is linked.
LEMMA ResetLinked ==
    ASSUME reset_tbl, UNCHANGED call, pc = "idle"
    PROVE  LinkedInv'
  <1>1. \A x \in Entries : ~enable'[x] /\ ~dead'[x] /\ next_index'[x] = 0 /\ idx_tbl_entry'[x] = 0
                           /\ idx_next_index'[x] = 0
    BY DEF reset_tbl, AllFalse, AllZero
  <1>2. ChainsLinked' /\ IndexLinked' /\ EveryRuleHasHandle'
    BY <1>1 DEF ChainsLinked, IndexLinked, EveryRuleHasHandle, InUse, Alive, IndexUsed
  <1>3. CallLinked'
    BY DEF CallLinked, call
  <1>4. Acyclic(next_index)' /\ Acyclic(idx_next_index)'
    <2> DEFINE rank == [e \in Entries |-> 0]
    <2>1. rank \in [Entries -> Nat]
      OBVIOUS
    <2> QED
      BY <1>1, <2>1 DEF Acyclic
  <1> QED
    BY <1>2, <1>3, <1>4 DEF LinkedInv

LEMMA LinkedInit ==
    ASSUME Init
    PROVE  LinkedInv
  <1>1. \A x \in Entries : ~enable[x] /\ ~dead[x] /\ next_index[x] = 0 /\ idx_tbl_entry[x] = 0
                           /\ idx_next_index[x] = 0
    BY DEF Init, AllFalse, AllZero
  <1>2. ChainsLinked /\ IndexLinked /\ EveryRuleHasHandle
    BY <1>1 DEF ChainsLinked, IndexLinked, EveryRuleHasHandle, InUse, Alive, IndexUsed
  <1>3. CallLinked
    BY DEF CallLinked, Init, Idle
  <1>4. Acyclic(next_index) /\ Acyclic(idx_next_index)
    <2> DEFINE rank == [e \in Entries |-> 0]
    <2>1. rank \in [Entries -> Nat]
      OBVIOUS
    <2> QED
      BY <1>1, <2>1 DEF Acyclic
  <1> QED
    BY <1>2, <1>3, <1>4 DEF LinkedInv

\* A step that writes neither table.
LEMMA FrameLinked ==
    ASSUME LinkedInv, UNCHANGED <<table, index, rule_id_array>>
    PROVE  ChainsLinked' /\ IndexLinked' /\ EveryRuleHasHandle' /\ Acyclic(next_index)' /\ Acyclic(idx_next_index)'
  <1>1. ChainsLinked'
    BY DEF LinkedInv, ChainsLinked, InUse, table
  <1>2. IndexLinked'
    BY DEF LinkedInv, IndexLinked, IndexUsed, Alive, table, index
  <1>3. EveryRuleHasHandle'
    BY DEF LinkedInv, EveryRuleHasHandle, Parses, Alive, table
  <1>4. Acyclic(next_index)' /\ Acyclic(idx_next_index)'
    BY DEF LinkedInv, Acyclic, table, index
  <1> QED
    BY <1>1, <1>2, <1>3, <1>4

\* A walk stays in the chain of its slot, and ends at its last entry.
LEMMA WalksLinked ==
    ASSUME HandlesInv, LinkedInv,
           (\E r \in Rules : AddStart(r)) \/ WalkNext \/ WalkEnd \/ WalkFails \/ IndexStart
           \/ IndexWalkNext \/ IndexWalkEnd \/ IndexWalkFails
    PROVE  LinkedInv'
  <1>1. TypeOK /\ CallSound /\ RulesHeld /\ ChainsLinked /\ IndexLinked /\ CallLinked
    BY DEF HandlesInv, LinkedInv
  <1>2. UNCHANGED <<table, index, rule_id_array>>
    BY DEF AddStart, WalkNext, WalkEnd, WalkFails, IndexStart, IndexWalkNext, IndexWalkEnd, IndexWalkFails
  <1> SUFFICES CallLinked'
    BY <1>2, FrameLinked DEF LinkedInv
  <1>3. UNCHANGED <<enable, dead, rule, next_index, idx_tbl_entry, idx_next_index>>
    BY <1>2 DEF table, index
  <1>4. CASE \E r \in Rules : AddStart(r)
    <2>1. PICK r \in Rules : AddStart(r)
      BY <1>4
    <2>2. dst_hash(r) \in BaseEntries \ {0} /\ dst_hash(r) \in Entries
      BY SlotFacts, EntryFacts
    <2>3. enable[dst_hash(r)] => dst_hash(r) = dst_hash(rule[dst_hash(r)])
      BY <1>1, <2>2 DEF ChainsLinked, InUse
    <2>4. /\ arg' = r /\ new_prev' = 0
          /\ \/ pc' = "walk" /\ cursor' = dst_hash(r) /\ enable[dst_hash(r)]
             \/ pc' = "index" /\ new_entry' = dst_hash(r)
      BY <1>1, <2>1 DEF AddStart, CallSound
    <2> QED
      BY <1>3, <2>3, <2>4 DEF CallLinked, InUse
  <1>5. CASE WalkNext
    <2>1. pc = "walk" /\ InUse(cursor) /\ dst_hash(rule[cursor]) = dst_hash(arg) /\ cursor \in Entries
      BY <1>1, <1>5 DEF WalkNext, CallLinked, TypeOK
    <2>2. cursor' = next_index[cursor] /\ next_index[cursor] # 0 /\ UNCHANGED <<pc, arg>>
      BY <1>5 DEF WalkNext
    <2>3. next_index[cursor] \in ExpnEntries /\ InUse(next_index[cursor]) /\ prev_index[next_index[cursor]] = cursor
      BY <1>1, <2>1, <2>2 DEF ChainsLinked
    <2>4. dst_hash(rule[next_index[cursor]]) = dst_hash(rule[cursor])
      BY <1>1, <2>3, EntryFacts DEF ChainsLinked
    <2> QED
      BY <1>3, <2>1, <2>2, <2>3, <2>4 DEF CallLinked, InUse
  <1>6. CASE WalkEnd
    <2>1. pc = "walk" /\ InUse(cursor) /\ dst_hash(rule[cursor]) = dst_hash(arg)
      BY <1>1, <1>6 DEF WalkEnd, CallLinked
    <2>2. expn_tbl_free_entry \in UsableExpn
      BY <1>6, FreeFacts DEF WalkEnd
    <2>3. cursor # 0
      BY <1>1, <2>1, EntryFacts DEF RulesHeld, InUse
    <2> QED
      BY <1>3, <1>6, <2>1, <2>2, <2>3 DEF WalkEnd, CallLinked, InUse
  <1>7. CASE WalkFails \/ IndexWalkFails
    BY <1>7 DEF WalkFails, IndexWalkFails, Return, CallLinked
  <1>8. CASE IndexStart
    <2>1. pc = "index" /\ arg \in Rules
      BY <1>1, <1>8 DEF IndexStart, CallSound
    <2>2. src_hash(arg) \in BaseEntries \ {0} /\ src_hash(arg) \in Entries
      BY <2>1, SlotFacts, EntryFacts
    <2>3. IndexUsed(src_hash(arg)) => src_hash(arg) = src_hash(rule[idx_tbl_entry[src_hash(arg)]])
      BY <1>1, <2>2 DEF IndexLinked
    <2>4. /\ UNCHANGED <<arg, new_entry, new_prev, new_index_prev>> /\ new_index_prev = 0
          /\ \/ pc' = "walk_index" /\ cursor' = src_hash(arg) /\ IndexUsed(src_hash(arg))
             \/ pc' = "write" /\ new_index' = src_hash(arg) /\ ~IndexUsed(src_hash(arg))
      BY <1>1, <1>8, <2>1 DEF IndexStart, IndexUsed, CallSound
    <2> QED
      BY <1>1, <1>3, <2>1, <2>3, <2>4 DEF CallLinked, InUse, IndexUsed
  <1>9. CASE IndexWalkNext
    <2>1. pc = "walk_index" /\ IndexUsed(cursor) /\ src_hash(rule[idx_tbl_entry[cursor]]) = src_hash(arg)
          /\ cursor \in Entries
      BY <1>1, <1>9 DEF IndexWalkNext, CallLinked, TypeOK
    <2> DEFINE n == idx_next_index[cursor]
    <2>2. cursor' = n /\ n # 0 /\ UNCHANGED <<pc, arg, new_entry, new_prev>>
      BY <1>9 DEF IndexWalkNext
    <2>3. n \in ExpnEntries /\ IndexUsed(n) /\ idx_prev_index[n] = cursor
      BY <1>1, <2>1, <2>2 DEF IndexLinked
    <2>4. src_hash(rule[idx_tbl_entry[cursor]]) = src_hash(rule[idx_tbl_entry[n]])
      BY <1>1, <2>3, EntryFacts DEF IndexLinked
    <2> QED
      BY <1>1, <1>3, <2>1, <2>2, <2>3, <2>4 DEF CallLinked, InUse, IndexUsed
  <1>10. CASE IndexWalkEnd
    <2>1. pc = "walk_index" /\ IndexUsed(cursor) /\ src_hash(rule[idx_tbl_entry[cursor]]) = src_hash(arg)
          /\ cursor \in Entries
      BY <1>1, <1>10 DEF IndexWalkEnd, CallLinked, TypeOK
    <2>2. index_expn_get_free_entry \in UsableExpn /\ ~IndexUsed(index_expn_get_free_entry)
      BY <1>10, FreeFacts DEF IndexWalkEnd, IndexUsed
    <2>3. cursor # 0
      BY <1>1, <2>1, EntryFacts DEF IndexLinked, Usable
    <2>4. /\ pc' = "write" /\ new_index' = index_expn_get_free_entry /\ new_index_prev' = cursor
          /\ idx_next_index[cursor] = 0 /\ UNCHANGED <<arg, new_entry, new_prev>>
      BY <1>10 DEF IndexWalkEnd
    <2> QED
      BY <1>1, <1>3, <2>1, <2>2, <2>3, <2>4 DEF CallLinked, InUse, IndexUsed
  <1> QED
    BY <1>4, <1>5, <1>6, <1>7, <1>8, <1>9, <1>10

----------------------------------------------------------------------------
(* The linked tables: the write of an add *)

\* As long as an entry is free there is a handle, and not the largest one, which
\* parse_ipv4_rule_hdl refuses: fewer entries are in use than handles are accepted.
LEMMA FreeHandle ==
    ASSUME TypeOK, HandlesSound, RulesHeld, new_entry \in Usable, ~enable[new_entry]
    PROVE  \E h \in Handles : h < table_entries + expn_table_entries /\ rule_id_array[h] = 0
  <1> DEFINE N == table_entries + expn_table_entries
             S == 1..(N - 1)
             T == S \ {new_entry}
             f == [h \in S |-> rule_id_array[h]]
  <1>1. N \in Nat /\ N >= 4 /\ S \subseteq Handles /\ Usable \subseteq S /\ \A h \in S : h < N
    BY EntryFacts DEF Handles, Usable, UsableExpn, BaseEntries
  <1>2. IsFiniteSet(S) /\ Cardinality(S) = N - 1
    <2>1. 1 \in Int /\ N - 1 \in Int /\ ~(1 > N - 1) /\ N - 1 - 1 + 1 = N - 1
      BY <1>1
    <2> QED
      BY <2>1, FS_Interval
  <1>3. IsFiniteSet(T) /\ Cardinality(T) = N - 1 - 1
    <2>1. new_entry \in S
      BY <1>1
    <2> QED
      BY <1>2, <2>1, FS_RemoveElement
  <1>4. Cardinality(T) < Cardinality(S)
    BY <1>1, <1>2, <1>3
  <1> SUFFICES ASSUME \A h \in S : rule_id_array[h] # 0 PROVE FALSE
    BY <1>1
  <1>5. f \in [S -> T]
    <2>1. \A h \in S : rule_id_array[h] \in Entries /\ Alive(rule_id_array[h])
      BY <1>1 DEF TypeOK, HandlesSound
    <2>2. \A h \in S : rule_id_array[h] \in Usable /\ rule_id_array[h] # new_entry
      BY <2>1 DEF RulesHeld, Alive
    <2> QED
      BY <1>1, <2>2
  <1> HIDE DEF S, T, f
  <1>6. \E x, y \in S : x # y /\ f[x] = f[y]
    BY <1>2, <1>3, <1>4, <1>5, FS_PigeonHole
  <1>7. PICK x, y \in S : x # y /\ f[x] = f[y]
    BY <1>6
  <1>8. rule_id_array[x] = rule_id_array[y]
    BY <1>7 DEF f
  <1>9. x \in Handles /\ y \in Handles
    BY <1>1
  <1>10. rule_id_array[y] = 0
    BY <1>7, <1>8, <1>9 DEF HandlesSound
  <1> QED
    BY <1>10

\* The tables after an add all of whose commands are carried out.
LEMMA WriteForms ==
    ASSUME HandlesInv, LinkedInv, AddWrite({})
    PROVE  /\ new_entry \in Usable /\ new_entry \in Entries /\ new_entry # 0 /\ ~enable[new_entry]
           /\ new_index \in Usable /\ new_index \in Entries /\ new_index # 0 /\ ~IndexUsed(new_index)
           /\ new_prev # new_entry /\ new_index_prev # new_index /\ arg \in Rules
           /\ new_prev \in Entries /\ new_index_prev \in Entries
           /\ enable'[new_entry] /\ ~dead'[new_entry] /\ rule'[new_entry] = arg
           /\ prev_index'[new_entry] = new_prev /\ indx_tbl_entry'[new_entry] = new_index
           /\ next_index'[new_entry] = 0 /\ (new_prev # 0 => next_index'[new_prev] = new_entry)
           /\ \A x \in Entries : x # new_entry =>
                /\ enable'[x] = enable[x] /\ dead'[x] = dead[x] /\ rule'[x] = rule[x]
                /\ prev_index'[x] = prev_index[x] /\ indx_tbl_entry'[x] = indx_tbl_entry[x]
                /\ x # new_prev \/ new_prev = 0 => next_index'[x] = next_index[x]
           /\ idx_tbl_entry'[new_index] = new_entry /\ idx_next_index'[new_index] = 0
           /\ new_index \in ExpnEntries => idx_prev_index'[new_index] = new_index_prev
           /\ new_index_prev # 0 => idx_next_index'[new_index_prev] = new_index
           /\ \A x \in Entries : x # new_index =>
                /\ idx_tbl_entry'[x] = idx_tbl_entry[x] /\ idx_prev_index'[x] = idx_prev_index[x]
                /\ x # new_index_prev \/ new_index_prev = 0 => idx_next_index'[x] = idx_next_index[x]
  <1>1. TypeOK /\ HandlesSound /\ CallSound /\ CallLinked /\ pc = "write" /\ {} \in SUBSET AddCommands
    BY DEF HandlesInv, LinkedInv, AddWrite
  <1>2. new_entry \in Usable /\ new_entry \in Entries /\ new_entry # 0 /\ ~enable[new_entry] /\ arg \in Rules
    BY <1>1, EntryFacts DEF CallSound
  <1>3. new_index \in Usable /\ new_index \in Entries /\ new_index # 0 /\ ~IndexUsed(new_index)
    BY <1>1, EntryFacts DEF CallSound, CallLinked
  <1>4. new_prev # new_entry /\ new_index_prev # new_index /\ new_prev \in Entries /\ new_index_prev \in Entries
    BY <1>1, <1>2, <1>3 DEF CallLinked, InUse, TypeOK
  <1>5. /\ enable'[new_entry] /\ ~dead'[new_entry] /\ rule'[new_entry] = arg
        /\ \A x \in Entries : x # new_entry =>
             enable'[x] = enable[x] /\ dead'[x] = dead[x] /\ rule'[x] = rule[x]
    BY <1>1, WriteOthers
  <1>6. /\ prev_index' = [prev_index EXCEPT ![new_entry] = new_prev]
        /\ indx_tbl_entry' = [indx_tbl_entry EXCEPT ![new_entry] = new_index]
        /\ idx_tbl_entry' = [idx_tbl_entry EXCEPT ![new_index] = new_entry]
    BY DEF AddWrite
  <1>7. next_index' = [e \in Entries |-> IF e = new_prev /\ new_prev # 0 THEN new_entry
                                         ELSE IF e = new_entry THEN 0 ELSE next_index[e]]
    BY DEF AddWrite
  <1>8. idx_next_index' = [i \in Entries |-> IF i = new_index_prev /\ new_index_prev # 0 THEN new_index
                                             ELSE IF i = new_index THEN 0 ELSE idx_next_index[i]]
    BY DEF AddWrite
  <1>9. idx_prev_index' = [i \in Entries |-> IF i = new_index /\ i \in ExpnEntries THEN new_index_prev
                                             ELSE idx_prev_index[i]]
    BY DEF AddWrite
  <1>10. /\ prev_index'[new_entry] = new_prev /\ indx_tbl_entry'[new_entry] = new_index
         /\ \A x \in Entries : x # new_entry =>
              prev_index'[x] = prev_index[x] /\ indx_tbl_entry'[x] = indx_tbl_entry[x]
         /\ idx_tbl_entry'[new_index] = new_entry
         /\ \A x \in Entries : x # new_index => idx_tbl_entry'[x] = idx_tbl_entry[x]
    BY <1>1, <1>2, <1>3, <1>6 DEF TypeOK
  <1>11. /\ next_index'[new_entry] = 0 /\ (new_prev # 0 => next_index'[new_prev] = new_entry)
         /\ \A x \in Entries : x # new_entry /\ (x # new_prev \/ new_prev = 0) => next_index'[x] = next_index[x]
    BY <1>2, <1>4, <1>7
  <1>12. /\ idx_next_index'[new_index] = 0 /\ (new_index_prev # 0 => idx_next_index'[new_index_prev] = new_index)
         /\ \A x \in Entries : x # new_index /\ (x # new_index_prev \/ new_index_prev = 0)
              => idx_next_index'[x] = idx_next_index[x]
    BY <1>3, <1>4, <1>8
  <1>13. /\ new_index \in ExpnEntries => idx_prev_index'[new_index] = new_index_prev
         /\ \A x \in Entries : x # new_index => idx_prev_index'[x] = idx_prev_index[x]
    BY <1>3, <1>9
  <1> QED
    BY <1>2, <1>3, <1>4, <1>5, <1>10, <1>11, <1>12, <1>13

\* The new entry is linked at the end of the chain of its slot.
LEMMA WriteChains ==
    ASSUME HandlesInv, LinkedInv, AddWrite({})
    PROVE  ChainsLinked' /\ Acyclic(next_index)'
  <1>1. TypeOK /\ ChainsLinked /\ CallLinked /\ pc = "write" /\ Acyclic(next_index)
    BY DEF HandlesInv, LinkedInv, AddWrite
  <1> DEFINE w == new_entry
             p == new_prev
             r == arg
  <1>2. /\ w \in Usable /\ w \in Entries /\ w # 0 /\ ~enable[w] /\ p # w /\ p \in Entries /\ r \in Rules
        /\ enable'[w] /\ ~dead'[w] /\ rule'[w] = r /\ prev_index'[w] = p /\ next_index'[w] = 0
        /\ p # 0 => next_index'[p] = w
        /\ \A x \in Entries : x # w =>
             /\ enable'[x] = enable[x] /\ dead'[x] = dead[x] /\ rule'[x] = rule[x]
             /\ prev_index'[x] = prev_index[x]
             /\ x # p \/ p = 0 => next_index'[x] = next_index[x]
    BY WriteForms
  <1>3. /\ p = 0 => w = dst_hash(r)
        /\ p # 0 => w \in UsableExpn /\ enable[p] /\ next_index[p] = 0 /\ dst_hash(rule[p]) = dst_hash(r)
    BY <1>1 DEF CallLinked, InUse
  <1> HIDE DEF w, p, r
  <1>4. \A x \in Entries : next_index[x] # 0 => /\ next_index[x] # w /\ next_index[x] \in Entries
                                                /\ enable[x]
    BY <1>1, <1>2 DEF ChainsLinked, InUse, TypeOK
  <1>5. dst_hash(r) \in BaseEntries \ {0} /\ 0 \in Entries
    BY <1>2, SlotFacts, EntryFacts
  <1>6. ASSUME NEW x \in Entries, enable'[x]
        PROVE  /\ x \in UsableExpn \cup (BaseEntries \ {0})
               /\ rule'[x] \in Rules
               /\ x \in BaseEntries => prev_index'[x] = 0 /\ x = dst_hash(rule'[x])
               /\ x \in ExpnEntries =>
                   /\ enable'[prev_index'[x]] /\ next_index'[prev_index'[x]] = x
                   /\ dst_hash(rule'[prev_index'[x]]) = dst_hash(rule'[x])
               /\ next_index'[x] # 0 =>
                   /\ next_index'[x] \in ExpnEntries
                   /\ enable'[next_index'[x]] /\ prev_index'[next_index'[x]] = x
               /\ dead'[x] => x \in BaseEntries /\ next_index'[x] # 0
    <2>1. CASE x = w
      <3>1. CASE p = 0
        BY <1>2, <1>3, <1>5, <2>1, <3>1, EntryFacts DEF Usable
      <3>2. CASE p # 0
        BY <1>2, <1>3, <2>1, <3>2, EntryFacts DEF Usable
      <3> QED
        BY <3>1, <3>2
    <2>2. CASE x # w
      <3>1. /\ enable[x] /\ dead'[x] = dead[x] /\ rule'[x] = rule[x] /\ prev_index'[x] = prev_index[x]
        BY <1>2, <1>6, <2>2
      <3>2. /\ x \in UsableExpn \cup (BaseEntries \ {0})
            /\ rule[x] \in Rules
            /\ x \in BaseEntries => prev_index[x] = 0 /\ x = dst_hash(rule[x])
            /\ x \in ExpnEntries =>
                /\ enable[prev_index[x]] /\ next_index[prev_index[x]] = x
                /\ dst_hash(rule[prev_index[x]]) = dst_hash(rule[x])
            /\ next_index[x] # 0 =>
                /\ next_index[x] \in ExpnEntries
                /\ enable[next_index[x]] /\ prev_index[next_index[x]] = x
            /\ dead[x] => x \in BaseEntries /\ next_index[x] # 0
        BY <1>1, <3>1 DEF ChainsLinked, InUse
      <3>3. x \in ExpnEntries =>
              /\ enable'[prev_index'[x]] /\ next_index'[prev_index'[x]] = x
              /\ dst_hash(rule'[prev_index'[x]]) = dst_hash(rule'[x])
        <4> SUFFICES ASSUME x \in ExpnEntries
                     PROVE  /\ enable'[prev_index'[x]] /\ next_index'[prev_index'[x]] = x
                            /\ dst_hash(rule'[prev_index'[x]]) = dst_hash(rule'[x])
          OBVIOUS
        <4> DEFINE y == prev_index[x]
        <4>1. y \in Entries /\ enable[y] /\ next_index[y] = x /\ x # 0 /\ y # w
          BY <1>1, <1>2, <3>2, EntryFacts DEF TypeOK
        <4>2. p # 0 => y # p
          BY <1>3, <4>1
        <4>3. enable'[y] = enable[y] /\ rule'[y] = rule[y] /\ next_index'[y] = next_index[y]
          BY <1>2, <4>1, <4>2
        <4> QED
          BY <3>1, <3>2, <4>1, <4>3
      <3>4. next_index'[x] # 0 =>
              /\ next_index'[x] \in ExpnEntries
              /\ enable'[next_index'[x]] /\ prev_index'[next_index'[x]] = x
        <4>1. CASE x = p /\ p # 0
          BY <1>2, <1>3, <4>1, EntryFacts
        <4>2. CASE x # p \/ p = 0
          BY <1>2, <1>4, <2>2, <3>2, <4>2
        <4> QED
          BY <4>1, <4>2
      <3>5. dead[x] => x # p \/ p = 0
        BY <1>3, <3>2
      <3> QED
        BY <1>2, <2>2, <3>1, <3>2, <3>3, <3>4, <3>5
    <2> QED
      BY <2>1, <2>2
  <1>7. ASSUME NEW x \in Entries, ~enable'[x] PROVE next_index'[x] = 0 /\ ~dead'[x]
    <2>1. x # w /\ ~enable[x] /\ (x # p \/ p = 0)
      BY <1>2, <1>3, <1>7
    <2> QED
      BY <1>1, <1>2, <2>1 DEF ChainsLinked, InUse
  <1>8. ChainsLinked'
    BY <1>6, <1>7 DEF ChainsLinked, InUse
  <1>9. Acyclic(next_index)'
    <2>1. PICK rank \in [Entries -> Nat] : \A e \in Entries : next_index[e] # 0 => rank[e] < rank[next_index[e]]
      BY <1>1 DEF Acyclic
    <2> DEFINE new == [rank EXCEPT ![w] = rank[p] + 1]
    <2>2. new \in [Entries -> Nat] /\ new[w] = rank[p] + 1 /\ \A e \in Entries : e # w => new[e] = rank[e]
      BY <1>2, <2>1
    <2>3. ASSUME NEW e \in Entries, next_index'[e] # 0 PROVE new[e] < new[next_index'[e]]
      <3>1. CASE e = p /\ p # 0
        <4>1. next_index'[e] = w /\ new[e] = rank[p] /\ rank[p] \in Nat
          BY <1>2, <2>1, <2>2, <3>1
        <4> QED
          BY <2>2, <4>1
      <3>2. CASE e # p \/ p = 0
        <4>1. e # w /\ next_index'[e] = next_index[e]
          BY <1>2, <2>3, <3>2
        <4>2. next_index[e] # w /\ next_index[e] \in Entries /\ rank[e] < rank[next_index[e]]
          BY <1>4, <2>1, <2>3, <4>1
        <4> QED
          BY <2>2, <4>1, <4>2
      <3> QED
        BY <3>1, <3>2
    <2> QED
      BY <2>2, <2>3 DEF Acyclic
  <1> QED
    BY <1>8, <1>9

\* The new index entry is linked in the same way, and stands for the new entry.
LEMMA WriteIndex ==
    ASSUME HandlesInv, LinkedInv, AddWrite({})
    PROVE  IndexLinked' /\ Acyclic(idx_next_index)'
  <1>1. TypeOK /\ RulesHeld /\ IndexLinked /\ CallLinked /\ pc = "write" /\ Acyclic(idx_next_index)
    BY DEF HandlesInv, LinkedInv, AddWrite
  <1> DEFINE e == new_entry
             w == new_index
             p == new_index_prev
             r == arg
  <1>2. /\ e \in Entries /\ e # 0 /\ ~enable[e] /\ enable'[e] /\ ~dead'[e] /\ rule'[e] = r
        /\ indx_tbl_entry'[e] = w
        /\ \A x \in Entries : x # e =>
             /\ enable'[x] = enable[x] /\ dead'[x] = dead[x] /\ rule'[x] = rule[x]
             /\ indx_tbl_entry'[x] = indx_tbl_entry[x]
        /\ r \in Rules
    BY WriteForms
  <1>3. /\ w \in Usable /\ w \in Entries /\ w # 0 /\ idx_tbl_entry[w] = 0 /\ p # w /\ p \in Entries
        /\ idx_tbl_entry'[w] = e /\ idx_next_index'[w] = 0 /\ (w \in ExpnEntries => idx_prev_index'[w] = p)
        /\ p # 0 => idx_next_index'[p] = w
        /\ \A x \in Entries : x # w =>
             /\ idx_tbl_entry'[x] = idx_tbl_entry[x] /\ idx_prev_index'[x] = idx_prev_index[x]
             /\ x # p \/ p = 0 => idx_next_index'[x] = idx_next_index[x]
    BY WriteForms DEF IndexUsed
  <1>4. /\ p = 0 => w = src_hash(r)
        /\ p # 0 => /\ w \in UsableExpn /\ idx_tbl_entry[p] # 0 /\ idx_next_index[p] = 0
                    /\ src_hash(rule[idx_tbl_entry[p]]) = src_hash(r)
    BY <1>1 DEF CallLinked, IndexUsed
  <1> HIDE DEF e, w, p, r
  <1>5. \A x \in Entries : idx_next_index[x] # 0 =>
          /\ idx_next_index[x] # w /\ idx_next_index[x] \in Entries /\ idx_tbl_entry[x] # 0
    BY <1>1, <1>3 DEF IndexLinked, IndexUsed, TypeOK
  <1>6. src_hash(r) \in BaseEntries \ {0} /\ 0 \in Entries
    BY <1>2, SlotFacts, EntryFacts
  \* The entry an index entry stands for is another one than the new one.
  <1>7. ASSUME NEW x \in Entries, idx_tbl_entry[x] # 0
        PROVE  /\ idx_tbl_entry[x] \in Entries /\ idx_tbl_entry[x] # e /\ x # w
               /\ enable'[idx_tbl_entry[x]] /\ ~dead'[idx_tbl_entry[x]]
               /\ rule'[idx_tbl_entry[x]] = rule[idx_tbl_entry[x]]
               /\ indx_tbl_entry'[idx_tbl_entry[x]] = x /\ idx_tbl_entry'[x] = idx_tbl_entry[x]
    <2>1. idx_tbl_entry[x] \in Entries /\ Alive(idx_tbl_entry[x]) /\ indx_tbl_entry[idx_tbl_entry[x]] = x
      BY <1>1, <1>7 DEF IndexLinked, IndexUsed, TypeOK
    <2> QED
      BY <1>2, <1>3, <1>7, <2>1 DEF Alive
  <1>8. ASSUME NEW x \in Entries, idx_tbl_entry'[x] # 0
        PROVE  /\ x \in UsableExpn \cup (BaseEntries \ {0})
               /\ enable'[idx_tbl_entry'[x]] /\ ~dead'[idx_tbl_entry'[x]]
               /\ indx_tbl_entry'[idx_tbl_entry'[x]] = x
               /\ x \in BaseEntries => x = src_hash(rule'[idx_tbl_entry'[x]])
               /\ x \in ExpnEntries =>
                   /\ idx_tbl_entry'[idx_prev_index'[x]] # 0 /\ idx_next_index'[idx_prev_index'[x]] = x
                   /\ src_hash(rule'[idx_tbl_entry'[idx_prev_index'[x]]]) = src_hash(rule'[idx_tbl_entry'[x]])
               /\ idx_next_index'[x] # 0 =>
                   /\ idx_next_index'[x] \in ExpnEntries
                   /\ idx_tbl_entry'[idx_next_index'[x]] # 0 /\ idx_prev_index'[idx_next_index'[x]] = x
    <2>1. CASE x = w
      <3>1. CASE p = 0
        BY <1>2, <1>3, <1>4, <1>6, <2>1, <3>1, EntryFacts DEF Usable
      <3>2. CASE p # 0
        <4>1. rule'[idx_tbl_entry[p]] = rule[idx_tbl_entry[p]] /\ idx_tbl_entry'[p] = idx_tbl_entry[p]
          BY <1>3, <1>4, <1>7, <3>2
        <4> QED
          BY <1>2, <1>3, <1>4, <2>1, <3>2, <4>1, EntryFacts DEF Usable
      <3> QED
        BY <3>1, <3>2
    <2>2. CASE x # w
      <3>1. idx_tbl_entry[x] # 0 /\ idx_tbl_entry'[x] = idx_tbl_entry[x] /\ idx_prev_index'[x] = idx_prev_index[x]
        BY <1>3, <1>8, <2>2
      <3>2. /\ enable'[idx_tbl_entry'[x]] /\ ~dead'[idx_tbl_entry'[x]]
            /\ rule'[idx_tbl_entry'[x]] = rule[idx_tbl_entry[x]]
            /\ indx_tbl_entry'[idx_tbl_entry'[x]] = x
        BY <1>7, <3>1
      <3>3. /\ x \in UsableExpn \cup (BaseEntries \ {0})
            /\ x \in BaseEntries => x = src_hash(rule[idx_tbl_entry[x]])
            /\ x \in ExpnEntries =>
                /\ idx_tbl_entry[idx_prev_index[x]] # 0 /\ idx_next_index[idx_prev_index[x]] = x
                /\ src_hash(rule[idx_tbl_entry[idx_prev_index[x]]]) = src_hash(rule[idx_tbl_entry[x]])
            /\ idx_next_index[x] # 0 =>
                /\ idx_next_index[x] \in ExpnEntries
                /\ idx_tbl_entry[idx_next_index[x]] # 0 /\ idx_prev_index[idx_next_index[x]] = x
        BY <1>1, <3>1 DEF IndexLinked, IndexUsed
      <3>4. x \in ExpnEntries =>
              /\ idx_tbl_entry'[idx_prev_index'[x]] # 0 /\ idx_next_index'[idx_prev_index'[x]] = x
              /\ src_hash(rule'[idx_tbl_entry'[idx_prev_index'[x]]]) = src_hash(rule'[idx_tbl_entry'[x]])
        <4> SUFFICES ASSUME x \in ExpnEntries
                     PROVE  /\ idx_tbl_entry'[idx_prev_index'[x]] # 0 /\ idx_next_index'[idx_prev_index'[x]] = x
                            /\ src_hash(rule'[idx_tbl_entry'[idx_prev_index'[x]]]) = src_hash(rule'[idx_tbl_entry'[x]])
          OBVIOUS
        <4> DEFINE y == idx_prev_index[x]
        <4>1. y \in Entries /\ idx_tbl_entry[y] # 0 /\ idx_next_index[y] = x /\ x # 0 /\ y # w
          BY <1>1, <1>3, <3>3, EntryFacts DEF TypeOK
        <4>2. p # 0 => y # p
          BY <1>4, <4>1
        <4>3. idx_next_index'[y] = x /\ idx_tbl_entry'[y] = idx_tbl_entry[y]
              /\ rule'[idx_tbl_entry[y]] = rule[idx_tbl_entry[y]]
          BY <1>3, <1>7, <4>1, <4>2
        <4> QED
          BY <3>1, <3>2, <3>3, <4>1, <4>3
      <3>5. idx_next_index'[x] # 0 =>
              /\ idx_next_index'[x] \in ExpnEntries
              /\ idx_tbl_entry'[idx_next_index'[x]] # 0 /\ idx_prev_index'[idx_next_index'[x]] = x
        <4>1. CASE x = p /\ p # 0
          BY <1>2, <1>3, <1>4, <4>1, EntryFacts
        <4>2. CASE x # p \/ p = 0
          BY <1>3, <1>5, <2>2, <3>3, <4>2
        <4> QED
          BY <4>1, <4>2
      <3> QED
        BY <3>1, <3>2, <3>3, <3>4, <3>5
    <2> QED
      BY <2>1, <2>2
  <1>9. ASSUME NEW x \in Entries, idx_tbl_entry'[x] = 0 PROVE idx_next_index'[x] = 0
    <2>1. x # w /\ idx_tbl_entry[x] = 0 /\ (x # p \/ p = 0)
      BY <1>2, <1>3, <1>4, <1>9
    <2> QED
      BY <1>1, <1>3, <2>1 DEF IndexLinked, IndexUsed
  <1>10. ASSUME NEW x \in Entries, enable'[x], ~dead'[x] PROVE idx_tbl_entry'[indx_tbl_entry'[x]] = x
    <2>1. CASE x = e
      BY <1>2, <1>3, <2>1
    <2>2. CASE x # e
      <3>1. Alive(x) /\ indx_tbl_entry'[x] = indx_tbl_entry[x] /\ x # 0 /\ indx_tbl_entry[x] \in Entries
        BY <1>1, <1>2, <1>10, <2>2, EntryFacts DEF Alive, RulesHeld, TypeOK
      <3>2. idx_tbl_entry[indx_tbl_entry[x]] = x
        BY <1>1, <3>1 DEF IndexLinked
      <3> QED
        BY <1>3, <3>1, <3>2
    <2> QED
      BY <2>1, <2>2
  <1>11. IndexLinked'
    BY <1>8, <1>9, <1>10 DEF IndexLinked, IndexUsed, Alive
  <1>12. Acyclic(idx_next_index)'
    <2>1. PICK rank \in [Entries -> Nat] :
            \A x \in Entries : idx_next_index[x] # 0 => rank[x] < rank[idx_next_index[x]]
      BY <1>1 DEF Acyclic
    <2> DEFINE new == [rank EXCEPT ![w] = rank[p] + 1]
    <2>2. new \in [Entries -> Nat] /\ new[w] = rank[p] + 1 /\ \A x \in Entries : x # w => new[x] = rank[x]
      BY <1>3, <2>1
    <2>3. ASSUME NEW x \in Entries, idx_next_index'[x] # 0 PROVE new[x] < new[idx_next_index'[x]]
      <3>1. CASE x = p /\ p # 0
        <4>1. idx_next_index'[x] = w /\ new[x] = rank[p] /\ rank[p] \in Nat
          BY <1>3, <2>1, <2>2, <3>1
        <4> QED
          BY <2>2, <4>1
      <3>2. CASE x # p \/ p = 0
        <4>1. x # w /\ idx_next_index'[x] = idx_next_index[x]
          BY <1>3, <2>3, <3>2
        <4>2. idx_next_index[x] # w /\ idx_next_index[x] \in Entries /\ rank[x] < rank[idx_next_index[x]]
          BY <1>5, <2>1, <2>3, <4>1
        <4> QED
          BY <2>2, <4>1, <4>2
      <3> QED
        BY <3>1, <3>2
    <2> QED
      BY <2>2, <2>3 DEF Acyclic
  <1> QED
    BY <1>11, <1>12

\* The new rule gets a handle that parse_ipv4_rule_hdl accepts.
LEMMA WriteLinked ==
    ASSUME HandlesInv, LinkedInv, AddWrite({})
    PROVE  LinkedInv'
  <1>1. TypeOK /\ HandlesSound /\ CallSound /\ RulesHeld /\ EveryRuleHasHandle /\ {} \in SUBSET AddCommands
    BY DEF HandlesInv, LinkedInv
  <1>2. CallLinked'
    BY DEF CallLinked, AddWrite, Return
  <1>3. EveryRuleHasHandle'
    <2>1. PICK h \in Handles : h < table_entries + expn_table_entries /\ rule_id_array[h] = 0
      BY <1>1, FreeHandle, WriteForms
    <2>2. make_rule_hdl \in Handles /\ make_rule_hdl <= h
      BY <1>1, <2>1, HandleFacts
    <2>3. make_rule_hdl < table_entries + expn_table_entries
      BY <2>1, <2>2, EntryFacts DEF Handles
    <2>4. \A g \in Handles :
                \/ g = make_rule_hdl /\ rule_id_array[g] = 0 /\ rule_id_array'[g] = new_entry
                \/ g # make_rule_hdl /\ rule_id_array'[g] = rule_id_array[g]
      BY <1>1, WriteHandles
    <2>5. \A x \in Entries : enable'[x] /\ ~dead'[x] => x = new_entry \/ Alive(x)
      BY WriteForms DEF Alive
    <2> SUFFICES ASSUME NEW x \in Entries, enable'[x], ~dead'[x]
                 PROVE  \E g \in Handles : /\ rule_id_array'[g] = x
                                           /\ g < table_entries + expn_table_entries /\ rule_id_array'[g] # 0
      BY DEF EveryRuleHasHandle, Alive, Parses
    <2>6. CASE x = new_entry
      BY <2>2, <2>3, <2>4, <2>6, WriteForms
    <2>7. CASE Alive(x)
      <3>1. PICK g \in Handles : rule_id_array[g] = x /\ Parses(g)
        BY <1>1, <2>7 DEF EveryRuleHasHandle
      <3>2. rule_id_array'[g] = x
        BY <2>4, <3>1 DEF Parses
      <3> QED
        BY <3>1, <3>2 DEF Parses
    <2> QED
      BY <2>5, <2>6, <2>7
  <1> QED
    BY <1>2, <1>3, WriteChains, WriteIndex DEF LinkedInv

----------------------------------------------------------------------------
(* The linked tables: a deletion *)

\* The neighbours of an entry in a chain without circles.
LEMMA Neighbours ==
    ASSUME NEW nxt \in [Entries -> Entries], Acyclic(nxt)
    PROVE  /\ \A x \in Entries : nxt[x] # 0 => nxt[x] # x
           /\ \A x \in Entries : nxt[x] # 0 /\ nxt[nxt[x]] # 0 => nxt[nxt[x]] # x
  <1>1. PICK rank \in [Entries -> Nat] : \A x \in Entries : nxt[x] # 0 => rank[x] < rank[nxt[x]]
    BY DEF Acyclic
  <1>2. ASSUME NEW x \in Entries, nxt[x] # 0 PROVE nxt[x] # x
    <2>1. rank[x] < rank[nxt[x]] /\ rank[x] \in Nat
      BY <1>1, <1>2
    <2> QED
      BY <2>1
  <1>3. ASSUME NEW x \in Entries, nxt[x] # 0, nxt[nxt[x]] # 0 PROVE nxt[nxt[x]] # x
    <2> DEFINE y == nxt[x]
    <2>1. y \in Entries /\ rank[x] < rank[y] /\ rank[y] < rank[nxt[y]] /\ rank[x] \in Nat /\ rank[y] \in Nat
      BY <1>1, <1>3
    <2> QED
      BY <2>1
  <1> QED
    BY <1>2, <1>3

\* A link that passes over an entry makes no circle.
LEMMA AcyclicShortcut ==
    ASSUME NEW nxt \in [Entries -> Entries], Acyclic(nxt), NEW new \in [Entries -> Entries],
           \A x \in Entries : \/ new[x] \in {0, nxt[x]}
                              \/ nxt[x] # 0 /\ new[x] = nxt[nxt[x]]
    PROVE  Acyclic(new)
  <1>1. PICK rank \in [Entries -> Nat] : \A x \in Entries : nxt[x] # 0 => rank[x] < rank[nxt[x]]
    BY DEF Acyclic
  <1>2. ASSUME NEW x \in Entries, new[x] # 0 PROVE rank[x] < rank[new[x]]
    <2>1. CASE new[x] = nxt[x]
      BY <1>1, <1>2, <2>1
    <2>2. CASE nxt[x] # 0 /\ new[x] = nxt[nxt[x]]
      <3> DEFINE y == nxt[x]
      <3>1. y \in Entries /\ y # 0 /\ nxt[y] # 0 /\ nxt[y] \in Entries
        BY <1>2, <2>2
      <3>2. rank[x] < rank[y] /\ rank[y] < rank[nxt[y]]
        BY <1>1, <2>2, <3>1
      <3>3. rank[x] \in Nat /\ rank[y] \in Nat /\ rank[nxt[y]] \in Nat
        BY <1>1, <3>1
      <3> HIDE DEF y
      <3>4. rank[x] < rank[nxt[y]]
        BY <3>2, <3>3
      <3> QED
        BY <2>2, <3>4 DEF y
    <2> QED
      BY <1>2, <2>1, <2>2
  <1> QED
    BY <1>2 DEF Acyclic

\* Where entry e, at position pos, is in its chain.
Placed(e, pos) ==
    /\ e # 0
    /\ pos \in {"head", "only one"} => e \in BaseEntries
    /\ pos \in {"middle", "last"} =>
         /\ e \in ExpnEntries /\ enable[prev_index[e]] /\ next_index[prev_index[e]] = e
         /\ prev_index[e] \in Entries /\ prev_index[e] # e /\ prev_index[e] # next_index[e]
    /\ pos \in {"head", "only one", "middle", "last"}
    /\ pos \in {"head", "middle"} => next_index[e] # 0
    /\ pos \in {"only one", "last"} => next_index[e] = 0

\* What deleting it writes when the chains are linked: the entries of freed are
\* emptied, which are e and the dead head that loses the last entry of its chain.
Unlinked(e, pos, freed) ==
    /\ \A x \in Entries : x \in freed <=>
         (x = e /\ pos # "head") \/ (pos = "last" /\ x = prev_index[e] /\ dead[x])
    /\ \A x \in freed : ~enable'[x] /\ ~dead'[x] /\ next_index'[x] = 0
    /\ \A x \in Entries : x \notin freed =>
         /\ enable'[x] <=> enable[x]
         /\ rule'[x] = rule[x]
         /\ dead'[x] <=> (dead[x] \/ (x = e /\ pos = "head"))
         /\ next_index'[x] = IF pos \in {"middle", "last"} /\ x = prev_index[e]
                             THEN next_index[e] ELSE next_index[x]
         /\ prev_index'[x] = IF pos = "middle" /\ x = next_index[e]
                             THEN prev_index[e] ELSE prev_index[x]

\* What DelRule does to chains that are linked.
LEMMA DelRuleForms ==
    ASSUME TypeOK, ChainsLinked, Acyclic(next_index), NEW e \in Entries, enable[e], DelRule(e)
    PROVE  \E pos : Placed(e, pos) /\ \E freed \in SUBSET Entries : Unlinked(e, pos, freed)
  <1>pos. PICK pos : pos = Position(e, next_index)
    OBVIOUS
  <1> DEFINE linked == [x \in Entries |->
                 IF pos \in {"middle", "last"} /\ x = prev_index[e]
                 THEN (IF pos = "middle" THEN next_index[e] ELSE 0)
                 ELSE next_index[x]]
             extra == {x \in BaseEntries : dead[x] /\ linked[x] = 0}
             freed == (IF pos = "head" THEN {} ELSE {e}) \cup extra
  <1>1. /\ pos \in {"head", "only one"} => e \in BaseEntries
        /\ pos \in {"middle", "last"} => e \in ExpnEntries
        /\ pos \in {"head", "only one", "middle", "last"}
        /\ pos \in {"head", "middle"} => next_index[e] # 0
        /\ pos \in {"only one", "last"} => next_index[e] = 0
    BY <1>pos, EntryFacts DEF Position
  <1>2. e # 0
    BY EntryFacts DEF ChainsLinked, InUse, Usable
  <1>3. pos \in {"middle", "last"} =>
          /\ enable[prev_index[e]] /\ next_index[prev_index[e]] = e /\ prev_index[e] \in Entries
          /\ prev_index[e] # e /\ prev_index[e] # next_index[e]
    <2> SUFFICES ASSUME pos \in {"middle", "last"}
                 PROVE  /\ enable[prev_index[e]] /\ next_index[prev_index[e]] = e /\ prev_index[e] \in Entries
                        /\ prev_index[e] # e /\ prev_index[e] # next_index[e]
      OBVIOUS
    <2>1. enable[prev_index[e]] /\ next_index[prev_index[e]] = e /\ prev_index[e] \in Entries
      BY <1>1 DEF ChainsLinked, InUse, TypeOK
    <2>2. prev_index[e] # 0
      BY <2>1, EntryFacts DEF ChainsLinked, InUse, Usable
    <2> QED
      BY <1>2, <2>1, <2>2, Neighbours DEF TypeOK
  <1>4. \A x \in Entries : dead[x] => enable[x] /\ x \in BaseEntries /\ next_index[x] # 0
    BY DEF ChainsLinked, InUse
  <1>5. \A x \in Entries : x \in extra <=> (pos = "last" /\ x = prev_index[e] /\ dead[x])
    <2>1. \A x \in Entries : linked[x] = IF pos \in {"middle", "last"} /\ x = prev_index[e]
                                         THEN next_index[e] ELSE next_index[x]
      BY <1>1
    <2>2. \A x \in Entries : x \in extra <=> x \in BaseEntries /\ dead[x] /\ linked[x] = 0
      OBVIOUS
    <2> HIDE DEF linked, extra
    <2> QED
      BY <1>1, <1>3, <1>4, <2>1, <2>2
  <1>6. extra \subseteq Entries
    BY EntryFacts
  <1>7. /\ enable' = [x \in Entries |-> x \notin freed /\ enable[x]]
        /\ rule' = [x \in Entries |-> IF x \in freed THEN NoRule ELSE rule[x]]
        /\ dead' = [x \in Entries |-> x \notin freed /\ (dead[x] \/ (x = e /\ pos = "head"))]
        /\ next_index' = [x \in Entries |-> IF x \in freed THEN 0 ELSE linked[x]]
        /\ prev_index' = [x \in Entries |->
                IF x \in freed THEN 0
                ELSE IF pos = "middle" /\ x = next_index[e] THEN prev_index[e]
                ELSE prev_index[x]]
    BY <1>pos DEF DelRule
  <1>8. \A x \in Entries : linked[x] = IF pos \in {"middle", "last"} /\ x = prev_index[e]
                                       THEN next_index[e] ELSE next_index[x]
    BY <1>1
  <1> HIDE DEF linked, extra
  <1>9. freed \in SUBSET Entries
    BY <1>6
  <1>10. \A x \in Entries : x \in freed <=>
           (x = e /\ pos # "head") \/ (pos = "last" /\ x = prev_index[e] /\ dead[x])
    BY <1>5
  <1> HIDE DEF freed
  <1>11. \A x \in freed : ~enable'[x] /\ ~dead'[x] /\ next_index'[x] = 0
    BY <1>7, <1>9
  <1>12. \A x \in Entries : x \notin freed =>
           /\ enable'[x] <=> enable[x]
           /\ rule'[x] = rule[x]
           /\ dead'[x] <=> (dead[x] \/ (x = e /\ pos = "head"))
           /\ next_index'[x] = IF pos \in {"middle", "last"} /\ x = prev_index[e]
                               THEN next_index[e] ELSE next_index[x]
           /\ prev_index'[x] = IF pos = "middle" /\ x = next_index[e]
                               THEN prev_index[e] ELSE prev_index[x]
    BY <1>7, <1>8
  <1>13. Unlinked(e, pos, freed)
    BY <1>10, <1>11, <1>12 DEF Unlinked
  <1>14. Placed(e, pos)
    BY <1>1, <1>2, <1>3 DEF Placed
  <1> QED
    BY <1>9, <1>13, <1>14

\* The chains stay linked.
LEMMA DelRuleChains ==
    ASSUME TypeOK, TypeOK', ChainsLinked, Acyclic(next_index), NEW e \in Entries, enable[e], DelRule(e)
    PROVE  ChainsLinked' /\ Acyclic(next_index)'
  <1>pos. PICK pos : Placed(e, pos) /\ \E freed \in SUBSET Entries : Unlinked(e, pos, freed)
    BY DelRuleForms
  <1>un. PICK freed \in SUBSET Entries : Unlinked(e, pos, freed)
    BY <1>pos
  <1> DEFINE p == prev_index[e]
             n == next_index[e]
  <1>1. /\ e # 0
        /\ pos \in {"head", "only one"} => e \in BaseEntries
        /\ pos \in {"middle", "last"} =>
             e \in ExpnEntries /\ enable[p] /\ next_index[p] = e /\ p \in Entries /\ p # e /\ p # n
        /\ pos \in {"head", "only one", "middle", "last"}
        /\ pos \in {"head", "middle"} => n # 0
        /\ pos \in {"only one", "last"} => n = 0
    BY <1>pos DEF Placed
  <1>2. /\ \A x \in Entries : x \in freed <=>
             (x = e /\ pos # "head") \/ (pos = "last" /\ x = p /\ dead[x])
        /\ \A x \in freed : ~enable'[x] /\ ~dead'[x] /\ next_index'[x] = 0
        /\ \A x \in Entries : x \notin freed =>
             /\ enable'[x] <=> enable[x]
             /\ rule'[x] = rule[x]
             /\ dead'[x] <=> (dead[x] \/ (x = e /\ pos = "head"))
             /\ next_index'[x] = IF pos \in {"middle", "last"} /\ x = p THEN n ELSE next_index[x]
             /\ prev_index'[x] = IF pos = "middle" /\ x = n THEN p ELSE prev_index[x]
    BY <1>un DEF Unlinked
  <1>3. n \in Entries /\ n # e /\ (n # 0 => n \in ExpnEntries /\ enable[n] /\ prev_index[n] = e)
    BY <1>1, Neighbours DEF TypeOK, ChainsLinked, InUse
  <1> HIDE DEF p, n
  <1>4. \A x \in Entries : enable[x] =>
        /\ x \in UsableExpn \cup (BaseEntries \ {0})
        /\ rule[x] \in Rules
        /\ x \in BaseEntries => prev_index[x] = 0 /\ x = dst_hash(rule[x])
        /\ x \in ExpnEntries =>
            /\ enable[prev_index[x]] /\ next_index[prev_index[x]] = x
            /\ dst_hash(rule[prev_index[x]]) = dst_hash(rule[x])
        /\ next_index[x] # 0 =>
            /\ next_index[x] \in ExpnEntries
            /\ enable[next_index[x]] /\ prev_index[next_index[x]] = x
        /\ dead[x] => x \in BaseEntries /\ next_index[x] # 0
    BY DEF ChainsLinked, InUse
  <1>5. \A x \in Entries : ~enable[x] => next_index[x] = 0 /\ ~dead[x]
    BY DEF ChainsLinked, InUse
  <1>6. \A x \in Entries : prev_index[x] \in Entries /\ next_index[x] \in Entries
    BY DEF TypeOK
  <1>7. ASSUME NEW x \in Entries, enable'[x]
        PROVE  /\ x \in UsableExpn \cup (BaseEntries \ {0})
               /\ rule'[x] \in Rules
               /\ x \in BaseEntries => prev_index'[x] = 0 /\ x = dst_hash(rule'[x])
               /\ x \in ExpnEntries =>
                   /\ enable'[prev_index'[x]] /\ next_index'[prev_index'[x]] = x
                   /\ dst_hash(rule'[prev_index'[x]]) = dst_hash(rule'[x])
               /\ next_index'[x] # 0 =>
                   /\ next_index'[x] \in ExpnEntries
                   /\ enable'[next_index'[x]] /\ prev_index'[next_index'[x]] = x
               /\ dead'[x] => x \in BaseEntries /\ next_index'[x] # 0
    <2>1. x \notin freed /\ enable[x] /\ rule'[x] = rule[x]
      BY <1>2, <1>7
    <2>2. x \in UsableExpn \cup (BaseEntries \ {0}) /\ rule'[x] \in Rules
      BY <1>4, <2>1
    <2>3. x \in BaseEntries => prev_index'[x] = 0 /\ x = dst_hash(rule'[x])
      <3> SUFFICES ASSUME x \in BaseEntries PROVE prev_index'[x] = 0 /\ x = dst_hash(rule'[x])
        OBVIOUS
      <3>1. ~(pos = "middle" /\ x = n)
        BY <1>1, <1>3, EntryFacts
      <3>2. prev_index'[x] = prev_index[x]
        BY <1>2, <2>1, <3>1
      <3> QED
        BY <1>4, <2>1, <3>2
    <2>4. ASSUME x \in ExpnEntries
          PROVE  /\ enable'[prev_index'[x]] /\ next_index'[prev_index'[x]] = x
                 /\ dst_hash(rule'[prev_index'[x]]) = dst_hash(rule'[x])
      <3>1. CASE pos = "middle" /\ x = n
        <4>1. prev_index'[x] = p /\ p \in Entries /\ p \notin freed /\ next_index'[p] = n /\ enable'[p] /\ rule'[p] = rule[p]
          BY <1>1, <1>2, <2>1, <3>1
        <4>2. dst_hash(rule[p]) = dst_hash(rule[e]) /\ dst_hash(rule[e]) = dst_hash(rule[x])
          BY <1>1, <1>3, <1>4, <2>1, <2>4, <3>1 DEF p
        <4> QED
          BY <2>1, <3>1, <4>1, <4>2
      <3>2. CASE ~(pos = "middle" /\ x = n)
        <4> DEFINE y == prev_index[x]
        <4>1. prev_index'[x] = y /\ y \in Entries /\ enable[y] /\ next_index[y] = x /\ x # 0
              /\ dst_hash(rule[y]) = dst_hash(rule[x])
          BY <1>2, <1>4, <1>6, <2>1, <2>4, <3>2, EntryFacts
        <4>2. y = e => pos = "head"
          BY <1>1, <3>2, <4>1 DEF n
        <4>3. pos \in {"middle", "last"} => y # p
          BY <1>1, <1>2, <2>1, <4>1
        <4>4. y \notin freed
          BY <1>2, <4>1, <4>2, <4>3
        <4>5. enable'[y] /\ next_index'[y] = x /\ rule'[y] = rule[y]
          BY <1>2, <4>1, <4>3, <4>4
        <4> QED
          BY <2>1, <4>1, <4>5
      <3> QED
        BY <3>1, <3>2
    <2>5. ASSUME next_index'[x] # 0
          PROVE  /\ next_index'[x] \in ExpnEntries
                 /\ enable'[next_index'[x]] /\ prev_index'[next_index'[x]] = x
      <3>1. CASE pos \in {"middle", "last"} /\ x = p
        <4>1. next_index'[x] = n /\ n # 0 /\ pos = "middle"
          BY <1>1, <1>2, <2>1, <2>5, <3>1
        <4>2. n \notin freed
          BY <1>2, <1>3, <4>1
        <4> QED
          BY <1>2, <1>3, <3>1, <4>1, <4>2
      <3>2. CASE ~(pos \in {"middle", "last"} /\ x = p)
        <4> DEFINE m == next_index[x]
        <4>1. next_index'[x] = m /\ m # 0 /\ m \in ExpnEntries /\ m \in Entries /\ enable[m] /\ prev_index[m] = x
          BY <1>2, <1>4, <1>6, <2>1, <2>5, <3>2
        <4>2. m # e
          BY <1>1, <3>2, <4>1, EntryFacts DEF p
        <4>3. ~(pos = "last" /\ m = p /\ dead[m])
          BY <1>4, <4>1, EntryFacts
        <4>4. m \notin freed
          BY <1>2, <4>1, <4>2, <4>3
        <4>5. ~(pos = "middle" /\ m = n)
          <5>1. x = e => ~(pos = "middle")
            BY <1>2, <2>1
          <5>2. n # 0 => prev_index[n] = e
            BY <1>3
          <5> QED
            BY <4>1, <5>1, <5>2
        <4> QED
          BY <1>2, <4>1, <4>4, <4>5
      <3> QED
        BY <3>1, <3>2
    <2>6. dead'[x] => x \in BaseEntries /\ next_index'[x] # 0
      <3> SUFFICES ASSUME dead'[x] PROVE x \in BaseEntries /\ next_index'[x] # 0
        OBVIOUS
      <3>1. CASE x = e /\ pos = "head"
        <4>1. next_index'[x] = next_index[x]
          BY <1>2, <2>1, <3>1
        <4> QED
          BY <1>1, <3>1, <4>1 DEF n
      <3>2. CASE dead[x]
        <4>1. x \in BaseEntries /\ next_index[x] # 0
          BY <1>4, <2>1, <3>2
        <4>2. pos = "last" => x # p
          BY <1>2, <2>1, <3>2
        <4>3. next_index'[x] = next_index[x] \/ (pos = "middle" /\ next_index'[x] = n)
          BY <1>2, <2>1, <4>2
        <4> QED
          BY <1>1, <4>1, <4>3
      <3> QED
        BY <1>2, <2>1, <3>1, <3>2
    <2> QED
      BY <2>2, <2>3, <2>4, <2>5, <2>6
  <1>8. ASSUME NEW x \in Entries, ~enable'[x] PROVE next_index'[x] = 0 /\ ~dead'[x]
    <2>1. CASE x \in freed
      BY <1>2, <2>1
    <2>2. CASE x \notin freed
      <3>1. ~enable[x] /\ next_index[x] = 0 /\ ~dead[x]
        BY <1>2, <1>5, <1>8, <2>2
      <3> QED
        BY <1>1, <1>2, <2>2, <3>1
    <2> QED
      BY <2>1, <2>2
  <1>9. ChainsLinked'
    BY <1>7, <1>8 DEF ChainsLinked, InUse
  <1>10. Acyclic(next_index)'
    <2>1. next_index \in [Entries -> Entries] /\ next_index' \in [Entries -> Entries]
      BY DEF TypeOK
    <2>2. \A x \in Entries : \/ next_index'[x] \in {0, next_index[x]}
                             \/ next_index[x] # 0 /\ next_index'[x] = next_index[next_index[x]]
      <3> TAKE x \in Entries
      <3>1. CASE x \in freed
        BY <1>2, <3>1
      <3>2. CASE x \notin freed /\ pos \in {"middle", "last"} /\ x = p
        <4>1. next_index'[x] = n /\ next_index[x] = e /\ e # 0
          BY <1>1, <1>2, <3>2
        <4> QED
          BY <4>1 DEF n
      <3>3. CASE x \notin freed /\ ~(pos \in {"middle", "last"} /\ x = p)
        <4>1. next_index'[x] = next_index[x]
          BY <1>2, <3>3
        <4> QED
          BY <4>1
      <3> QED
        BY <3>1, <3>2, <3>3
    <2>3. Acyclic(next_index')
      BY <2>1, <2>2, AcyclicShortcut
    <2> QED
      BY <2>3 DEF Acyclic
  <1> QED
    BY <1>9, <1>10

\* What deleting the rule of entry e writes into the index when its index entry i
\* heads a chain: i takes over the values of its successor n, which is emptied.
HeadTaken(e, i, n, m) ==
    /\ i = indx_tbl_entry[e] /\ n = idx_next_index[i] /\ m = idx_next_index[n]
    /\ i \in BaseEntries /\ n # 0
    /\ \A x \in Entries :
         /\ idx_tbl_entry'[x] = IF x = n THEN 0 ELSE IF x = i THEN idx_tbl_entry[n] ELSE idx_tbl_entry[x]
         /\ idx_next_index'[x] = IF x = n THEN 0 ELSE IF x = i THEN m ELSE idx_next_index[x]
         /\ idx_prev_index'[x] = IF x = m /\ x \in ExpnEntries THEN i ELSE idx_prev_index[x]
         /\ Alive(x) /\ x # e =>
              indx_tbl_entry'[x] = IF x = idx_tbl_entry[n] THEN i ELSE indx_tbl_entry[x]

\* Otherwise i is emptied, and its neighbours p and n are linked to each other.
EntryDropped(e, i, n, p) ==
    /\ i = indx_tbl_entry[e] /\ n = idx_next_index[i] /\ p = idx_prev_index[i]
    /\ i \in BaseEntries => n = 0
    /\ \A x \in Entries :
         /\ idx_tbl_entry'[x] = IF x = i THEN 0 ELSE idx_tbl_entry[x]
         /\ idx_next_index'[x] = IF x = i THEN 0 ELSE IF i \in ExpnEntries /\ x = p THEN n ELSE idx_next_index[x]
         /\ x # i => idx_prev_index'[x] = IF i \in ExpnEntries /\ n # 0 /\ x = n THEN p ELSE idx_prev_index[x]
         /\ Alive(x) /\ x # e => indx_tbl_entry'[x] = indx_tbl_entry[x]

\* DelIndex does one or the other.
LEMMA DelIndexForms ==
    ASSUME TypeOK, NEW e \in Entries, DelRule(e), DelIndex(e)
    PROVE  \/ \E i, n, m \in Entries : HeadTaken(e, i, n, m)
           \/ \E i, n, p \in Entries : EntryDropped(e, i, n, p)
  <1>i. PICK i \in Entries : i = indx_tbl_entry[e]
    BY DEF TypeOK
  <1>n. PICK n \in Entries : n = idx_next_index[i]
    BY DEF TypeOK
  <1>m. PICK m \in Entries : m = idx_next_index[n]
    BY DEF TypeOK
  <1>p. PICK p \in Entries : p = idx_prev_index[i]
    BY DEF TypeOK
  <1>pos. PICK pos : pos = Position(i, idx_next_index)
    OBVIOUS
  <1> DEFINE gone == IF pos = "head" THEN n ELSE i
  <1>1. /\ pos = "head" <=> (i \in BaseEntries /\ n # 0)
        /\ pos \in {"middle", "last"} <=> i \in ExpnEntries
        /\ pos = "middle" <=> (i \in ExpnEntries /\ n # 0)
        /\ i \in BaseEntries \/ i \in ExpnEntries
    BY <1>n, <1>pos, EntryFacts DEF Position
  <1>2. /\ idx_tbl_entry' = [x \in Entries |->
                IF x = gone THEN 0
                ELSE IF pos = "head" /\ x = i THEN idx_tbl_entry[n]
                ELSE idx_tbl_entry[x]]
        /\ idx_next_index' = [x \in Entries |->
                IF x = gone THEN 0
                ELSE IF pos = "head" /\ x = i THEN m
                ELSE IF pos \in {"middle", "last"} /\ x = p THEN n
                ELSE idx_next_index[x]]
        /\ idx_prev_index' = [x \in Entries |->
                IF pos = "head" /\ x = m /\ x \in ExpnEntries THEN i
                ELSE IF pos = "middle" /\ x = n THEN p
                ELSE IF pos = "middle" /\ x = i THEN 0
                ELSE idx_prev_index[x]]
        /\ indx_tbl_entry' = [x \in Entries |->
                IF dead[x] /\ ~enable'[x] THEN 0
                ELSE IF pos = "head" /\ x = idx_tbl_entry[n] THEN i
                ELSE IF enable[x] /\ ~enable'[x] THEN 0 ELSE indx_tbl_entry[x]]
    BY <1>i, <1>n, <1>m, <1>p, <1>pos DEF DelIndex
  <1> HIDE DEF gone
  <1>3. \A x \in Entries : Alive(x) /\ x # e => ~dead[x] /\ enable'[x]
    BY DelRuleOthers DEF Alive
  <1>4. \A x \in Entries : Alive(x) /\ x # e =>
          indx_tbl_entry'[x] = IF pos = "head" /\ x = idx_tbl_entry[n] THEN i ELSE indx_tbl_entry[x]
    BY <1>2, <1>3
  <1>5. CASE pos = "head"
    <2>1. gone = n /\ i \in BaseEntries /\ n # 0 /\ pos \notin {"middle", "last"} /\ pos # "middle"
      BY <1>1, <1>5 DEF gone
    <2>2. \A x \in Entries :
         /\ idx_tbl_entry'[x] = IF x = n THEN 0 ELSE IF x = i THEN idx_tbl_entry[n] ELSE idx_tbl_entry[x]
         /\ idx_next_index'[x] = IF x = n THEN 0 ELSE IF x = i THEN m ELSE idx_next_index[x]
         /\ idx_prev_index'[x] = IF x = m /\ x \in ExpnEntries THEN i ELSE idx_prev_index[x]
      BY <1>2, <1>5, <2>1
    <2>3. HeadTaken(e, i, n, m)
      BY <1>i, <1>n, <1>m, <1>4, <1>5, <2>1, <2>2 DEF HeadTaken
    <2> QED
      BY <2>3
  <1>6. CASE pos # "head"
    <2>1. gone = i /\ (i \in BaseEntries => n = 0)
      BY <1>1, <1>6 DEF gone
    <2>2. \A x \in Entries :
         /\ idx_tbl_entry'[x] = IF x = i THEN 0 ELSE idx_tbl_entry[x]
         /\ idx_next_index'[x] = IF x = i THEN 0 ELSE IF pos \in {"middle", "last"} /\ x = p THEN n ELSE idx_next_index[x]
         /\ x # i => idx_prev_index'[x] = IF pos = "middle" /\ x = n THEN p ELSE idx_prev_index[x]
      BY <1>2, <1>6, <2>1
    <2>3. \A x \in Entries :
         /\ idx_next_index'[x] = IF x = i THEN 0 ELSE IF i \in ExpnEntries /\ x = p THEN n ELSE idx_next_index[x]
         /\ x # i => idx_prev_index'[x] = IF i \in ExpnEntries /\ n # 0 /\ x = n THEN p ELSE idx_prev_index[x]
      BY <1>1, <2>2
    <2>4. \A x \in Entries : Alive(x) /\ x # e => indx_tbl_entry'[x] = indx_tbl_entry[x]
      BY <1>4, <1>6
    <2>5. EntryDropped(e, i, n, p)
      BY <1>i, <1>n, <1>p, <2>1, <2>2, <2>3, <2>4 DEF EntryDropped
    <2> QED
      BY <2>5
  <1> QED
    BY <1>5, <1>6

\* IndexLinked as a statement about four tables, the entries that are live and
\* the source slot of each entry's rule.
IndexWhole(T, N, P, I, Live, src) ==
    /\ \A x \in Entries : T[x] # 0 =>
        /\ x \in UsableExpn \cup (BaseEntries \ {0})
        /\ T[x] \in Live /\ I[T[x]] = x
        /\ x \in BaseEntries => x = src[T[x]]
        /\ x \in ExpnEntries => T[P[x]] # 0 /\ N[P[x]] = x /\ src[T[P[x]]] = src[T[x]]
        /\ N[x] # 0 => N[x] \in ExpnEntries /\ T[N[x]] # 0 /\ P[N[x]] = x
    /\ \A x \in Entries : T[x] = 0 => N[x] = 0
    /\ \A x \in Live : T[I[x]] = x

\* The tables T2, N2, P2, I2 are what HeadTaken and EntryDropped make of T, N, P, I.
HeadMoved(T, N, P, I, T2, N2, P2, I2, Live, e, i, n, m) ==
    /\ i = I[e] /\ n = N[i] /\ m = N[n] /\ i \in BaseEntries /\ n # 0 /\ (m # 0 => m # n)
    /\ \A x \in Entries :
         /\ T2[x] = IF x = n THEN 0 ELSE IF x = i THEN T[n] ELSE T[x]
         /\ N2[x] = IF x = n THEN 0 ELSE IF x = i THEN m ELSE N[x]
         /\ P2[x] = IF x = m /\ x \in ExpnEntries THEN i ELSE P[x]
         /\ x \in Live /\ x # e => I2[x] = IF x = T[n] THEN i ELSE I[x]

EntryCut(T, N, P, I, T2, N2, P2, I2, Live, e, i, n, p) ==
    /\ i = I[e] /\ n = N[i] /\ p = P[i] /\ (i \in BaseEntries => n = 0) /\ (n # 0 => n # i)
    /\ \A x \in Entries :
         /\ T2[x] = IF x = i THEN 0 ELSE T[x]
         /\ N2[x] = IF x = i THEN 0 ELSE IF i \in ExpnEntries /\ x = p THEN n ELSE N[x]
         /\ x # i => P2[x] = IF i \in ExpnEntries /\ n # 0 /\ x = n THEN p ELSE P[x]
         /\ x \in Live /\ x # e => I2[x] = I[x]

\* An index whose head i took over its successor n is whole.
LEMMA HeadTakenWhole ==
    ASSUME NEW T \in [Entries -> Entries], NEW N \in [Entries -> Entries],
           NEW P \in [Entries -> Entries], NEW I \in [Entries -> Entries],
           NEW T2, NEW N2, NEW P2, NEW I2, NEW src, NEW Live \in SUBSET Entries, 0 \notin Live,
           IndexWhole(T, N, P, I, Live, src),
           NEW e \in Live, NEW i \in Entries, NEW n \in Entries, NEW m \in Entries,
           HeadMoved(T, N, P, I, T2, N2, P2, I2, Live, e, i, n, m)
    PROVE  IndexWhole(T2, N2, P2, I2, Live \ {e}, src)
  <1>0. /\ i = I[e] /\ n = N[i] /\ m = N[n] /\ i \in BaseEntries /\ n # 0 /\ (m # 0 => m # n)
        /\ \A x \in Entries :
             /\ T2[x] = IF x = n THEN 0 ELSE IF x = i THEN T[n] ELSE T[x]
             /\ N2[x] = IF x = n THEN 0 ELSE IF x = i THEN m ELSE N[x]
             /\ P2[x] = IF x = m /\ x \in ExpnEntries THEN i ELSE P[x]
             /\ x \in Live /\ x # e => I2[x] = IF x = T[n] THEN i ELSE I[x]
    BY DEF HeadMoved
  <1>1. /\ \A x \in Entries : T[x] # 0 =>
            /\ x \in UsableExpn \cup (BaseEntries \ {0})
            /\ T[x] \in Live /\ I[T[x]] = x
            /\ x \in BaseEntries => x = src[T[x]]
            /\ x \in ExpnEntries => T[P[x]] # 0 /\ N[P[x]] = x /\ src[T[P[x]]] = src[T[x]]
            /\ N[x] # 0 => N[x] \in ExpnEntries /\ T[N[x]] # 0 /\ P[N[x]] = x
        /\ \A x \in Entries : T[x] = 0 => N[x] = 0
        /\ \A x \in Live : T[I[x]] = x
    BY DEF IndexWhole
  <1> DEFINE f == T[n]
  <1>2. T[i] = e /\ e # 0 /\ n \in ExpnEntries /\ f # 0 /\ P[n] = i /\ f \in Live /\ I[f] = n
    BY <1>0, <1>1
  <1>3. n # i /\ f # e /\ i # 0 /\ src[e] = src[f] /\ i = src[e]
    BY <1>0, <1>1, <1>2, EntryFacts
  <1>4. m # 0 => m \in ExpnEntries /\ T[m] # 0 /\ P[m] = n /\ m # i /\ src[T[m]] = src[f]
    BY <1>0, <1>1, <1>2, EntryFacts
  <1>5. T2[n] = 0 /\ T2[i] = f /\ N2[n] = 0 /\ N2[i] = m /\ I2[f] = i
    BY <1>0, <1>2, <1>3
  <1>6. \A x \in Entries : x # n /\ x # i => T2[x] = T[x] /\ N2[x] = N[x]
    BY <1>0
  <1>7. \A x \in Entries : ~(x = m /\ x \in ExpnEntries) => P2[x] = P[x]
    BY <1>0
  <1>8. \A x \in Live : x # e /\ x # f => I2[x] = I[x]
    BY <1>0
  <1>9. m # 0 => P2[m] = i
    BY <1>0, <1>4
  <1> HIDE DEF f
  <1>10. ASSUME NEW x \in Entries, T2[x] # 0
         PROVE  /\ x \in UsableExpn \cup (BaseEntries \ {0})
                /\ T2[x] \in Live \ {e} /\ I2[T2[x]] = x
                /\ x \in BaseEntries => x = src[T2[x]]
                /\ x \in ExpnEntries => T2[P2[x]] # 0 /\ N2[P2[x]] = x /\ src[T2[P2[x]]] = src[T2[x]]
                /\ N2[x] # 0 => N2[x] \in ExpnEntries /\ T2[N2[x]] # 0 /\ P2[N2[x]] = x
    <2>1. x # n
      BY <1>0, <1>5, <1>10
    <2>2. CASE x = i
      <3>1. x \in UsableExpn \cup (BaseEntries \ {0}) /\ x \notin ExpnEntries
        BY <1>0, <1>3, <2>2, EntryFacts
      <3>2. T2[x] \in Live \ {e} /\ I2[T2[x]] = x /\ x = src[T2[x]]
        BY <1>0, <1>2, <1>3, <1>5, <2>2
      <3>3. N2[x] # 0 => N2[x] \in ExpnEntries /\ T2[N2[x]] # 0 /\ P2[N2[x]] = x
        BY <1>0, <1>4, <1>5, <1>6, <1>9, <2>2
      <3> QED
        BY <1>0, <3>1, <3>2, <3>3
    <2>3. CASE x # i
      <3>1. T2[x] = T[x] /\ N2[x] = N[x] /\ T[x] # 0
        BY <1>0, <1>6, <1>10, <2>1, <2>3
      <3>2. /\ x \in UsableExpn \cup (BaseEntries \ {0})
            /\ T[x] \in Live /\ I[T[x]] = x
            /\ x \in BaseEntries => x = src[T[x]]
            /\ x \in ExpnEntries => T[P[x]] # 0 /\ N[P[x]] = x /\ src[T[P[x]]] = src[T[x]]
            /\ N[x] # 0 => N[x] \in ExpnEntries /\ T[N[x]] # 0 /\ P[N[x]] = x
        BY <1>0, <1>1, <3>1
      <3>3. T[x] # e /\ T[x] # f
        BY <1>0, <1>2, <2>1, <2>3, <3>2
      <3>4. T2[x] \in Live \ {e} /\ I2[T2[x]] = x
        BY <1>0, <1>8, <3>1, <3>2, <3>3
      <3>5. ASSUME x \in ExpnEntries PROVE T2[P2[x]] # 0 /\ N2[P2[x]] = x /\ src[T2[P2[x]]] = src[T2[x]]
        <4>1. CASE x = m
          <5>1. m # 0
            BY <1>0, <3>5, <4>1, EntryFacts
          <5>2. P2[x] = i /\ T2[i] = f /\ N2[i] = x /\ f # 0 /\ src[f] = src[T[x]]
            BY <1>0, <1>2, <1>4, <1>5, <1>9, <4>1, <5>1
          <5> QED
            BY <1>0, <3>1, <5>2
        <4>2. CASE x # m
          <5>1. PICK y \in Entries : y = P[x] /\ P2[x] = y
            BY <1>0, <1>7, <4>2
          <5>2. T[y] # 0 /\ N[y] = x /\ src[T[y]] = src[T[x]]
            BY <1>0, <3>2, <3>5, <5>1
          <5>3. y # n /\ y # i
            BY <1>0, <2>1, <4>2, <5>2
          <5> QED
            BY <1>0, <1>6, <3>1, <5>1, <5>2, <5>3
        <4> QED
          BY <1>0, <4>1, <4>2
      <3>6. ASSUME N2[x] # 0 PROVE N2[x] \in ExpnEntries /\ T2[N2[x]] # 0 /\ P2[N2[x]] = x
        <4>1. PICK z \in Entries : z = N[x] /\ N2[x] = z
          BY <1>0, <3>1
        <4>2. z \in ExpnEntries /\ T[z] # 0 /\ P[z] = x
          BY <1>0, <3>2, <3>6, <4>1
        <4>3. z # n
          BY <1>0, <1>2, <2>3, <4>2
        <4>4. z # i
          BY <1>0, <4>2, EntryFacts
        <4>5. ~(z = m /\ m # 0)
          BY <1>0, <1>4, <2>1, <4>2
        <4>6. P2[z] = x
          BY <1>0, <1>7, <4>1, <4>2, <4>5, <3>6
        <4> QED
          BY <1>0, <1>6, <4>1, <4>2, <4>3, <4>4, <4>6
      <3> QED
        BY <1>0, <3>1, <3>2, <3>4, <3>5, <3>6
    <2> QED
      BY <1>0, <2>2, <2>3
  <1>11. ASSUME NEW x \in Entries, T2[x] = 0 PROVE N2[x] = 0
    <2>1. x # i
      BY <1>0, <1>2, <1>5, <1>11
    <2> QED
      BY <1>0, <1>1, <1>5, <1>6, <1>11, <2>1
  <1>12. ASSUME NEW x \in Live \ {e} PROVE T2[I2[x]] = x
    <2>1. CASE x = f
      BY <1>0, <1>5, <2>1
    <2>2. CASE x # f
      <3>1. PICK y \in Entries : y = I[x] /\ I2[x] = y /\ T[y] = x
        BY <1>0, <1>1, <1>8, <1>12, <2>2
      <3>2. y # n /\ y # i
        BY <1>0, <1>2, <1>12, <2>2, <3>1 DEF f
      <3> QED
        BY <1>0, <1>6, <3>1, <3>2
    <2> QED
      BY <1>0, <2>1, <2>2
  <1> QED
    BY <1>0, <1>10, <1>11, <1>12 DEF IndexWhole

\* An index that lost an entry i without a chain of its own is whole.
LEMMA EntryDroppedWhole ==
    ASSUME NEW T \in [Entries -> Entries], NEW N \in [Entries -> Entries],
           NEW P \in [Entries -> Entries], NEW I \in [Entries -> Entries],
           NEW T2, NEW N2, NEW P2, NEW I2, NEW src, NEW Live \in SUBSET Entries, 0 \notin Live,
           IndexWhole(T, N, P, I, Live, src),
           NEW e \in Live, NEW i \in Entries, NEW n \in Entries, NEW p \in Entries,
           EntryCut(T, N, P, I, T2, N2, P2, I2, Live, e, i, n, p)
    PROVE  IndexWhole(T2, N2, P2, I2, Live \ {e}, src)
  <1>0. /\ i = I[e] /\ n = N[i] /\ p = P[i] /\ (i \in BaseEntries => n = 0) /\ (n # 0 => n # i)
        /\ \A x \in Entries :
             /\ T2[x] = IF x = i THEN 0 ELSE T[x]
             /\ N2[x] = IF x = i THEN 0 ELSE IF i \in ExpnEntries /\ x = p THEN n ELSE N[x]
             /\ x # i => P2[x] = IF i \in ExpnEntries /\ n # 0 /\ x = n THEN p ELSE P[x]
             /\ x \in Live /\ x # e => I2[x] = I[x]
    BY DEF EntryCut
  <1>1. /\ \A x \in Entries : T[x] # 0 =>
            /\ x \in UsableExpn \cup (BaseEntries \ {0})
            /\ T[x] \in Live /\ I[T[x]] = x
            /\ x \in BaseEntries => x = src[T[x]]
            /\ x \in ExpnEntries => T[P[x]] # 0 /\ N[P[x]] = x /\ src[T[P[x]]] = src[T[x]]
            /\ N[x] # 0 => N[x] \in ExpnEntries /\ T[N[x]] # 0 /\ P[N[x]] = x
        /\ \A x \in Entries : T[x] = 0 => N[x] = 0
        /\ \A x \in Live : T[I[x]] = x
    BY DEF IndexWhole
  <1>2. T[i] = e /\ e # 0 /\ i # 0 /\ (i \in ExpnEntries <=> ~(i \in BaseEntries))
    BY <1>0, <1>1, EntryFacts
  <1>3. n # 0 => i \in ExpnEntries /\ n \in ExpnEntries /\ T[n] # 0 /\ P[n] = i /\ src[T[n]] = src[e]
    BY <1>0, <1>1, <1>2, EntryFacts
  <1>4. i \in ExpnEntries => T[p] # 0 /\ N[p] = i /\ src[T[p]] = src[e]
    BY <1>0, <1>1, <1>2
  <1>5. i \in ExpnEntries => p # i
    BY <1>0, <1>2, <1>4
  <1>6. T2[i] = 0 /\ N2[i] = 0 /\ \A x \in Entries : x # i => T2[x] = T[x]
    BY <1>0
  <1>7. i \in ExpnEntries => N2[p] = n /\ T2[p] = T[p]
    BY <1>0, <1>5
  <1>8. \A x \in Entries : x # i /\ ~(i \in ExpnEntries /\ x = p) => N2[x] = N[x]
    BY <1>0
  <1>9. n # 0 => P2[n] = p
    BY <1>0, <1>3
  <1>10. \A x \in Entries : x # i /\ ~(n # 0 /\ x = n) => P2[x] = P[x]
    BY <1>0
  <1>11. ASSUME NEW x \in Entries, T2[x] # 0
         PROVE  /\ x \in UsableExpn \cup (BaseEntries \ {0})
                /\ T2[x] \in Live \ {e} /\ I2[T2[x]] = x
                /\ x \in BaseEntries => x = src[T2[x]]
                /\ x \in ExpnEntries => T2[P2[x]] # 0 /\ N2[P2[x]] = x /\ src[T2[P2[x]]] = src[T2[x]]
                /\ N2[x] # 0 => N2[x] \in ExpnEntries /\ T2[N2[x]] # 0 /\ P2[N2[x]] = x
    <2>1. x # i /\ T2[x] = T[x] /\ T[x] # 0
      BY <1>0, <1>6, <1>11
    <2>2. /\ x \in UsableExpn \cup (BaseEntries \ {0})
          /\ T[x] \in Live /\ I[T[x]] = x
          /\ x \in BaseEntries => x = src[T[x]]
          /\ x \in ExpnEntries => T[P[x]] # 0 /\ N[P[x]] = x /\ src[T[P[x]]] = src[T[x]]
          /\ N[x] # 0 => N[x] \in ExpnEntries /\ T[N[x]] # 0 /\ P[N[x]] = x
      BY <1>0, <1>1, <2>1
    <2>3. T[x] # e
      BY <1>0, <2>1, <2>2
    <2>4. T2[x] \in Live \ {e} /\ I2[T2[x]] = x
      BY <1>0, <2>1, <2>2, <2>3
    <2>5. ASSUME x \in ExpnEntries PROVE T2[P2[x]] # 0 /\ N2[P2[x]] = x /\ src[T2[P2[x]]] = src[T2[x]]
      <3>1. CASE n # 0 /\ x = n
        <4>1. P2[x] = p /\ T2[p] = T[p] /\ T[p] # 0 /\ N2[p] = x /\ src[T[p]] = src[T[x]]
          BY <1>0, <1>3, <1>4, <1>7, <1>9, <3>1
        <4> QED
          BY <1>0, <2>1, <4>1
      <3>2. CASE ~(n # 0 /\ x = n)
        <4>1. PICK y \in Entries : y = P[x] /\ P2[x] = y
          BY <1>0, <1>10, <2>1, <3>2
        <4>2. T[y] # 0 /\ N[y] = x /\ src[T[y]] = src[T[x]]
          BY <1>0, <2>2, <2>5, <4>1
        <4>3. y # i
          BY <1>0, <2>5, <3>2, <4>2, EntryFacts
        <4>4. ~(i \in ExpnEntries /\ y = p)
          BY <1>0, <1>4, <2>1, <4>2
        <4> QED
          BY <1>0, <1>6, <1>8, <2>1, <4>1, <4>2, <4>3, <4>4
      <3> QED
        BY <1>0, <3>1, <3>2
    <2>6. ASSUME N2[x] # 0 PROVE N2[x] \in ExpnEntries /\ T2[N2[x]] # 0 /\ P2[N2[x]] = x
      <3>1. CASE i \in ExpnEntries /\ x = p
        <4>1. N2[x] = n /\ n # 0
          BY <1>0, <1>7, <2>6, <3>1
        <4>2. T2[n] = T[n]
          BY <1>0, <1>6, <4>1
        <4> QED
          BY <1>0, <1>3, <1>9, <3>1, <4>1, <4>2
      <3>2. CASE ~(i \in ExpnEntries /\ x = p)
        <4>1. PICK z \in Entries : z = N[x] /\ N2[x] = z
          BY <1>0, <1>8, <2>1, <3>2
        <4>2. z \in ExpnEntries /\ T[z] # 0 /\ P[z] = x
          BY <1>0, <2>2, <2>6, <4>1
        <4>3. z # i
          BY <1>0, <3>2, <4>2
        <4>4. ~(n # 0 /\ z = n)
          BY <1>0, <1>3, <2>1, <4>2
        <4> QED
          BY <1>0, <1>6, <1>10, <4>1, <4>2, <4>3, <4>4
      <3> QED
        BY <1>0, <3>1, <3>2
    <2> QED
      BY <1>0, <2>1, <2>2, <2>4, <2>5, <2>6
  <1>12. ASSUME NEW x \in Entries, T2[x] = 0 PROVE N2[x] = 0
    <2>1. CASE x = i
      BY <1>0, <1>6, <2>1
    <2>2. CASE x # i
      <3>1. T[x] = 0 /\ N[x] = 0
        BY <1>0, <1>1, <1>6, <1>12, <2>2
      <3>2. ~(i \in ExpnEntries /\ x = p)
        BY <1>0, <1>4, <3>1
      <3> QED
        BY <1>0, <1>8, <2>2, <3>1, <3>2
    <2> QED
      BY <1>0, <2>1, <2>2
  <1>13. ASSUME NEW x \in Live \ {e} PROVE T2[I2[x]] = x
    <2>1. PICK y \in Entries : y = I[x] /\ I2[x] = y /\ T[y] = x
      BY <1>0, <1>1, <1>13
    <2>2. y # i
      BY <1>0, <1>2, <1>13, <2>1
    <2> QED
      BY <1>0, <1>6, <2>1, <2>2
  <1> QED
    BY <1>0, <1>11, <1>12, <1>13 DEF IndexWhole

\* The entries that hold a live rule, and the source slot of each entry's rule.
LiveEntries == {x \in Entries : Alive(x)}
SrcSlots == [x \in Entries |-> src_hash(rule[x])]

\* IndexLinked says that the index is whole.
LEMMA IndexAsTables ==
    ASSUME TypeOK
    PROVE  IndexLinked <=>
             IndexWhole(idx_tbl_entry, idx_next_index, idx_prev_index, indx_tbl_entry, LiveEntries, SrcSlots)
  <1>1. \A x \in Entries : /\ idx_tbl_entry[x] \in Entries /\ idx_prev_index[x] \in Entries
                           /\ idx_next_index[x] \in Entries /\ indx_tbl_entry[x] \in Entries
    BY DEF TypeOK
  <1>2. \A x \in Entries : SrcSlots[x] = src_hash(rule[x]) /\ (x \in LiveEntries <=> Alive(x))
    BY DEF SrcSlots, LiveEntries
  <1>3. LiveEntries \subseteq Entries
    BY DEF LiveEntries
  <1>4. ASSUME NEW i \in Entries
        PROVE  (/\ i \in UsableExpn \cup (BaseEntries \ {0})
                /\ Alive(idx_tbl_entry[i]) /\ indx_tbl_entry[idx_tbl_entry[i]] = i
                /\ i \in BaseEntries => i = src_hash(rule[idx_tbl_entry[i]])
                /\ i \in ExpnEntries =>
                    /\ IndexUsed(idx_prev_index[i]) /\ idx_next_index[idx_prev_index[i]] = i
                    /\ src_hash(rule[idx_tbl_entry[idx_prev_index[i]]]) = src_hash(rule[idx_tbl_entry[i]])
                /\ idx_next_index[i] # 0 =>
                    /\ idx_next_index[i] \in ExpnEntries
                    /\ IndexUsed(idx_next_index[i]) /\ idx_prev_index[idx_next_index[i]] = i)
               <=> 
               (/\ i \in UsableExpn \cup (BaseEntries \ {0})
                /\ idx_tbl_entry[i] \in LiveEntries /\ indx_tbl_entry[idx_tbl_entry[i]] = i
                /\ i \in BaseEntries => i = SrcSlots[idx_tbl_entry[i]]
                /\ i \in ExpnEntries =>
                    /\ idx_tbl_entry[idx_prev_index[i]] # 0 /\ idx_next_index[idx_prev_index[i]] = i
                    /\ SrcSlots[idx_tbl_entry[idx_prev_index[i]]] = SrcSlots[idx_tbl_entry[i]]
                /\ idx_next_index[i] # 0 =>
                    /\ idx_next_index[i] \in ExpnEntries
                    /\ idx_tbl_entry[idx_next_index[i]] # 0 /\ idx_prev_index[idx_next_index[i]] = i)
    <2>1. Alive(idx_tbl_entry[i]) <=> idx_tbl_entry[i] \in LiveEntries
      BY <1>1, <1>2
    <2>2. SrcSlots[idx_tbl_entry[i]] = src_hash(rule[idx_tbl_entry[i]])
          /\ SrcSlots[idx_tbl_entry[idx_prev_index[i]]] = src_hash(rule[idx_tbl_entry[idx_prev_index[i]]])
      BY <1>1, <1>2
    <2> QED
      BY <2>1, <2>2 DEF IndexUsed
  <1>5. (\A e \in Entries : Alive(e) => idx_tbl_entry[indx_tbl_entry[e]] = e)
        <=> (\A e \in LiveEntries : idx_tbl_entry[indx_tbl_entry[e]] = e)
    BY <1>2, <1>3
  <1> QED
    BY <1>4, <1>5 DEF IndexLinked, IndexWhole, IndexUsed

\* IndexWhole looks only at live entries.
LEMMA IndexFrame ==
    ASSUME NEW T, NEW N, NEW P, NEW I, NEW Live, NEW src, NEW src2, IndexWhole(T, N, P, I, Live, src),
           \A x \in Live : src2[x] = src[x],
           \A x \in Entries : P[x] \in Entries
    PROVE  IndexWhole(T, N, P, I, Live, src2)
  <1>1. ASSUME NEW x \in Entries, T[x] # 0
        PROVE  /\ x \in BaseEntries => x = src2[T[x]]
               /\ x \in ExpnEntries => src2[T[P[x]]] = src2[T[x]]
    <2>1. T[x] \in Live /\ src2[T[x]] = src[T[x]]
      BY <1>1 DEF IndexWhole
    <2>2. x \in ExpnEntries => T[P[x]] \in Live /\ src2[T[P[x]]] = src[T[P[x]]]
      BY <1>1 DEF IndexWhole
    <2> QED
      BY <1>1, <2>1, <2>2 DEF IndexWhole
  <1> QED
    BY <1>1 DEF IndexWhole

\* The index stays linked.
LEMMA DelIndexLinked ==
    ASSUME TypeOK, TypeOK', RulesHeld, IndexLinked, Acyclic(idx_next_index),
           NEW e \in Entries, Alive(e), DelRule(e), DelIndex(e)
    PROVE  IndexLinked' /\ Acyclic(idx_next_index)'
  <1> DEFINE T == idx_tbl_entry
             N == idx_next_index
             P == idx_prev_index
             I == indx_tbl_entry
  <1>1. /\ T \in [Entries -> Entries] /\ N \in [Entries -> Entries]
        /\ P \in [Entries -> Entries] /\ I \in [Entries -> Entries]
        /\ P' \in [Entries -> Entries] /\ N' \in [Entries -> Entries]
    BY DEF TypeOK
  <1>2. IndexWhole(T, N, P, I, LiveEntries, SrcSlots)
    BY IndexAsTables
  <1>3. /\ LiveEntries \in SUBSET Entries /\ 0 \notin LiveEntries /\ e \in LiveEntries
        /\ \A x \in LiveEntries : Alive(x)
    BY EntryFacts DEF LiveEntries, RulesHeld, Alive
  <1>4. LiveEntries' = LiveEntries \ {e}
    <2>1. \A x \in Entries : enable'[x] /\ ~dead'[x] <=> Alive(x) /\ x # e
      <3>1. \A x \in Entries : x # e /\ Alive(x) => enable'[x] /\ ~dead'[x]
        BY DelRuleOthers
      <3>2. ~(enable'[e] /\ ~dead'[e])
        BY DelRuleOthers
      <3>3. \A x \in Entries : enable'[x] /\ ~dead'[x] => Alive(x)
        BY DelRuleOthers DEF DelRule, Alive
      <3> QED
        BY <3>1, <3>2, <3>3
    <2> QED
      BY <2>1 DEF LiveEntries, Alive
  <1>5. \A x \in LiveEntries \ {e} : SrcSlots'[x] = SrcSlots[x]
    <2>1. \A x \in LiveEntries \ {e} : x \in Entries /\ rule'[x] = rule[x]
      BY <1>3, DelRuleOthers DEF Alive
    <2> QED
      BY <2>1 DEF SrcSlots
  <1>6. ASSUME IndexWhole(T', N', P', I', LiveEntries \ {e}, SrcSlots) PROVE IndexLinked'
    <2>1. IndexWhole(T', N', P', I', LiveEntries \ {e}, SrcSlots')
      BY <1>1, <1>5, <1>6, IndexFrame
    <2>2. IndexWhole(T', N', P', I', LiveEntries', SrcSlots')
      BY <1>4, <2>1
    <2>3. IndexWhole(T, N, P, I, LiveEntries, SrcSlots)'
      BY <2>2 DEF IndexWhole
    <2>4. TypeOK' => (IndexLinked' <=> IndexWhole(T, N, P, I, LiveEntries, SrcSlots)')
      BY IndexAsTables, PTL
    <2> QED
      BY <2>3, <2>4
  <1>7. CASE \E i, n, m \in Entries : HeadTaken(e, i, n, m)
    <2>1. PICK i, n, m \in Entries : HeadTaken(e, i, n, m)
      BY <1>7
    <2>2. /\ i = I[e] /\ n = N[i] /\ m = N[n] /\ i \in BaseEntries /\ n # 0
          /\ \A x \in Entries :
               /\ T'[x] = IF x = n THEN 0 ELSE IF x = i THEN T[n] ELSE T[x]
               /\ N'[x] = IF x = n THEN 0 ELSE IF x = i THEN m ELSE N[x]
               /\ P'[x] = IF x = m /\ x \in ExpnEntries THEN i ELSE P[x]
               /\ x \in LiveEntries /\ x # e => I'[x] = IF x = T[n] THEN i ELSE I[x]
      BY <1>3, <2>1 DEF HeadTaken
    <2>3. m # 0 => m # n
      BY <1>1, <2>2, Neighbours
    <2>4. IndexWhole(T', N', P', I', LiveEntries \ {e}, SrcSlots)
      <3>1. HeadMoved(T, N, P, I, T', N', P', I', LiveEntries, e, i, n, m)
        BY <2>2, <2>3 DEF HeadMoved
      <3> HIDE DEF T, N, P, I
      <3> QED
        BY <1>1, <1>2, <1>3, <3>1, HeadTakenWhole
    <2>5. \A x \in Entries : N'[x] \in {0, N[x]} \/ (N[x] # 0 /\ N'[x] = N[N[x]])
      BY <2>2
    <2>6. Acyclic(N')
      BY <1>1, <2>5, AcyclicShortcut
    <2> QED
      BY <1>6, <2>4, <2>6 DEF Acyclic
  <1>8. CASE \E i, n, p \in Entries : EntryDropped(e, i, n, p)
    <2>1. PICK i, n, p \in Entries : EntryDropped(e, i, n, p)
      BY <1>8
    <2>2. /\ i = I[e] /\ n = N[i] /\ p = P[i] /\ (i \in BaseEntries => n = 0)
          /\ \A x \in Entries :
               /\ T'[x] = IF x = i THEN 0 ELSE T[x]
               /\ N'[x] = IF x = i THEN 0 ELSE IF i \in ExpnEntries /\ x = p THEN n ELSE N[x]
               /\ x # i => P'[x] = IF i \in ExpnEntries /\ n # 0 /\ x = n THEN p ELSE P[x]
               /\ x \in LiveEntries /\ x # e => I'[x] = I[x]
      BY <1>3, <2>1 DEF EntryDropped
    <2>3. n # 0 => n # i
      BY <1>1, <2>2, Neighbours
    <2>4. IndexWhole(T', N', P', I', LiveEntries \ {e}, SrcSlots)
      <3>1. EntryCut(T, N, P, I, T', N', P', I', LiveEntries, e, i, n, p)
        BY <2>2, <2>3 DEF EntryCut
      <3> HIDE DEF T, N, P, I
      <3> QED
        BY <1>1, <1>2, <1>3, <3>1, EntryDroppedWhole
    <2>5. i \in ExpnEntries => N[p] = i /\ i # 0
      <3>1. T[i] = e /\ e # 0
        BY <1>2, <1>3, <2>2 DEF IndexWhole
      <3> QED
        BY <1>2, <2>2, <3>1, EntryFacts DEF IndexWhole
    <2>6. \A x \in Entries : N'[x] \in {0, N[x]} \/ (N[x] # 0 /\ N'[x] = N[N[x]])
      BY <2>2, <2>5
    <2>7. Acyclic(N')
      BY <1>1, <2>6, AcyclicShortcut
    <2> QED
      BY <1>6, <2>4, <2>7 DEF Acyclic
  <1> QED
    BY <1>7, <1>8, DelIndexForms

\* A deletion keeps the tables linked, and every other rule keeps its handle.
LEMMA DeleteLinked ==
    ASSUME HandlesInv, LinkedInv, TypeOK', NEW h \in Handles, del_ipv4_rule(h)
    PROVE  LinkedInv'
  <1> DEFINE e == rule_id_array[h]
  <1>1. /\ TypeOK /\ HandlesSound /\ RulesHeld /\ ChainsLinked /\ IndexLinked /\ EveryRuleHasHandle
        /\ Acyclic(next_index) /\ Acyclic(idx_next_index)
    BY DEF HandlesInv, LinkedInv
  <1>2. e \in Entries /\ Alive(e) /\ enable[e] /\ DelRule(e) /\ DelIndex(e)
        /\ rule_id_array' = [rule_id_array EXCEPT ![h] = 0] /\ pc = "idle" /\ pc' = pc
    BY <1>1 DEF del_ipv4_rule, Parses, HandlesSound, TypeOK, call
  <1> HIDE DEF e
  <1>3. ChainsLinked' /\ Acyclic(next_index)'
    BY <1>1, <1>2, DelRuleChains
  <1>4. IndexLinked' /\ Acyclic(idx_next_index)'
    BY <1>1, <1>2, DelIndexLinked
  <1>5. CallLinked'
    BY <1>2 DEF CallLinked
  <1>6. EveryRuleHasHandle'
    <2> SUFFICES ASSUME NEW x \in Entries, enable'[x], ~dead'[x]
                 PROVE  \E g \in Handles : /\ rule_id_array'[g] = x /\ rule_id_array'[g] # 0
                                           /\ g < table_entries + expn_table_entries
      BY DEF EveryRuleHasHandle, Alive, Parses
    <2>1. x # e
      BY <1>1, <1>2, DelRuleOthers
    <2>2. Alive(x)
      BY <1>2 DEF DelRule, Alive
    <2>3. PICK g \in Handles : rule_id_array[g] = x /\ g < table_entries + expn_table_entries /\ rule_id_array[g] # 0
      BY <1>1, <2>2 DEF EveryRuleHasHandle, Parses
    <2>4. g # h
      BY <2>1, <2>3 DEF e
    <2> QED
      BY <1>1, <1>2, <2>3, <2>4 DEF TypeOK
  <1> QED
    BY <1>3, <1>4, <1>5, <1>6 DEF LinkedInv

----------------------------------------------------------------------------
(* Lookups *)

\* f is the walk of length m from s along nxt.
Walks(f, m, s, nxt) ==
    f \in [0..m -> Entries] /\ f[0] = s /\ \A k \in 1..m : f[k] = nxt[f[k - 1]]

\* There are walks of every length.
LEMMA WalkExists ==
    ASSUME NEW nxt \in [Entries -> Entries], NEW s \in Entries, NEW M \in Nat
    PROVE  \E f : Walks(f, M, s, nxt)
  <1> DEFINE Bad == {m \in Nat : ~ \E f : Walks(f, m, s, nxt)}
  <1> SUFFICES ASSUME Bad # {} PROVE FALSE
    OBVIOUS
  <1>1. Bad \in SUBSET Nat
    OBVIOUS
  <1>2. PICK m \in Bad : \A j \in Bad : m <= j
    BY <1>1, LeastNumber
  <1>3. CASE m = 0
    <2>1. Walks([k \in 0..m |-> s], m, s, nxt)
      BY <1>3 DEF Walks
    <2> QED
      BY <1>2, <2>1
  <1>4. CASE m # 0
    <2>1. m - 1 \in Nat /\ m - 1 \notin Bad
      BY <1>2, <1>4
    <2>2. PICK g : Walks(g, m - 1, s, nxt)
      BY <2>1
    <2> DEFINE f == [k \in 0..m |-> IF k = m THEN nxt[g[m - 1]] ELSE g[k]]
    <2>3. g \in [0..(m - 1) -> Entries] /\ g[0] = s /\ \A k \in 1..(m - 1) : g[k] = nxt[g[k - 1]]
      BY <2>2 DEF Walks
    <2>4. g[m - 1] \in Entries /\ nxt[g[m - 1]] \in Entries
      BY <2>1, <2>3
    <2>5. f \in [0..m -> Entries]
      BY <1>2, <2>1, <2>3, <2>4
    <2>6. f[0] = s
      BY <1>2, <1>4, <2>3
    <2>7. ASSUME NEW k \in 1..m PROVE f[k] = nxt[f[k - 1]]
      <3>1. CASE k = m
        <4>1. f[m] = nxt[g[m - 1]] /\ f[m - 1] = g[m - 1]
          BY <1>2, <2>1
        <4> QED
          BY <3>1, <4>1
      <3>2. CASE k # m
        <4>1. k \in 1..(m - 1) /\ f[k] = g[k] /\ f[k - 1] = g[k - 1]
          BY <1>2, <2>7, <3>2
        <4> QED
          BY <2>3, <4>1
      <3> QED
        BY <3>1, <3>2
    <2>8. Walks(f, m, s, nxt)
      BY <2>5, <2>6, <2>7 DEF Walks
    <2> QED
      BY <1>2, <2>8
  <1> QED
    BY <1>3, <1>4

\* Visited collects the entries of the walk as long as the tables.
LEMMA VisitedWalk ==
    ASSUME NEW nxt \in [Entries -> Entries], NEW s \in Entries, NEW M, M = table_entries + expn_table_entries
    PROVE  \E f : Walks(f, M, s, nxt) /\ Visited(s, nxt) = {f[k] : k \in 0..M}
  <1> DEFINE walk[k \in 0..M] == IF k = 0 THEN s ELSE nxt[walk[k - 1]]
  <1>1. M \in Nat
    BY EntryFacts
  <1>2. PICK f : Walks(f, M, s, nxt)
    BY <1>1, WalkExists
  <1>3. f = [k \in 0..M |-> IF k = 0 THEN s ELSE nxt[f[k - 1]]]
    BY <1>1, <1>2 DEF Walks
  <1>4. walk = [k \in 0..M |-> IF k = 0 THEN s ELSE nxt[walk[k - 1]]]
    BY <1>3
  <1>5. Visited(s, nxt) = {walk[k] : k \in 0..M}
    BY DEF Visited
  <1> HIDE DEF walk
  <1> DEFINE Bad == {k \in 0..M : walk[k] # f[k]}
  <1>6. Bad = {}
    <2> SUFFICES ASSUME Bad # {} PROVE FALSE
      OBVIOUS
    <2>1. Bad \in SUBSET Nat
      BY <1>1
    <2>2. PICK k \in Bad : \A j \in Bad : k <= j
      BY <2>1, LeastNumber
    <2>3. k \in 0..M /\ walk[0] = s /\ f[0] = s
      BY <1>1, <1>3, <1>4, <2>2
    <2>4. k # 0 /\ k - 1 \in 0..M /\ k - 1 \notin Bad
      BY <1>1, <2>2, <2>3
    <2>5. walk[k] = nxt[walk[k - 1]] /\ f[k] = nxt[f[k - 1]]
      BY <1>3, <1>4, <2>3, <2>4
    <2> QED
      BY <2>2, <2>4, <2>5
  <1>7. {walk[k] : k \in 0..M} = {f[k] : k \in 0..M}
    BY <1>6
  <1> QED
    BY <1>2, <1>5, <1>7

\* A walk without circles reaches 0 before it is as long as the tables: it would
\* otherwise visit more entries than there are.
LEMMA WalkEnds ==
    ASSUME NEW nxt \in [Entries -> Entries], Acyclic(nxt), nxt[0] = 0, NEW s \in Entries,
           NEW M, M = table_entries + expn_table_entries, NEW f, Walks(f, M, s, nxt)
    PROVE  f[M] = 0
  <1> SUFFICES ASSUME f[M] # 0 PROVE FALSE
    OBVIOUS
  <1>1. M \in Nat /\ M >= 4 /\ Entries = 0..(M - 1)
    BY EntryFacts DEF Entries
  <1>2. f \in [0..M -> Entries] /\ f[0] = s /\ \A k \in 1..M : f[k] = nxt[f[k - 1]]
    BY DEF Walks
  <1>3. PICK rank \in [Entries -> Nat] : \A x \in Entries : nxt[x] # 0 => rank[x] < rank[nxt[x]]
    BY DEF Acyclic
  <1>4. ASSUME NEW j \in 0..M PROVE f[j] # 0
    <2> DEFINE Bad == {k \in 0..M : j <= k /\ f[k] # 0}
    <2> SUFFICES ASSUME f[j] = 0 PROVE FALSE
      OBVIOUS
    <2>1. Bad \in SUBSET Nat /\ M \in Bad
      BY <1>1, <1>4
    <2>2. PICK k \in Bad : \A y \in Bad : k <= y
      BY <2>1, LeastNumber
    <2>3. k \in 1..M /\ j < k /\ f[k] # 0
      BY <1>1, <1>4, <2>2
    <2>4. k - 1 \in 0..M /\ k - 1 \notin Bad /\ j <= k - 1
      BY <1>1, <1>4, <2>2, <2>3
    <2>5. f[k - 1] = 0 /\ f[k] = nxt[f[k - 1]]
      BY <1>2, <2>3, <2>4
    <2> QED
      BY <2>3, <2>5
  <1>5. ASSUME NEW k \in 1..M PROVE rank[f[k - 1]] < rank[f[k]]
    <2>1. k - 1 \in 0..M /\ k \in 0..M
      BY <1>1, <1>5
    <2>2. f[k - 1] \in Entries /\ f[k] = nxt[f[k - 1]] /\ f[k] # 0
      BY <1>2, <1>4, <1>5, <2>1
    <2> QED
      BY <1>3, <2>2
  <1>6. ASSUME NEW i \in 0..M, NEW j \in 0..M, i < j PROVE rank[f[i]] < rank[f[j]]
    <2> DEFINE Bad == {k \in 0..M : i < k /\ ~(rank[f[i]] < rank[f[k]])}
    <2> SUFFICES ASSUME ~(rank[f[i]] < rank[f[j]]) PROVE FALSE
      OBVIOUS
    <2>1. Bad \in SUBSET Nat /\ j \in Bad
      BY <1>1, <1>6
    <2>2. PICK k \in Bad : \A y \in Bad : k <= y
      BY <2>1, LeastNumber
    <2>3. k \in 1..M /\ i < k /\ ~(rank[f[i]] < rank[f[k]]) /\ k - 1 \in 0..M
      BY <1>1, <1>6, <2>2
    <2>4. k - 1 = i \/ rank[f[i]] < rank[f[k - 1]]
      <3>1. k - 1 \notin Bad
        BY <1>1, <2>2, <2>3
      <3> QED
        BY <1>1, <2>3, <3>1
    <2>5. rank[f[i]] \in Nat /\ rank[f[k - 1]] \in Nat /\ rank[f[k]] \in Nat
      BY <1>2, <1>3, <2>3
    <2>6. rank[f[k - 1]] < rank[f[k]]
      BY <1>5, <2>3
    <2> QED
      BY <2>3, <2>4, <2>5, <2>6
  <1> DEFINE D == 0..M
  <1>7. IsFiniteSet(D) /\ Cardinality(D) = M + 1
    <2>1. 0 \in Int /\ M \in Int /\ ~(0 > M) /\ M - 0 + 1 = M + 1
      BY <1>1
    <2> QED
      BY <2>1, FS_Interval
  <1>8. IsFiniteSet(Entries) /\ Cardinality(Entries) = M
    <2>1. 0 \in Int /\ M - 1 \in Int /\ ~(0 > M - 1) /\ M - 1 - 0 + 1 = M
      BY <1>1
    <2> QED
      BY <1>1, <2>1, FS_Interval
  <1>9. Cardinality(Entries) < Cardinality(D)
    BY <1>1, <1>7, <1>8
  <1>10. f \in [D -> Entries]
    BY <1>2
  <1> HIDE DEF D
  <1>11. \E x, y \in D : x # y /\ f[x] = f[y]
    BY <1>7, <1>8, <1>9, <1>10, FS_PigeonHole
  <1>12. PICK x, y \in D : x # y /\ f[x] = f[y]
    BY <1>11
  <1>13. x \in 0..M /\ y \in 0..M /\ (x < y \/ y < x)
    BY <1>1, <1>12 DEF D
  <1>14. rank[f[x]] < rank[f[y]] \/ rank[f[y]] < rank[f[x]]
    BY <1>6, <1>13
  <1>15. rank[f[x]] \in Nat
    BY <1>2, <1>3, <1>13
  <1> QED
    BY <1>12, <1>14, <1>15

\* A lookup visits its slot, ends, and visits the successor of what it visits.
LEMMA VisitedFacts ==
    ASSUME NEW nxt \in [Entries -> Entries], Acyclic(nxt), nxt[0] = 0, NEW s \in Entries
    PROVE  /\ s \in Visited(s, nxt) /\ 0 \in Visited(s, nxt)
           /\ \A x \in Visited(s, nxt) : nxt[x] \in Visited(s, nxt)
  <1>1. PICK M : M = table_entries + expn_table_entries
    OBVIOUS
  <1>2. PICK f : Walks(f, M, s, nxt) /\ Visited(s, nxt) = {f[k] : k \in 0..M}
    BY <1>1, VisitedWalk
  <1>3. M \in Nat
    BY <1>1, EntryFacts
  <1>4. f \in [0..M -> Entries] /\ f[0] = s /\ \A k \in 1..M : f[k] = nxt[f[k - 1]]
    BY <1>2 DEF Walks
  <1>5. f[M] = 0
    BY <1>1, <1>2, WalkEnds
  <1>6. 0 \in 0..M /\ M \in 0..M
    BY <1>3
  <1>7. s \in Visited(s, nxt) /\ 0 \in Visited(s, nxt)
    BY <1>2, <1>4, <1>5, <1>6
  <1>8. ASSUME NEW x \in Visited(s, nxt) PROVE nxt[x] \in Visited(s, nxt)
    <2>1. PICK k \in 0..M : x = f[k]
      BY <1>2, <1>8
    <2>2. CASE k = M
      BY <1>5, <1>7, <2>1, <2>2
    <2>3. CASE k # M
      <3>1. k + 1 \in 1..M /\ k + 1 \in 0..M /\ k + 1 - 1 = k
        BY <1>3, <2>1, <2>3
      <3>2. f[k + 1] = nxt[f[k + 1 - 1]]
        BY <1>4, <3>1
      <3>3. f[k + 1] = nxt[x]
        BY <2>1, <3>1, <3>2
      <3> QED
        BY <1>2, <3>1, <3>3
    <2> QED
      BY <2>2, <2>3
  <1> QED
    BY <1>7, <1>8

\* In linked chains without circles every used entry is visited from its slot: a
\* used entry that is not, of the least rank, has a predecessor of a lesser rank.
LEMMA UsedVisited ==
    ASSUME NEW nxt \in [Entries -> Entries], Acyclic(nxt), nxt[0] = 0,
           NEW Used \in SUBSET Entries, 0 \notin Used, NEW slot \in [Used -> Entries], NEW prv,
           \A e \in Used : /\ e \in BaseEntries => e = slot[e]
                           /\ e \in ExpnEntries => prv[e] \in Used /\ nxt[prv[e]] = e /\ slot[prv[e]] = slot[e]
    PROVE  \A e \in Used : e \in Visited(slot[e], nxt)
  <1> DEFINE Lost == {e \in Used : e \notin Visited(slot[e], nxt)}
  <1> SUFFICES ASSUME Lost # {} PROVE FALSE
    OBVIOUS
  <1>1. PICK rank \in [Entries -> Nat] : \A x \in Entries : nxt[x] # 0 => rank[x] < rank[nxt[x]]
    BY DEF Acyclic
  <1> DEFINE Ranks == {rank[e] : e \in Lost}
  <1>2. Ranks \in SUBSET Nat /\ Ranks # {}
    BY <1>1
  <1>3. PICK r \in Ranks : \A y \in Ranks : r <= y
    BY <1>2, LeastNumber
  <1>4. PICK e \in Lost : \A x \in Lost : rank[e] <= rank[x]
    BY <1>3
  <1>5. e \in Used /\ e \in Entries /\ e # 0 /\ slot[e] \in Entries /\ e \notin Visited(slot[e], nxt)
    BY <1>4
  <1>6. \A s \in Entries : s \in Visited(s, nxt) /\ \A x \in Visited(s, nxt) : nxt[x] \in Visited(s, nxt)
    BY VisitedFacts
  <1>7. CASE e \in BaseEntries
    BY <1>5, <1>6, <1>7
  <1>8. CASE e \in ExpnEntries
    <2>1. prv[e] \in Used /\ nxt[prv[e]] = e /\ slot[prv[e]] = slot[e]
      BY <1>5, <1>8
    <2>2. rank[prv[e]] < rank[e] /\ rank[e] \in Nat /\ rank[prv[e]] \in Nat
      BY <1>1, <1>5, <2>1
    <2>3. prv[e] \notin Lost
      BY <1>4, <2>2
    <2>4. prv[e] \in Visited(slot[e], nxt)
      BY <2>1, <2>3
    <2> QED
      BY <1>5, <1>6, <2>1, <2>4
  <1> QED
    BY <1>5, <1>7, <1>8, EntryFacts

\* Both lookups find every live rule, and every lookup ends.
LEMMA LinkedReachable ==
    ASSUME HandlesInv, LinkedInv
    PROVE  RulesReachable
  <1>1. /\ TypeOK /\ RulesHeld /\ ChainsLinked /\ IndexLinked
        /\ Acyclic(next_index) /\ Acyclic(idx_next_index)
    BY DEF HandlesInv, LinkedInv
  <1>2. /\ next_index \in [Entries -> Entries] /\ idx_next_index \in [Entries -> Entries]
        /\ idx_tbl_entry \in [Entries -> Entries] /\ indx_tbl_entry \in [Entries -> Entries]
        /\ prev_index \in [Entries -> Entries] /\ idx_prev_index \in [Entries -> Entries]
    BY <1>1 DEF TypeOK
  <1>3. next_index[0] = 0
    <2>1. ~enable[0] /\ 0 \in Entries
      BY <1>1, EntryFacts DEF RulesHeld
    <2> QED
      BY <1>1, <2>1 DEF ChainsLinked, InUse
  <1>4. idx_next_index[0] = 0 /\ idx_tbl_entry[0] = 0
    <2>1. idx_tbl_entry[0] = 0
      BY <1>1, EntryFacts DEF IndexLinked, IndexUsed, Usable
    <2> QED
      BY <1>1, <2>1, EntryFacts DEF IndexLinked, IndexUsed
  <1>5. \A e \in BaseEntries \ {0} : 0 \in Visited(e, next_index) /\ 0 \in Visited(e, idx_next_index)
    <2> TAKE e \in BaseEntries \ {0}
    <2>1. e \in Entries
      BY EntryFacts
    <2>2. 0 \in Visited(e, next_index)
      BY <1>1, <1>2, <1>3, <2>1, VisitedFacts
    <2>3. 0 \in Visited(e, idx_next_index)
      BY <1>1, <1>2, <1>4, <2>1, VisitedFacts
    <2> QED
      BY <2>2, <2>3
  <1>6. \A e \in Entries : enable[e] => e \in Visited(dst_hash(rule[e]), next_index)
    <2> DEFINE Used == {e \in Entries : enable[e]}
               slot == [e \in Used |-> dst_hash(rule[e])]
    <2>1. Used \in SUBSET Entries /\ 0 \notin Used
      BY <1>1, EntryFacts DEF RulesHeld
    <2>2. \A e \in Used : slot[e] = dst_hash(rule[e]) /\ slot[e] \in Entries
      BY <1>1, SlotFacts, EntryFacts DEF RulesHeld
    <2>3. slot \in [Used -> Entries]
      BY <2>2
    <2>4. \A e \in Used : /\ e \in BaseEntries => e = slot[e]
                          /\ e \in ExpnEntries => /\ prev_index[e] \in Used /\ next_index[prev_index[e]] = e
                                                  /\ slot[prev_index[e]] = slot[e]
      <3> TAKE e \in Used
      <3>1. e \in BaseEntries => e = slot[e]
        BY <1>1, <2>2 DEF ChainsLinked, InUse
      <3>2. e \in ExpnEntries => prev_index[e] \in Used /\ next_index[prev_index[e]] = e
                                 /\ dst_hash(rule[prev_index[e]]) = dst_hash(rule[e])
        BY <1>1, <1>2 DEF ChainsLinked, InUse
      <3> QED
        BY <2>2, <3>1, <3>2
    <2>5. \A e \in Entries : enable[e] => e \in Used
      OBVIOUS
    <2> HIDE DEF Used, slot
    <2>6. \A e \in Used : e \in Visited(slot[e], next_index)
      BY <1>1, <1>2, <1>3, <2>1, <2>3, <2>4, UsedVisited
    <2> QED
      BY <2>2, <2>5, <2>6
  <1>7. \A e \in Entries : Alive(e) => indx_tbl_entry[e] \in Visited(src_hash(rule[e]), idx_next_index)
    <2> DEFINE Used == {i \in Entries : idx_tbl_entry[i] # 0}
               slot == [i \in Used |-> src_hash(rule[idx_tbl_entry[i]])]
    <2>1. Used \in SUBSET Entries /\ 0 \notin Used
      BY <1>4
    <2>2. \A i \in Used : slot[i] = src_hash(rule[idx_tbl_entry[i]]) /\ slot[i] \in Entries
      <3> TAKE i \in Used
      <3>1. idx_tbl_entry[i] \in Entries /\ enable[idx_tbl_entry[i]]
        BY <1>1, <1>2 DEF IndexLinked, IndexUsed, Alive
      <3>2. rule[idx_tbl_entry[i]] \in Rules
        BY <1>1, <3>1 DEF RulesHeld
      <3> QED
        BY <3>2, SlotFacts, EntryFacts
    <2>3. slot \in [Used -> Entries]
      BY <2>2
    <2>4. \A i \in Used : /\ i \in BaseEntries => i = slot[i]
                          /\ i \in ExpnEntries => /\ idx_prev_index[i] \in Used /\ idx_next_index[idx_prev_index[i]] = i
                                                  /\ slot[idx_prev_index[i]] = slot[i]
      <3> TAKE i \in Used
      <3>1. i \in BaseEntries => i = slot[i]
        BY <1>1, <2>2 DEF IndexLinked, IndexUsed
      <3>2. i \in ExpnEntries =>
              /\ idx_prev_index[i] \in Used /\ idx_next_index[idx_prev_index[i]] = i
              /\ src_hash(rule[idx_tbl_entry[idx_prev_index[i]]]) = src_hash(rule[idx_tbl_entry[i]])
        BY <1>1, <1>2 DEF IndexLinked, IndexUsed
      <3> QED
        BY <2>2, <3>1, <3>2
    <2>5. \A e \in Entries : Alive(e) => indx_tbl_entry[e] \in Used /\ idx_tbl_entry[indx_tbl_entry[e]] = e
      <3> SUFFICES ASSUME NEW e \in Entries, Alive(e)
                   PROVE  indx_tbl_entry[e] \in Used /\ idx_tbl_entry[indx_tbl_entry[e]] = e
        OBVIOUS
      <3>1. e # 0
        BY <1>1, EntryFacts DEF RulesHeld, Alive
      <3> QED
        BY <1>1, <1>2, <3>1 DEF IndexLinked
    <2> HIDE DEF Used, slot
    <2>6. \A i \in Used : i \in Visited(slot[i], idx_next_index)
      BY <1>1, <1>2, <1>4, <2>1, <2>3, <2>4, UsedVisited
    <2> QED
      BY <2>2, <2>5, <2>6
  <1> QED
    BY <1>5, <1>6, <1>7 DEF RulesReachable, Alive

----------------------------------------------------------------------------
(* The theorems *)

\* Until a command fails, every step keeps the tables linked.
LEMMA LinkedStep ==
    ASSUME TableInv, [Next]_vars, failures' = 0
    PROVE  LinkedInv'
  <1>1. HandlesInv /\ TypeOK /\ CallSound
    BY DEF TableInv, HandlesInv
  <1>2. TypeOK'
    BY <1>1, TypesStep
  <1>3. CASE UNCHANGED vars
    <2>1. LinkedInv
      BY <1>3 DEF TableInv, vars
    <2>2. UNCHANGED <<table, index, rule_id_array>>
      BY <1>3 DEF vars, table, index
    <2>3. CallLinked'
      BY <1>3, <2>1 DEF vars, LinkedInv, CallLinked, InUse, IndexUsed
    <2> QED
      BY <2>1, <2>2, <2>3, FrameLinked DEF LinkedInv
  <1>4. CASE add_ipv4_tbl \/ del_ipv4_table
    <2>1. pc = "idle"
      BY <1>1, <1>4 DEF add_ipv4_tbl, del_ipv4_table, CallSound
    <2> QED
      BY <1>4, <2>1, ResetLinked DEF add_ipv4_tbl, del_ipv4_table
  <1>5. CASE (\E r \in Rules : AddStart(r)) \/ WalkNext \/ WalkEnd \/ WalkFails \/ IndexStart
             \/ IndexWalkNext \/ IndexWalkEnd \/ IndexWalkFails
    <2>1. failures = 0
      BY <1>5 DEF AddStart, WalkNext, WalkEnd, WalkFails, IndexStart, IndexWalkNext, IndexWalkEnd, IndexWalkFails
    <2> QED
      BY <1>1, <1>5, <2>1, WalksLinked DEF TableInv
  <1>6. CASE \E failed \in SUBSET AddCommands : failures + Cardinality(failed) <= MaxFailures /\ AddWrite(failed)
    <2>1. PICK failed \in SUBSET AddCommands : AddWrite(failed)
      BY <1>6
    <2>2. failures' = failures + Cardinality(failed) /\ failures \in Nat
      BY <1>1, <2>1 DEF AddWrite, TypeOK
    <2>3. Cardinality(failed) \in Nat /\ (Cardinality(failed) = 0 => failed = {})
      BY FailedFacts
    <2>4. failures = 0 /\ failed = {}
      BY <2>2, <2>3
    <2> QED
      BY <1>1, <2>1, <2>4, WriteLinked DEF TableInv
  <1>7. CASE \E h \in Handles : del_ipv4_rule(h)
    <2>1. PICK h \in Handles : del_ipv4_rule(h)
      BY <1>7
    <2>2. failures = 0
      BY <2>1 DEF del_ipv4_rule
    <2> QED
      BY <1>1, <1>2, <2>1, <2>2, DeleteLinked DEF TableInv
  <1> QED
    BY <1>3, <1>4, <1>5, <1>6, <1>7 DEF Next, AddSteps

\* The inductive invariant: whatever fails a handle stands for one live rule; until a
\* DMA command fails the tables are linked, without circles, and every rule has a handle.
THEOREM TableInvariant == Spec => []TableInv
  <1>1. Init => TableInv
    BY HandlesInit, LinkedInit DEF TableInv
  <1>2. TableInv /\ [Next]_vars => TableInv'
    BY HandlesStep, LinkedStep DEF TableInv
  <1> QED
    BY <1>1, <1>2, PTL DEF Spec

\* ipa_nat_drvi.c: until a DMA command of an add fails, the base, expansion and index
\* tables are whole through every step of every call, both lookups of the hardware end
\* and find every live rule, and every live rule has a handle that
\* parse_ipv4_rule_hdl accepts; a handle stands for one live rule whatever fails.
THEOREM TableStaysSound == Spec => []TableSound
  <1>1. TableInv => TableSound
    BY LinkedReachable DEF TableInv, HandlesInv, LinkedInv, TableSound, TablesLinked
  <1> QED
    BY <1>1, TableInvariant, PTL

\* generate_tbl_rule and generate_index_rule: until a command fails, an add is refused
\* only when an expansion table is full; "Prev index and next index should not be same"
\* is never the reason.
THEOREM RefusalMeansFull == Spec => RefusedOnlyWhenFull
  <1>1. TableInv /\ [Next]_vars => [Refusal]_vars
    <2> SUFFICES ASSUME TableInv, Next, failures = 0, pc \in {"walk", "walk_index"}, pc' = "idle"
                 PROVE  FreeExpn = {} \/ FreeIndexExpn = {}
      BY DEF Refusal
    <2>1. /\ TypeOK /\ CallSound /\ CallLinked /\ ChainsLinked /\ IndexLinked
          /\ Acyclic(next_index) /\ Acyclic(idx_next_index)
      BY DEF TableInv, HandlesInv, LinkedInv
    <2>2. WalkFails \/ IndexWalkFails
      <3>1. \/ add_ipv4_tbl \/ del_ipv4_table \/ (\E r \in Rules : AddStart(r))
            \/ WalkNext \/ WalkEnd \/ WalkFails \/ IndexStart \/ IndexWalkNext \/ IndexWalkEnd \/ IndexWalkFails
            \/ (\E failed \in SUBSET AddCommands : AddWrite(failed))
            \/ (\E h \in Handles : del_ipv4_rule(h))
        BY DEF Next, AddSteps
      <3>2. ~add_ipv4_tbl
        BY <2>1 DEF add_ipv4_tbl, CallSound
      <3> QED
        BY <3>1, <3>2 DEF del_ipv4_table, AddStart, WalkNext, WalkEnd, IndexStart, IndexWalkNext,
                           IndexWalkEnd, AddWrite, del_ipv4_rule
    <2>3. cursor \in Entries
      BY <2>1 DEF TypeOK
    <2>4. CASE WalkFails
      <3>1. next_index[cursor] # cursor
        <4>1. cursor # 0
          BY <2>1, <2>4, EntryFacts DEF WalkFails, CallLinked, ChainsLinked, InUse, Usable
        <4> QED
          BY <2>1, <2>3, <4>1, Neighbours DEF TypeOK
      <3> QED
        BY <2>4, <3>1, FreeFacts DEF WalkFails
    <2>5. CASE IndexWalkFails
      <3>1. idx_next_index[cursor] # cursor /\ idx_tbl_entry[cursor] # 0
        <4>1. idx_tbl_entry[cursor] # 0
          BY <2>1, <2>5 DEF IndexWalkFails, CallLinked, IndexUsed
        <4>2. cursor # 0
          BY <2>1, <2>3, <4>1, EntryFacts DEF IndexLinked, IndexUsed, Usable
        <4> QED
          BY <2>1, <2>3, <4>1, <4>2, Neighbours DEF TypeOK
      <3>2. index_expn_get_free_entry # 0 => index_expn_get_free_entry # cursor
        BY <3>1, FreeFacts
      <3>3. FreeIndexExpn = {} \/ index_expn_get_free_entry = cursor
        BY <2>5, <3>1 DEF IndexWalkFails
      <3> QED
        BY <3>2, <3>3, FreeFacts
    <2> QED
      BY <2>2, <2>4, <2>5
  <1> QED
    BY <1>1, TableInvariant, PTL DEF Spec, RefusedOnlyWhenFull
===============================================================================
