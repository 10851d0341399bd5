------------------------------- MODULE NatTable -------------------------------
(***************************************************************************)
(* The IPv4 NAT table that libipanat shares with the IPA hardware          *)
(* (ipa_nat_drvi.c).  A rule lives in the base table at the slot its       *)
(* destination hash selects, or in the expansion table, linked to that     *)
(* slot by next_index and prev_index; a second table of the same shape     *)
(* indexes the rules by their source hash.  Entry 0 of every table is      *)
(* unused, expansion entry k has the number table_entries + k, and 0 is    *)
(* the null index.  The hardware follows next_index; software alone reads  *)
(* prev_index and indx_tbl_entry.                                          *)
(*                                                                         *)
(* One thread adds and deletes; each iteration of a loop that walks a      *)
(* chain is a step.  A rule is its fields; only its two hashes matter.     *)
(***************************************************************************)
EXTENDS Naturals, FiniteSets

CONSTANTS
    Rules,
    NoRule,
    table_entries,          \* size of the base tables, a power of two
    expn_table_entries,     \* size of the expansion tables
    AllowDuplicates,        \* the client may add a rule it holds; IPACM does not
    DstHash, SrcHash,       \* the exclusive-or of a rule's fields, before the mask
    MaxFailures             \* bound: DMA commands that may fail 

ASSUME NatTableAssumption ==
    /\ NoRule \notin Rules
    /\ table_entries \in Nat /\ table_entries >= 2
    /\ expn_table_entries \in Nat /\ expn_table_entries >= 2
    /\ DstHash \in [Rules -> Nat] /\ SrcHash \in [Rules -> Nat]
    /\ AllowDuplicates \in BOOLEAN
    /\ MaxFailures \in Nat

BaseEntries == 0..(table_entries - 1)
ExpnEntries == table_entries..(table_entries + expn_table_entries - 1)
Entries == 0..(table_entries + expn_table_entries - 1)
Handles == 1..(table_entries + expn_table_entries)

\* Entry 0 of the expansion tables is unused: cnt runs from 1.
UsableExpn == (table_entries + 1)..(table_entries + expn_table_entries - 1)

VARIABLES
    valid,              \* the table exists
    enable, dead,       \* ENABLE_FIELD; PROTOCOL_FIELD is 0xFF
    rule,               \* the other fields of the entry
    next_index, prev_index, indx_tbl_entry,
    idx_tbl_entry, idx_next_index,      \* the index table ...
    idx_prev_index,                     \* ... and index_expn_table_meta
    rule_id_array,      \* the entry each handle stands for
    pc, arg,            \* the call in progress and the rule to add
    cursor,             \* nxt_indx: where the walk is
    new_entry, new_prev, new_index, new_index_prev,
    failures            \* DMA commands that have failed

table == <<enable, dead, rule, next_index, prev_index, indx_tbl_entry>>
index == <<idx_tbl_entry, idx_next_index, idx_prev_index>>
call == <<pc, arg, cursor, new_entry, new_prev, new_index, new_index_prev>>
vars == <<valid, enable, dead, rule, next_index, prev_index, indx_tbl_entry,
          idx_tbl_entry, idx_next_index, idx_prev_index, rule_id_array,
          pc, arg, cursor, new_entry, new_prev, new_index, new_index_prev, failures>>

AllFalse == [e \in Entries |-> FALSE]
AllZero == [e \in Entries |-> 0]
NoRules == [e \in Entries |-> NoRule]
NoHandles == [h \in Handles |-> 0]

Idle ==
    /\ pc = "idle" /\ arg = NoRule /\ cursor = 0
    /\ new_entry = 0 /\ new_prev = 0 /\ new_index = 0 /\ new_index_prev = 0

Init ==
    /\ valid = FALSE
    /\ enable = AllFalse /\ dead = AllFalse /\ rule = NoRules
    /\ next_index = AllZero /\ prev_index = AllZero /\ indx_tbl_entry = AllZero
    /\ idx_tbl_entry = AllZero /\ idx_next_index = AllZero /\ idx_prev_index = AllZero
    /\ rule_id_array = NoHandles
    /\ Idle
    /\ failures = 0

\* hash & (table_entries - 1), and the last slot instead of slot 0.
Slot(hash) ==
    IF hash % table_entries = 0 THEN table_entries - 1 ELSE hash % table_entries
dst_hash(r) == Slot(DstHash[r])
src_hash(r) == Slot(SrcHash[r])

----------------------------------------------------------------------------
\* ipa_nati_reset_tbl, and fresh memory for the software's own tables.
reset_tbl ==
    /\ enable' = AllFalse /\ dead' = AllFalse /\ rule' = NoRules
    /\ next_index' = AllZero /\ prev_index' = AllZero /\ indx_tbl_entry' = AllZero
    /\ idx_tbl_entry' = AllZero /\ idx_next_index' = AllZero /\ idx_prev_index' = AllZero
    /\ rule_id_array' = NoHandles

add_ipv4_tbl ==
    /\ ~valid
    /\ valid' = TRUE
    /\ reset_tbl
    /\ UNCHANGED <<call, failures>>

del_ipv4_table ==
    /\ valid /\ pc = "idle"
    /\ valid' = FALSE
    /\ reset_tbl
    /\ UNCHANGED <<call, failures>>

Return ==
    /\ pc' = "idle" /\ arg' = NoRule /\ cursor' = 0
    /\ new_entry' = 0 /\ new_prev' = 0 /\ new_index' = 0 /\ new_index_prev' = 0

\* generate_tbl_rule: the base slot, unless it is taken.
AddStart(r) ==
    /\ valid /\ pc = "idle"
    /\ AllowDuplicates \/ \A e \in Entries : enable[e] /\ ~dead[e] => rule[e] # r
    /\ arg' = r
    /\ IF enable[dst_hash(r)]
       THEN /\ pc' = "walk"
            /\ cursor' = dst_hash(r)
            /\ UNCHANGED new_entry
       ELSE /\ pc' = "index"
            /\ new_entry' = dst_hash(r)
            /\ UNCHANGED cursor
    /\ UNCHANGED <<valid, table, index, rule_id_array, new_prev, new_index, new_index_prev, failures>>

\* The first entry of free, the null index if there is none.
FirstOf(free) ==
    IF free = {} THEN 0 ELSE CHOOSE e \in free : \A f \in free : e <= f

\* The first expansion entry that is not enabled.
FreeExpn == {e \in UsableExpn : ~enable[e]}
expn_tbl_free_entry == FirstOf(FreeExpn)

\* Mutant: the walk does not advance.
WalkNext_NotAdvanced ==
    /\ pc = "walk"
    /\ next_index[cursor] \notin {0, cursor}
    /\ UNCHANGED vars

\* One iteration of generate_tbl_rule's search for the last entry.
WalkNext ==
    /\ pc = "walk"
    /\ next_index[cursor] \notin {0, cursor}
    /\ cursor' = next_index[cursor]
    /\ UNCHANGED <<valid, table, index, rule_id_array, pc, arg, new_entry, new_prev,
                   new_index, new_index_prev, failures>>

WalkEnd ==
    /\ pc = "walk" /\ next_index[cursor] = 0 /\ expn_tbl_free_entry # 0
    /\ new_entry' = expn_tbl_free_entry
    /\ new_prev' = cursor
    /\ pc' = "index" /\ cursor' = 0
    /\ UNCHANGED <<valid, table, index, rule_id_array, arg, new_index, new_index_prev, failures>>

\* The expansion table is full, or "Prev index and next index should not be same".
WalkFails ==
    /\ pc = "walk"
    /\ \/ next_index[cursor] = 0 /\ expn_tbl_free_entry = 0
       \/ next_index[cursor] = cursor
    /\ Return
    /\ UNCHANGED <<valid, table, index, rule_id_array, failures>>

\* generate_index_rule, the same for the index table.
IndexStart ==
    /\ pc = "index"
    /\ IF idx_tbl_entry[src_hash(arg)] # 0
       THEN /\ pc' = "walk_index"
            /\ cursor' = src_hash(arg)
            /\ UNCHANGED new_index
       ELSE /\ pc' = "write"
            /\ new_index' = src_hash(arg)
            /\ UNCHANGED cursor
    /\ UNCHANGED <<valid, table, index, rule_id_array, arg, new_entry, new_prev, new_index_prev, failures>>

FreeIndexExpn == {i \in UsableExpn : idx_tbl_entry[i] = 0}
index_expn_get_free_entry == FirstOf(FreeIndexExpn)

IndexWalkNext ==
    /\ pc = "walk_index"
    /\ idx_next_index[cursor] \notin {0, cursor}
    /\ cursor' = idx_next_index[cursor]
    /\ UNCHANGED <<valid, table, index, rule_id_array, pc, arg, new_entry, new_prev,
                   new_index, new_index_prev, failures>>

IndexWalkEnd ==
    /\ pc = "walk_index" /\ idx_next_index[cursor] = 0
    /\ index_expn_get_free_entry \notin {0, cursor}
    /\ new_index' = index_expn_get_free_entry
    /\ new_index_prev' = cursor
    /\ pc' = "write" /\ cursor' = 0
    /\ UNCHANGED <<valid, table, index, rule_id_array, arg, new_entry, new_prev, failures>>

IndexWalkFails ==
    /\ pc = "walk_index"
    /\ \/ /\ idx_next_index[cursor] = 0
          /\ FreeIndexExpn = {} \/ index_expn_get_free_entry = cursor
       \/ idx_next_index[cursor] = cursor
    /\ Return
    /\ UNCHANGED <<valid, table, index, rule_id_array, failures>>

\* make_rule_hdl: the first free place of rule_id_array, 0 if there is none.
make_rule_hdl == FirstOf({h \in Handles : rule_id_array[h] = 0})

\* The DMA commands of an add: link the table entry, link the index entry,
\* enable the entry.  A failed link is ignored, a failed enable is an error.
AddCommands == {"link", "index link", "enable"}

\* generate_rule's last lines, copy_ipv4_rule_to_hw, copy_ipv4_index_rule_to_hw,
\* post_ipv4_dma_cmd and make_rule_hdl; failed are the commands that fail.
AddWrite(failed) ==
    /\ pc = "write"
    /\ rule' = [rule EXCEPT ![new_entry] = arg]
    /\ enable' = [enable EXCEPT ![new_entry] = "enable" \notin failed]
    /\ dead' = [dead EXCEPT ![new_entry] = FALSE]
    /\ prev_index' = [prev_index EXCEPT ![new_entry] = new_prev]
    /\ indx_tbl_entry' = [indx_tbl_entry EXCEPT ![new_entry] = new_index]
    /\ next_index' = [e \in Entries |->
            IF e = new_prev /\ new_prev # 0 /\ "link" \notin failed THEN new_entry
            ELSE IF e = new_entry THEN 0 ELSE next_index[e]]
    /\ idx_tbl_entry' = [idx_tbl_entry EXCEPT ![new_index] = new_entry]
    /\ idx_next_index' = [i \in Entries |->
            IF i = new_index_prev /\ new_index_prev # 0 /\ "index link" \notin failed THEN new_index
            ELSE IF i = new_index THEN 0 ELSE idx_next_index[i]]
    /\ idx_prev_index' = [i \in Entries |->
            IF i = new_index /\ i \in ExpnEntries THEN new_index_prev ELSE idx_prev_index[i]]
    /\ rule_id_array' = [h \in Handles |->
            IF h = make_rule_hdl /\ "enable" \notin failed THEN new_entry ELSE rule_id_array[h]]
    /\ failures' = failures + Cardinality(failed)
    /\ Return
    /\ UNCHANGED valid

----------------------------------------------------------------------------
(* del_ipv4_rule, under nat_mutex, and one DMA command list: one step. *)

\* find_rule_pos and find_index_rule_pos
Position(e, nxt) ==
    IF e \in ExpnEntries
    THEN IF nxt[e] = 0 THEN "last" ELSE "middle"
    ELSE IF nxt[e] = 0 THEN "only one" ELSE "head"

\* The table half of post_del_dma_cmd, and del_dead_ipv4_head_nodes.  A head
\* with a chain stays, with an invalid protocol, until its chain is gone.
DelRule(e) ==
    LET pos == Position(e, next_index)
        linked == [x \in Entries |->
            IF pos \in {"middle", "last"} /\ x = prev_index[e]
            THEN (IF pos = "middle" THEN next_index[e] ELSE 0)
            ELSE next_index[x]]
        freed == (IF pos = "head" THEN {} ELSE {e})
                 \cup {x \in BaseEntries : dead[x] /\ linked[x] = 0}
    IN  /\ enable' = [x \in Entries |-> x \notin freed /\ enable[x]]
        /\ rule' = [x \in Entries |-> IF x \in freed THEN NoRule ELSE rule[x]]
        /\ dead' = [x \in Entries |-> x \notin freed /\ (dead[x] \/ (x = e /\ pos = "head"))]
        /\ next_index' = [x \in Entries |-> IF x \in freed THEN 0 ELSE linked[x]]
        /\ prev_index' = [x \in Entries |->
                IF x \in freed THEN 0
                ELSE IF pos = "middle" /\ x = next_index[e] THEN prev_index[e]
                ELSE prev_index[x]]

\* Mutant: the rule that moves to the head of its index chain is not told.
DelIndex_MovedNotUpdated(e) ==
    LET i == indx_tbl_entry[e]
        pos == Position(i, idx_next_index)
        n == idx_next_index[i]
        gone == IF pos = "head" THEN n ELSE i
    IN  /\ idx_tbl_entry' = [x \in Entries |->
                IF x = gone THEN 0
                ELSE IF pos = "head" /\ x = i THEN idx_tbl_entry[n]
                ELSE idx_tbl_entry[x]]
        /\ idx_next_index' = [x \in Entries |->
                IF x = gone THEN 0
                ELSE IF pos = "head" /\ x = i THEN idx_next_index[n]
                ELSE IF pos \in {"middle", "last"} /\ x = idx_prev_index[i] THEN n
                ELSE idx_next_index[x]]
        /\ idx_prev_index' = [x \in Entries |->
                IF pos = "head" /\ x = idx_next_index[n] /\ x \in ExpnEntries THEN i
                ELSE IF pos = "middle" /\ x = n THEN idx_prev_index[i]
                ELSE IF pos = "middle" /\ x = i THEN 0
                ELSE idx_prev_index[x]]
        /\ indx_tbl_entry' = [x \in Entries |->
                IF enable[x] /\ ~enable'[x] THEN 0 ELSE indx_tbl_entry[x]]

\* The index half.  A head with a chain takes over its successor's values,
\* and the rule that the successor stood for is told so.
DelIndex(e) ==
    LET i == indx_tbl_entry[e]
        pos == Position(i, idx_next_index)
        n == idx_next_index[i]
        gone == IF pos = "head" THEN n ELSE i
    IN  /\ idx_tbl_entry' = [x \in Entries |->
                IF x = gone THEN 0
                ELSE IF pos = "head" /\ x = i THEN idx_tbl_entry[n]
                ELSE idx_tbl_entry[x]]
        /\ idx_next_index' = [x \in Entries |->
                IF x = gone THEN 0
                ELSE IF pos = "head" /\ x = i THEN idx_next_index[n]
                ELSE IF pos \in {"middle", "last"} /\ x = idx_prev_index[i] THEN n
                ELSE idx_next_index[x]]
        /\ idx_prev_index' = [x \in Entries |->
                IF pos = "head" /\ x = idx_next_index[n] /\ x \in ExpnEntries THEN i
                ELSE IF pos = "middle" /\ x = n THEN idx_prev_index[i]
                ELSE IF pos = "middle" /\ x = i THEN 0
                ELSE idx_prev_index[x]]
        /\ indx_tbl_entry' = [x \in Entries |->
                IF dead[x] /\ ~enable'[x] THEN 0
                ELSE IF pos = "head" /\ x = idx_tbl_entry[n] THEN i
                ELSE IF enable[x] /\ ~enable'[x] THEN 0 ELSE indx_tbl_entry[x]]

\* parse_ipv4_rule_hdl accepts handles below table_entries + expn_table_entries.
Parses(h) == h < table_entries + expn_table_entries /\ rule_id_array[h] # 0

\* Mutant: rule_id_array is kept dense, the handles after h move down.
del_ipv4_rule_Dense(h) ==
    LET e == rule_id_array[h] IN
    /\ valid /\ pc = "idle"
    /\ Parses(h)
    /\ enable[e]
    /\ DelRule(e)
    /\ DelIndex(e)
    /\ rule_id_array' = [g \in Handles |-> IF g < h THEN rule_id_array[g]
                          ELSE IF g + 1 \in Handles THEN rule_id_array[g + 1] ELSE 0]
    /\ UNCHANGED <<valid, call, failures>>

del_ipv4_rule(h) ==
    LET e == rule_id_array[h] IN
    /\ valid /\ pc = "idle"
    /\ Parses(h)
    /\ enable[e]
    /\ DelRule(e)
    /\ DelIndex(e)
    /\ rule_id_array' = [rule_id_array EXCEPT ![h] = 0]
    /\ UNCHANGED <<valid, call, failures>>

----------------------------------------------------------------------------
AddSteps ==
    \/ WalkNext \/ WalkEnd \/ WalkFails
    \/ IndexStart
    \/ IndexWalkNext \/ IndexWalkEnd \/ IndexWalkFails
    \/ \E failed \in SUBSET AddCommands :
          failures + Cardinality(failed) <= MaxFailures /\ AddWrite(failed)

Next ==
    \/ add_ipv4_tbl
    \/ del_ipv4_table
    \/ \E r \in Rules : AddStart(r)
    \/ AddSteps
    \/ \E h \in Handles : del_ipv4_rule(h)

Spec == Init /\ [][Next]_vars

\* A call that has begun runs on.
FairSpec == Spec /\ WF_vars(AddSteps)

----------------------------------------------------------------------------
(* Properties *)

PCs == {"idle", "walk", "index", "walk_index", "write"}

\* Type invariant of the tables and of the call in progress.
TypeOK ==
    /\ valid \in BOOLEAN
    /\ enable \in [Entries -> BOOLEAN]
    /\ dead \in [Entries -> BOOLEAN]
    /\ rule \in [Entries -> Rules \cup {NoRule}]
    /\ next_index \in [Entries -> Entries]
    /\ prev_index \in [Entries -> Entries]
    /\ indx_tbl_entry \in [Entries -> Entries]
    /\ idx_tbl_entry \in [Entries -> Entries]
    /\ idx_next_index \in [Entries -> Entries]
    /\ idx_prev_index \in [Entries -> Entries]
    /\ rule_id_array \in [Handles -> Entries]
    /\ pc \in PCs
    /\ arg \in Rules \cup {NoRule}
    /\ cursor \in Entries
    /\ new_entry \in Entries /\ new_prev \in Entries
    /\ new_index \in Entries /\ new_index_prev \in Entries
    /\ failures \in Nat

InUse(e) == enable[e]
Alive(e) == enable[e] /\ ~dead[e]

\* The base and expansion tables are doubly linked lists, one for each slot:
\* a used base entry is at the slot of its rule, a used expansion entry is the
\* successor of its predecessor in the list of its own slot, and the entries
\* that are not used link to nothing.  A dead head always has a chain.
ChainsLinked ==
    /\ \A e \in Entries : InUse(e) =>
        /\ e \in UsableExpn \cup (BaseEntries \ {0})
        /\ rule[e] \in Rules
        /\ e \in BaseEntries => prev_index[e] = 0 /\ e = dst_hash(rule[e])
        /\ e \in ExpnEntries =>
            /\ InUse(prev_index[e]) /\ next_index[prev_index[e]] = e
            /\ dst_hash(rule[prev_index[e]]) = dst_hash(rule[e])
        /\ next_index[e] # 0 =>
            /\ next_index[e] \in ExpnEntries
            /\ InUse(next_index[e]) /\ prev_index[next_index[e]] = e
        /\ dead[e] => e \in BaseEntries /\ next_index[e] # 0
    /\ \A e \in Entries : ~InUse(e) => next_index[e] = 0 /\ ~dead[e]

IndexUsed(i) == idx_tbl_entry[i] # 0

\* The index table is doubly linked in the same way by the source slots, and
\* it and the rules point at each other: every live rule has its own index
\* entry, and every used index entry stands for a live rule.
IndexLinked ==
    /\ \A i \in Entries : IndexUsed(i) =>
        /\ i \in UsableExpn \cup (BaseEntries \ {0})
        /\ Alive(idx_tbl_entry[i]) /\ indx_tbl_entry[idx_tbl_entry[i]] = i
        /\ i \in BaseEntries => i = src_hash(rule[idx_tbl_entry[i]])
        /\ i \in ExpnEntries =>
            /\ IndexUsed(idx_prev_index[i]) /\ idx_next_index[idx_prev_index[i]] = i
            /\ src_hash(rule[idx_tbl_entry[idx_prev_index[i]]]) = src_hash(rule[idx_tbl_entry[i]])
        /\ idx_next_index[i] # 0 =>
            /\ idx_next_index[i] \in ExpnEntries
            /\ IndexUsed(idx_next_index[i]) /\ idx_prev_index[idx_next_index[i]] = i
    /\ \A i \in Entries : ~IndexUsed(i) => idx_next_index[i] = 0
    /\ \A e \in Entries : Alive(e) => idx_tbl_entry[indx_tbl_entry[e]] = e

\* Both tables and the pointers between them are whole, through every step of
\* an add or a delete.
TablesLinked == ChainsLinked /\ IndexLinked

\* A handle stands for a live rule, and no two handles for the same one.
HandlesSound ==
    /\ \A h \in Handles : rule_id_array[h] # 0 => Alive(rule_id_array[h])
    /\ \A g, h \in Handles : rule_id_array[g] = rule_id_array[h] /\ g # h => rule_id_array[h] = 0

\* Every rule the hardware applies can still be deleted: it has a handle, and
\* parse_ipv4_rule_hdl, which refuses the largest index, accepts that handle.
EveryRuleHasHandle ==
    \A e \in Entries : Alive(e) => \E h \in Handles : rule_id_array[h] = e /\ Parses(h)

\* The entries the hardware visits from entry s on, following nxt.
Visited(s, nxt) ==
    LET walk[k \in 0..(table_entries + expn_table_entries)] ==
            IF k = 0 THEN s ELSE nxt[walk[k - 1]]
    IN {walk[k] : k \in 0..(table_entries + expn_table_entries)}

\* Both lookups find every live rule, from its destination slot and from its
\* source slot, and every walk ends.
RulesReachable ==
    /\ \A e \in Entries : Alive(e) =>
        /\ e \in Visited(dst_hash(rule[e]), next_index)
        /\ indx_tbl_entry[e] \in Visited(src_hash(rule[e]), idx_next_index)
    /\ \A e \in BaseEntries \ {0} : 0 \in Visited(e, next_index) /\ 0 \in Visited(e, idx_next_index)

\* Until a command of an add fails, the tables are whole through every step of
\* every call, both lookups find every live rule and every live rule can be
\* deleted; a handle stands for one live rule whatever fails.
TableSound ==
    /\ TypeOK
    /\ HandlesSound
    /\ failures = 0 => TablesLinked /\ RulesReachable /\ EveryRuleHasHandle

\* The linked tables implement a map from handles to rules.
Abstract == INSTANCE NatRules WITH
    held <- [h \in Handles |-> IF rule_id_array[h] = 0 THEN NoRule ELSE rule[rule_id_array[h]]]

ImplementsNatRules == Abstract!NSpec

\* A call that has begun ends: no walk goes round in a circle, unless a command
\* that failed has left one.
CallsEnd == pc # "idle" ~> pc = "idle" \/ failures > 0

\* Until a command fails, an add is refused only when an expansion table is full.
Refusal ==
    /\ failures = 0 /\ pc \in {"walk", "walk_index"} /\ pc' = "idle"
    => (FreeExpn = {} \/ FreeIndexExpn = {})

RefusedOnlyWhenFull == [][Refusal]_vars

\* Every add is answered, and refused only for want of room, as long as the
\* commands of the earlier ones were carried out.
AddsAnswered == CallsEnd /\ RefusedOnlyWhenFull
==============================================================================
