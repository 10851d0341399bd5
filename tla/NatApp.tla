------------------------------- MODULE NatApp -------------------------------
(***************************************************************************)
(* IPACM's NAT offload: IPACM_ConntrackListener (which connections may be  *)
(* offloaded, and when) over NatApp (the cache of NAT entries and the      *)
(* entries waiting for their client) over libipanat.                       *)
(*                                                                         *)
(* All handlers run on the one thread that drains the command queue, so a  *)
(* handler is one action.  libipanat is seen through what NatTable shows it *)
(* to implement (NatRules): a map from handles to rules.  It may refuse an *)
(* addition (AddMayFail) or a table (TableMayFail); it does not refuse a   *)
(* deletion.                                                               *)
(*                                                                         *)
(* A connection stands for its 5-tuple; the rule made for it also carries  *)
(* the private address, because the code sometimes rewrites it.            *)
(***************************************************************************)
EXTENDS Naturals, FiniteSets, Sequences

CONSTANTS
    Conns,          \* connections the kernel tracks
    TcpConns,       \* those whose events repeat and which close in two steps
    AlgConns,       \* those using a port of an application-level gateway
    src, dst,       \* private and target address of each connection
    Clients,        \* addresses of clients behind NAT interfaces
    NonNatClients,  \* addresses of clients behind other interfaces
    StaClients,     \* addresses of peers on the network joined in STA mode
    Wans,           \* public addresses
    PrivateSubnet,  \* addresses IPACM_Config::isPrivateSubnet accepts
    StaSubnet,      \* addresses in the subnet of the STA clients
    Handles,        \* rule handles of libipanat
    NoRule,         \* an empty slot
    max_entries, MAX_TEMP_ENTRIES, MAX_IFACE_ADDRESS,
    IPA_MAX_NUM_WIFI_CLIENTS, MAX_STA_CLNT_IFACES,
    AddMayFail, TableMayFail,
    HeapWans, HeapClients   \* what uninitialised members may hold

VARIABLES
    cache,          \* NatApp::cache
    temp,           \* NatApp::temp, connections waiting for their client
    curCnt,
    PwrSaveIfs,
    pub_ip_addr, pub_ip_addr_pre, nat_table_hdl,
    WanUp, wan_ipaddr, isStaMode,
    nat_iface_ipv4_addr, nonnat_iface_ipv4_addr,
    sta_clnt_ipv4_addr, StaClntCnt,
    held,           \* libipanat: the rule each handle stands for
    life,           \* kernel: "open", "fin" or "closed"
    power_save_set  \* IPACM_Wlan: clients in power save

natVars == <<cache, temp, curCnt, PwrSaveIfs, held>>
tableVars == <<pub_ip_addr, pub_ip_addr_pre, nat_table_hdl>>
wanVars == <<WanUp, wan_ipaddr, isStaMode>>
staVars == <<sta_clnt_ipv4_addr, StaClntCnt>>
ifaceVars == <<nat_iface_ipv4_addr, nonnat_iface_ipv4_addr, power_save_set>>
vars == <<natVars, tableVars, wanVars, staVars, ifaceVars, life>>

NoAddr == "0.0.0.0"
NoHandle == "no_handle"
Refused == "refused"

Addrs == Clients \cup NonNatClients \cup StaClients \cup Wans \cup {NoAddr}
Rules == [conn : Conns, private_ip : Addrs, public_ip : Wans \cup {NoAddr}]

Entries == [rule : Rules \cup {NoRule}, enabled : BOOLEAN,
            hdl : Handles \cup {NoHandle}]
Empty == [rule |-> NoRule, enabled |-> FALSE, hdl |-> NoHandle]

CacheSlots == 1..max_entries
TempSlots == 1..MAX_TEMP_ENTRIES
IfaceSlots == 1..MAX_IFACE_ADDRESS
PwrSlots == 1..IPA_MAX_NUM_WIFI_CLIENTS
StaSlots == 1..MAX_STA_CLNT_IFACES

ASSUME NatAppAssumption ==
    /\ max_entries \in Nat /\ MAX_TEMP_ENTRIES \in Nat
    /\ MAX_IFACE_ADDRESS \in Nat /\ IPA_MAX_NUM_WIFI_CLIENTS \in Nat
    /\ MAX_STA_CLNT_IFACES \in Nat
    /\ TcpConns \subseteq Conns /\ AlgConns \subseteq Conns
    /\ src \in [Conns -> Addrs \ {NoAddr}]
    /\ DOMAIN dst = Conns
    /\ NoRule \notin Rules
    /\ Cardinality(Handles) >= max_entries
    /\ AddMayFail \in BOOLEAN /\ TableMayFail \in BOOLEAN
    /\ HeapWans \subseteq Wans /\ HeapClients \subseteq Clients
    /\ NoHandle \notin Handles /\ Refused \notin Handles

\* An address belongs to one kind of host, the NAT interfaces' subnets are the private
\* subnets of the configuration, and the kernel does not translate a connection
\* between two interfaces of the device, so that no message of one is looked at.
ASSUME AddressAssumption ==
    /\ NoAddr \notin Clients \cup NonNatClients \cup StaClients \cup Wans
    /\ Clients \subseteq PrivateSubnet
    /\ Clients \cap (NonNatClients \cup Wans) = {}
    /\ \A c \in Conns : src[c] \in Clients => dst[c] \notin NonNatClients

-----------------------------------------------------------------------------
(* Searching the arrays *)

First(S) == CHOOSE k \in S : \A j \in S : k <= j

Holding(array, a) == {k \in DOMAIN array : array[k] = a}

\* the address is stored somewhere in the array (0 never counts)
Listed(array, a) == a # NoAddr /\ Holding(array, a) # {}

\* the five fields every search compares: two connections never share them
SameTuple(r, q) == r.conn = q.conn /\ r.private_ip = q.private_ip

SlotsOf(array, r) ==
    {k \in DOMAIN array : array[k] # NoRule /\ SameTuple(array[k], r)}

cacheRules(ca) == [k \in CacheSlots |-> ca[k].rule]

ChkForDup(ca, r) == SlotsOf(cacheRules(ca), r) # {}

FreeSlots(ca) == {k \in CacheSlots : ca[k].rule = NoRule}

isAlgPort(r) == r.conn \in AlgConns

isPwrSaveIf(st, a) == Listed(st.pwr, a)

-----------------------------------------------------------------------------
(* libipanat: an addition answers with a free handle or refuses *)

FreeHandles(he) == {h \in Handles : he[h] = NoRule}

Answers(he, table) ==
    IF table = 0 THEN {Refused}
    ELSE FreeHandles(he) \cup (IF AddMayFail THEN {Refused} ELSE {})

\* answers to the additions a loop makes for the slots S: no handle twice
Batch(S, answers) ==
    {lib \in [S -> answers] :
        \A i, j \in S : i # j /\ lib[i] = lib[j] => lib[i] = Refused}

-----------------------------------------------------------------------------
(* NatApp.  An operator takes and returns the parts of NatApp's state that *)
(* its handler changes, as a record.                                       *)

State == [cache |-> cache, temp |-> temp, cnt |-> curCnt,
          pwr |-> PwrSaveIfs, held |-> held]

Become(st) == /\ cache' = st.cache
              /\ temp' = st.temp
              /\ curCnt' = st.cnt
              /\ PwrSaveIfs' = st.pwr
              /\ held' = st.held

\* the rule cannot be stored: one of its five fields is zero
Invalid(r) == r.private_ip = NoAddr

Store(st, r, enabled, h) ==
    LET k == First(FreeSlots(st.cache)) IN
    [st EXCEPT !.cache[k] = [rule |-> r, enabled |-> enabled, hdl |-> h],
               !.cnt = @ + 1]

InPowerSave(st, r) ==
    isPwrSaveIf(st, r.private_ip) \/ isPwrSaveIf(st, dst[r.conn])

\* AddEntry refuses: no table, a gateway's port, a duplicate, a full cache or
\* (lib) the library; the caller sees a non-zero result
AddEntryFails(st, r, lib) ==
    \/ nat_table_hdl = 0
    \/ isAlgPort(r)
    \/ ~Invalid(r) /\ (ChkForDup(st.cache, r) \/ FreeSlots(st.cache) = {})
    \/ ~Invalid(r) /\ ~InPowerSave(st, r) /\ lib = Refused

AddEntry(st, r, lib) ==
    IF AddEntryFails(st, r, lib) \/ Invalid(r) THEN st
    ELSE IF InPowerSave(st, r)
    THEN Store(st, r, FALSE, NoHandle)
    ELSE [Store(st, r, TRUE, lib) EXCEPT !.held[lib] = r]

CacheEntry(st, r) ==
    IF Invalid(r) \/ ChkForDup(st.cache, r) \/ FreeSlots(st.cache) = {}
    THEN st
    ELSE Store(st, r, FALSE, NoHandle)

\* the library's table without the handles of the enabled entries in S
Without(he, ca, S) ==
    [h \in Handles |->
        IF \E k \in S : ca[k].enabled /\ ca[k].hdl = h THEN NoRule ELSE he[h]]

Wipe(st, S) ==
    [st EXCEPT !.cache = [k \in CacheSlots |->
                              IF k \in S THEN Empty ELSE st.cache[k]],
               !.cnt = @ - Cardinality(S),
               !.held = Without(st.held, st.cache, S)]

\* DeleteEntry stops at the first match
DeleteEntry(st, r) ==
    LET S == SlotsOf(cacheRules(st.cache), r) IN
    IF S = {} THEN st ELSE Wipe(st, {First(S)})

AddTempEntry(st, r) ==
    LET room == Holding(st.temp, NoRule) IN
    IF isAlgPort(r) \/ ChkForDup(st.cache, r) \/ SlotsOf(st.temp, r) # {}
          \/ room = {}
    THEN st
    ELSE [st EXCEPT !.temp[First(room)] = r]

DeleteTempEntry(st, r) ==
    LET S == SlotsOf(st.temp, r) IN
    IF S = {} THEN st ELSE [st EXCEPT !.temp[First(S)] = NoRule]

\* on an interface without NAT the public address replaces the private one
Dummy(r) == [r EXCEPT !.private_ip = r.public_ip]

\* the temp slots that mention the address
Waiting(st, a) ==
    {k \in TempSlots : /\ st.temp[k] # NoRule
                       /\ a \in {st.temp[k].private_ip, dst[st.temp[k].conn]}}

\* one turn of FlushTempEntries' loop; a refused entry stays, rewritten
FlushSlot(st, k, isAdd, isDummy, lib) ==
    LET t == st.temp[k]
        r == IF isDummy THEN Dummy(t) ELSE t
    IN  IF ~isAdd \/ t.public_ip # pub_ip_addr
        THEN [st EXCEPT !.temp[k] = NoRule]
        ELSE IF AddEntryFails(st, r, lib) THEN [st EXCEPT !.temp[k] = r]
        ELSE [AddEntry(st, r, lib) EXCEPT !.temp[k] = NoRule]

FlushTempEntries(st, a, isAdd, isDummy, lib) ==
    LET after[k \in 0..MAX_TEMP_ENTRIES] ==
            IF k = 0 THEN st
            ELSE IF k \in Waiting(st, a)
                 THEN FlushSlot(after[k-1], k, isAdd, isDummy, lib[k])
                 ELSE after[k-1]
    IN  after[MAX_TEMP_ENTRIES]

AddTempEntries(st, a, isDummy) ==
    {FlushTempEntries(st, a, TRUE, isDummy, lib) :
        lib \in Batch(Waiting(st, a), Answers(st.held, nat_table_hdl))}

DropTempEntries(st, a) ==
    FlushTempEntries(st, a, FALSE, FALSE, [k \in TempSlots |-> Refused])

\* the rules of the entries in S go back to the library; a refused one is
\* dropped from the cache
Reinstall(st, S, lib) ==
    LET lost == {k \in S : lib[k] = Refused}
        kept == S \ lost
    IN  [st EXCEPT
            !.cache = [k \in CacheSlots |->
                 IF k \in lost THEN Empty
                 ELSE IF k \in kept
                      THEN [st.cache[k] EXCEPT !.enabled = TRUE, !.hdl = lib[k]]
                      ELSE st.cache[k]],
            !.cnt = @ - Cardinality(lost),
            !.held = [h \in Handles |->
                 IF \E k \in kept : lib[k] = h
                 THEN st.cache[CHOOSE k \in kept : lib[k] = h].rule
                 ELSE st.held[h]]]

\* the entries in S leave the library and stay in the cache
Disable(st, S) ==
    [st EXCEPT !.cache = [k \in CacheSlots |->
                              [st.cache[k] EXCEPT !.enabled = @ /\ k \notin S]],
               !.held = Without(st.held, st.cache, S)]

EntriesOf(st, a) ==
    {k \in CacheSlots : /\ st.cache[k].rule # NoRule
                        /\ st.cache[k].rule.private_ip = a}

DisabledOf(st, a) == {k \in EntriesOf(st, a) : ~st.cache[k].enabled}

\* PwrSaveIfs without its first occurrence of a
Awaken(st, a) ==
    IF Holding(st.pwr, a) = {} THEN st
    ELSE [st EXCEPT !.pwr[First(Holding(st.pwr, a))] = NoAddr]

\* a full PwrSaveIfs does not record the address
UpdatePwrSaveIf(st, a) ==
    LET room == Holding(st.pwr, NoAddr)
        noted == IF room = {} THEN st ELSE [st EXCEPT !.pwr[First(room)] = a]
    IN  IF Holding(st.pwr, a) # {} THEN st ELSE Disable(noted, EntriesOf(st, a))

ResetPwrSaveIf(st, a) ==
    {Reinstall(Awaken(st, a), DisabledOf(st, a), lib) :
        lib \in Batch(DisabledOf(st, a), Answers(st.held, nat_table_hdl))}

DelEntriesOnClntDiscon(st, a) == Disable(Awaken(st, a), EntriesOf(st, a))

\* mutant: the entries are wiped and their rules left in the hardware
DelEntriesOnSTAClntOrphans(st, a) ==
    LET S == {k \in CacheSlots : /\ st.cache[k].rule # NoRule
                                 /\ dst[st.cache[k].rule.conn] = a}
    IN  [Wipe(st, S) EXCEPT !.held = st.held]

DelEntriesOnSTAClntDiscon(st, a) ==
    Wipe(st, {k \in CacheSlots : /\ st.cache[k].rule # NoRule
                                 /\ dst[st.cache[k].rule.conn] = a})

-----------------------------------------------------------------------------
(* The table *)

Reset(st) ==
    [st EXCEPT !.cache = [k \in CacheSlots |->
                              [st.cache[k] EXCEPT !.enabled = FALSE]],
               !.held = [h \in Handles |-> NoRule]]

CanDeleteTable(pub_ip) == nat_table_hdl # 0 /\ pub_ip_addr = pub_ip

\* every cached entry is restored when the public address is the last one
AddTable(st, pub_ip, pre) ==
    LET S == IF pub_ip # pre THEN {}
             ELSE {k \in CacheSlots : st.cache[k].rule # NoRule}
    IN  {Reinstall(st, S, lib) : lib \in Batch(S, Answers(st.held, 1))}

-----------------------------------------------------------------------------
(* The listener's handlers *)

Init ==
    /\ cache = [k \in CacheSlots |-> Empty]
    /\ temp = [k \in TempSlots |-> NoRule]
    /\ curCnt = 0
    /\ pub_ip_addr = NoAddr
    /\ nat_table_hdl = 0
    /\ WanUp = FALSE
    /\ nat_iface_ipv4_addr = [k \in IfaceSlots |-> NoAddr]
    /\ nonnat_iface_ipv4_addr = [k \in IfaceSlots |-> NoAddr]
    /\ sta_clnt_ipv4_addr = [k \in StaSlots |-> NoAddr]
    /\ StaClntCnt = 0
    /\ held = [h \in Handles |-> NoRule]
    /\ life = [c \in Conns |-> "closed"]
    /\ power_save_set = {}
    \* the constructors leave these as the heap had them
    /\ PwrSaveIfs \in [PwrSlots -> HeapClients \cup {NoAddr}]
    /\ pub_ip_addr_pre \in HeapWans \cup {NoAddr}
    /\ wan_ipaddr \in HeapWans \cup {NoAddr}
    /\ isStaMode \in BOOLEAN

\* a WAN interface got an address: the old table goes, the new one comes, or
\* the library refuses it and the handle is zero
TriggerWANUp(a, is_sta) ==
    LET down == WanUp /\ CanDeleteTable(wan_ipaddr)
        st == IF down THEN Reset(State) ELSE State
        pre == IF down THEN pub_ip_addr ELSE pub_ip_addr_pre
    IN  /\ ~(WanUp /\ wan_ipaddr = a)
        /\ WanUp' = TRUE
        /\ isStaMode' = is_sta
        /\ wan_ipaddr' = a
        /\ pub_ip_addr_pre' = pre
        /\ \/ /\ \E new \in AddTable(st, a, pre) : Become(new)
              /\ nat_table_hdl' = 1
              /\ pub_ip_addr' = a
           \/ /\ TableMayFail
              /\ Become(st)
              /\ nat_table_hdl' = 0
              /\ pub_ip_addr' = IF down THEN NoAddr ELSE pub_ip_addr
        /\ UNCHANGED <<staVars, ifaceVars, life>>

\* mutant: DeleteTable's refusal is not looked at
TriggerWANDownUnchecked(a) ==
    LET ok == CanDeleteTable(a) IN
    /\ WanUp
    /\ Become(IF ok THEN Reset(State) ELSE State)
    /\ pub_ip_addr_pre' = IF ok THEN pub_ip_addr ELSE pub_ip_addr_pre
    /\ nat_table_hdl' = IF ok THEN 0 ELSE nat_table_hdl
    /\ pub_ip_addr' = IF ok THEN NoAddr ELSE pub_ip_addr
    /\ WanUp' = FALSE
    /\ wan_ipaddr' = NoAddr
    /\ UNCHANGED <<isStaMode, staVars, ifaceVars, life>>

\* a WAN interface lost its address
TriggerWANDown(a) ==
    /\ WanUp
    /\ CanDeleteTable(a)
    /\ Become(Reset(State))
    /\ pub_ip_addr_pre' = pub_ip_addr
    /\ nat_table_hdl' = 0
    /\ pub_ip_addr' = NoAddr
    /\ WanUp' = FALSE
    /\ wan_ipaddr' = NoAddr
    /\ UNCHANGED <<isStaMode, staVars, ifaceVars, life>>

\* where the address is stored, or would be
NatSlots(a) ==
    Holding(nat_iface_ipv4_addr, a) \cup Holding(nat_iface_ipv4_addr, NoAddr)

\* a client behind a NAT interface got its route rules
HandleNeighIpAddrAddEvt(a) ==
    /\ NatSlots(a) # {}
    /\ nat_iface_ipv4_addr' =
           [nat_iface_ipv4_addr EXCEPT ![First(NatSlots(a))] = a]
    /\ \E st \in ResetPwrSaveIf(State, a) :
          \E new \in AddTempEntries(st, a, FALSE) : Become(new)
    /\ UNCHANGED <<tableVars, wanVars, staVars, nonnat_iface_ipv4_addr,
                   power_save_set, life>>

\* the client left
HandleNeighIpAddrDelEvt(a) ==
    /\ Listed(nat_iface_ipv4_addr, a)
    /\ nat_iface_ipv4_addr' = [k \in IfaceSlots |->
           IF nat_iface_ipv4_addr[k] = a THEN NoAddr ELSE nat_iface_ipv4_addr[k]]
    /\ Become(DelEntriesOnClntDiscon(DropTempEntries(State, a), a))
    /\ power_save_set' = power_save_set \ {a}
    /\ UNCHANGED <<tableVars, wanVars, staVars, nonnat_iface_ipv4_addr, life>>

\* a client behind another interface appeared: its rules become dummies
HandleNonNatIPAddrAdd(a) ==
    LET room == Holding(nonnat_iface_ipv4_addr, NoAddr) IN
    /\ ~isStaMode
    /\ room # {}
    /\ nonnat_iface_ipv4_addr' = [nonnat_iface_ipv4_addr EXCEPT ![First(room)] = a]
    /\ \E new \in AddTempEntries(State, a, TRUE) : Become(new)
    /\ UNCHANGED <<tableVars, wanVars, staVars, nat_iface_ipv4_addr,
                   power_save_set, life>>

\* it left: one occurrence of the address is forgotten
HandleNonNatIPAddrDel(a) ==
    LET S == Holding(nonnat_iface_ipv4_addr, a) IN
    /\ ~isStaMode
    /\ S # {}
    /\ nonnat_iface_ipv4_addr' = [nonnat_iface_ipv4_addr EXCEPT ![First(S)] = NoAddr]
    /\ Become(DelEntriesOnClntDiscon(DropTempEntries(State, a), a))
    /\ UNCHANGED <<tableVars, wanVars, staVars, nat_iface_ipv4_addr,
                   power_save_set, life>>

\* IPACM_Wlan: a client with an address goes to power save, and back
WlanClientPwrSave(a) ==
    /\ Listed(nat_iface_ipv4_addr, a)
    /\ a \notin power_save_set
    /\ power_save_set' = power_save_set \cup {a}
    /\ Become(UpdatePwrSaveIf(State, a))
    /\ UNCHANGED <<tableVars, wanVars, staVars, nat_iface_ipv4_addr,
                   nonnat_iface_ipv4_addr, life>>

WlanClientRecover(a) ==
    /\ a \in power_save_set
    /\ power_save_set' = power_save_set \ {a}
    /\ \E new \in ResetPwrSaveIf(State, a) : Become(new)
    /\ UNCHANGED <<tableVars, wanVars, staVars, nat_iface_ipv4_addr,
                   nonnat_iface_ipv4_addr, life>>

StaSlotsFor(a) ==
    Holding(sta_clnt_ipv4_addr, a) \cup Holding(sta_clnt_ipv4_addr, NoAddr)

\* a peer appeared on the network joined in STA mode: stored unless known
HandleSTAClientAddEvt(a) ==
    LET k == First(StaSlotsFor(a))
        isNew == StaSlotsFor(a) # {} /\ sta_clnt_ipv4_addr[k] = NoAddr
    IN  /\ StaClntCnt < MAX_STA_CLNT_IFACES
        /\ sta_clnt_ipv4_addr' =
              IF isNew THEN [sta_clnt_ipv4_addr EXCEPT ![k] = a]
              ELSE sta_clnt_ipv4_addr
        /\ StaClntCnt' = IF isNew THEN StaClntCnt + 1 ELSE StaClntCnt
        /\ \E new \in AddTempEntries(State, a, FALSE) : Become(new)
        /\ UNCHANGED <<tableVars, wanVars, ifaceVars, life>>

HandleSTAClientDelEvt(a) ==
    LET S == Holding(sta_clnt_ipv4_addr, a) IN
    /\ sta_clnt_ipv4_addr' = IF S = {} THEN sta_clnt_ipv4_addr
           ELSE [sta_clnt_ipv4_addr EXCEPT ![First(S)] = NoAddr]
    /\ StaClntCnt' = IF S = {} THEN StaClntCnt ELSE StaClntCnt - 1
    /\ Become(DropTempEntries(IF S = {} THEN State
                              ELSE DelEntriesOnSTAClntDiscon(State, a), a))
    /\ UNCHANGED <<tableVars, wanVars, ifaceVars, life>>

-----------------------------------------------------------------------------
(* Conntrack messages: from a connection to a rule *)

OnIface(array, r) == Listed(array, r.private_ip) \/ Listed(array, dst[r.conn])

OnNatIface(r) == OnIface(nat_iface_ipv4_addr, r)

OnNonNatIface(r) == ~isStaMode /\ OnIface(nonnat_iface_ipv4_addr, r)

\* AddIface accepts the connection; it is temporary on neither interface
AddIface(r) == \/ OnNatIface(r)
               \/ OnNonNatIface(r)
               \/ {r.private_ip, dst[r.conn]} \cap PrivateSubnet # {}

IfaceRule(r) == IF ~OnNatIface(r) /\ OnNonNatIface(r) THEN Dummy(r) ELSE r

\* the target is in the subnet of the first STA client and the first
\* StaClntCnt addresses do not hold it
CheckSTAClient(r) ==
    /\ isStaMode /\ StaClntCnt # 0
    /\ sta_clnt_ipv4_addr[1] \in StaSubnet
    /\ dst[r.conn] \in StaSubnet
    /\ \A k \in 1..StaClntCnt : sta_clnt_ipv4_addr[k] # dst[r.conn]

\* the device's own connections carry no NAT status
NoNatStatus(c) == src[c] \in Wans

PopulateTCPorUDPEntry(c) ==
    [conn |-> c, private_ip |-> src[c], public_ip |-> wan_ipaddr]

\* of the connections without NAT status only those of the current WAN address
\* count, and in STA mode not even those; the others must pass AddIface
Ignored(c) ==
    IF src[c] = wan_ipaddr THEN isStaMode
    ELSE NoNatStatus(c) \/ ~AddIface(PopulateTCPorUDPEntry(c))

RuleOf(c) ==
    LET r == PopulateTCPorUDPEntry(c) IN
    IF src[c] = wan_ipaddr THEN r ELSE IfaceRule(r)

IsTempEntry(c) ==
    LET r == PopulateTCPorUDPEntry(c) IN
    \/ src[c] # wan_ipaddr /\ ~OnNatIface(r) /\ ~OnNonNatIface(r)
    \/ CheckSTAClient(r)

\* the message of an open connection: UDP NEW, TCP ESTABLISHED
AddNatEntry(c) ==
    IF Ignored(c) THEN {State}
    ELSE IF ~WanUp THEN {CacheEntry(State, RuleOf(c))}
    ELSE IF IsTempEntry(c) THEN {AddTempEntry(State, RuleOf(c))}
    ELSE {AddEntry(State, RuleOf(c), lib) :
              lib \in Answers(held, nat_table_hdl)}

\* the message of a closing one: TCP FIN_WAIT, DESTROY
DeleteNatEntry(c) ==
    IF Ignored(c) THEN State
    ELSE DeleteTempEntry(DeleteEntry(State, RuleOf(c)), RuleOf(c))

\* a TCP connection may be reported established more than once
ConnOpen(c) ==
    /\ life[c] = "closed" \/ (life[c] = "open" /\ c \in TcpConns)
    /\ life' = [life EXCEPT ![c] = "open"]
    /\ \E new \in AddNatEntry(c) : Become(new)
    /\ UNCHANGED <<tableVars, wanVars, staVars, ifaceVars>>

ConnFin(c) ==
    /\ life[c] = "open" /\ c \in TcpConns
    /\ life' = [life EXCEPT ![c] = "fin"]
    /\ Become(DeleteNatEntry(c))
    /\ UNCHANGED <<tableVars, wanVars, staVars, ifaceVars>>

ConnDestroy(c) ==
    /\ life[c] # "closed"
    /\ life' = [life EXCEPT ![c] = "closed"]
    /\ Become(DeleteNatEntry(c))
    /\ UNCHANGED <<tableVars, wanVars, staVars, ifaceVars>>

Next ==
    \/ \E a \in Wans, is_sta \in BOOLEAN : TriggerWANUp(a, is_sta)
    \/ \E a \in Wans : TriggerWANDown(a)
    \/ \E a \in Clients : \/ HandleNeighIpAddrAddEvt(a)
                          \/ HandleNeighIpAddrDelEvt(a)
                          \/ WlanClientPwrSave(a)
                          \/ WlanClientRecover(a)
    \/ \E a \in NonNatClients : \/ HandleNonNatIPAddrAdd(a)
                                \/ HandleNonNatIPAddrDel(a)
    \/ \E a \in StaClients : \/ HandleSTAClientAddEvt(a)
                             \/ HandleSTAClientDelEvt(a)
    \/ \E c \in Conns : ConnOpen(c) \/ ConnFin(c) \/ ConnDestroy(c)

Spec == Init /\ [][Next]_vars

-----------------------------------------------------------------------------
(* Properties *)

\* Type invariant of NatApp and the listener.
TypeOK ==
    /\ cache \in [CacheSlots -> Entries]
    /\ temp \in [TempSlots -> Rules \cup {NoRule}]
    /\ curCnt \in 0..max_entries
    /\ PwrSaveIfs \in [PwrSlots -> Clients \cup {NoAddr}]
    /\ {pub_ip_addr, pub_ip_addr_pre, wan_ipaddr} \subseteq Wans \cup {NoAddr}
    /\ nat_table_hdl \in {0, 1}
    /\ {WanUp, isStaMode} \subseteq BOOLEAN
    /\ nat_iface_ipv4_addr \in [IfaceSlots -> Clients \cup {NoAddr}]
    /\ nonnat_iface_ipv4_addr \in [IfaceSlots -> NonNatClients \cup {NoAddr}]
    /\ sta_clnt_ipv4_addr \in [StaSlots -> StaClients \cup {NoAddr}]
    /\ StaClntCnt \in 0..MAX_STA_CLNT_IFACES
    /\ held \in [Handles -> Rules \cup {NoRule}]
    /\ life \in [Conns -> {"open", "fin", "closed"}]
    /\ power_save_set \subseteq Clients

\* The hardware table holds exactly the rules of the enabled cache entries, each
\* under the handle its entry remembers: no rule is orphaned when a client
\* leaves, sleeps, or the table is rebuilt, and no entry claims a rule the
\* hardware does not have.
HardwareExact ==
    \A h \in Handles :
        LET S == {k \in CacheSlots : cache[k].enabled /\ cache[k].hdl = h} IN
        IF held[h] = NoRule THEN S = {}
        ELSE \E k \in S : S = {k} /\ SameTuple(cache[k].rule, held[h])

\* curCnt counts the entries in use, through every path that adds, wipes or
\* drops one.
CountExact == curCnt = max_entries - Cardinality(FreeSlots(cache))

\* ChkForDup and the two ways in (cache while the WAN is down, wait for the
\* client) never let two entries for one 5-tuple into the cache.
NoDuplicateEntry ==
    \A i, j \in CacheSlots :
        cache[i].rule # NoRule /\ cache[j].rule # NoRule
            /\ SameTuple(cache[i].rule, cache[j].rule) => i = j

\* The hardware has a NAT table only while the listener believes the WAN is up,
\* and then for the address it believes in: a late WAN_DOWN of the previous
\* address does not make it forget the table of the next.
TableFollowsWan == nat_table_hdl # 0 => WanUp /\ pub_ip_addr = wan_ipaddr

\* "Not reset the cache wait it timeout by destroy event": once a connection of a
\* NAT client is destroyed nothing of it is left, so that AddTable never restores a
\* dead one.  (One of a client that is recognised as not behind the NAT only after
\* its connection was cached stays: its end is ignored.)
ClosedForgotten ==
    \A c \in Conns : life[c] = "closed" /\ src[c] \in Clients =>
        /\ \A k \in CacheSlots : cache[k].rule # NoRule => cache[k].rule.conn # c
        /\ \A k \in TempSlots : temp[k] # NoRule => temp[k].conn # c

\* The cache is sound: it and the hardware agree, its count is right, no connection
\* is in it twice, and none that is over.
CacheSound == TypeOK /\ HardwareExact /\ CountExact /\ NoDuplicateEntry /\ ClosedForgotten
=============================================================================
