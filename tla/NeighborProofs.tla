---------------------------- MODULE NeighborProofs ----------------------------
(***************************************************************************)
(* The neighbour cache and the clients of the interfaces, for any clients, *)
(* ports and addresses, any size of the cache and any number of changes:   *)
(* the cache has a client once, and once everything reported has been      *)
(* handled no interface keeps rules for a client that went, and the one a  *)
(* client is behind has its IPv4 address.                                  *)
(***************************************************************************)
EXTENDS Neighbor, SequenceTheorems, FiniteSetTheorems, TLAPS

Devs == Ports \cup {Bridge}
Addrs == V4 \cup V6

Messages == [type : {"RTM_NEWNEIGH", "RTM_DELNEIGH"}, dev : Devs, mac : Macs, addr : Addrs \cup {ZERO}]

EventTuples == [event : {"CLIENT_ADD_EX", "CLIENT_DEL", "NEW_NEIGH", "DEL_NEIGH", "ADDR_ADD", "ADDR_DEL"},
                iface : Devs, name : Devs \cup {NO_NAME}, mac : Macs, addr : Addrs \cup {ZERO}]

\* What each thread fills in of an event.
EventOK(e) ==
    /\ e.event \in {"CLIENT_ADD_EX", "CLIENT_DEL"} => e.iface \in WlanPorts /\ e.name = NO_NAME /\ e.addr = ZERO
    /\ e.event = "NEW_NEIGH" => e.iface \in WlanPorts \/ e.name = e.iface
    /\ e.event = "DEL_NEIGH" => e.name = NO_NAME
    /\ e.event \in {"ADDR_ADD", "ADDR_DEL"} => e.name = NO_NAME /\ e.addr \in Addrs \ LinkLocal

Events == {e \in EventTuples : EventOK(e)}

\* What the driver thread makes of an association.
Associations == {e \in Events : /\ e.event \in {"CLIENT_ADD_EX", "CLIENT_DEL", "NEW_NEIGH"}
                                /\ e.iface \in WlanPorts /\ e.name = NO_NAME}

\* Without a bridge every message is about an address on a port.
PlainMessages == {n \in Messages : n.dev \in Ports /\ n.addr \in Addrs}
PlainEvents ==
    {e \in Events : /\ e.name # Bridge
                    /\ e.event \in {"NEW_NEIGH", "DEL_NEIGH"} /\ e.iface \in LanPorts => e.addr \in Addrs}

Entries == [mac : Macs, iface : Devs, ipa_if_num : Devs, v4 : (V4 \ LinkLocal) \cup {NONE}]

CacheOK(c) ==
    /\ c \in [neighbor_client : Seq(Entries), circular_index : 1..IPA_MAX_NUM_NEIGHBOR_CLIENTS]
    /\ Len(c.neighbor_client) <= IPA_MAX_NUM_NEIGHBOR_CLIENTS
    /\ \A i, j \in Slots(c) : c.neighbor_client[i].mac = c.neighbor_client[j].mac => i = j

WorldOK ==
    /\ world \in [bridged : BOOLEAN, changes : Nat, port : [Macs -> Ports \cup {NONE}],
                  fdb : [Macs -> Ports \cup {NONE}], arp : SUBSET (Devs \X Macs \X Addrs)]
    /\ ~world.bridged => world.arp \subseteq Ports \X Macs \X Addrs /\ \A m \in Macs : world.fdb[m] = NONE

NeighborTypeOK ==
    /\ WorldOK
    /\ nl \in Seq(Messages) /\ (~world.bridged => nl \in Seq(PlainMessages))
    /\ drv \in Seq(Associations)
    /\ queue \in Seq(Events) /\ (~world.bridged => queue \in Seq(PlainEvents))
    /\ CacheOK(cache)
    /\ clients \subseteq WlanPorts \X Macs
    /\ told \subseteq Devs \X Macs \X (Addrs \ LinkLocal)
    /\ \A t \in told : t[1] \in LanPorts \/ <<t[1], t[2]>> \in clients

(* What waits in a queue *)

Has(s, b) == \E j \in 1..Len(s) : s[j] = b

\* Every a of s has a b behind it.
Followed(s, a, b) == \A i \in 1..Len(s) : s[i] = a => \E j \in (i + 1)..Len(s) : s[j] = b

(* The inductive invariant *)

\* An association that is over, of m with the port p: whatever still tells of it
\* has its end behind it.
AssociationEnds(p, m) ==
    LET add == Event("CLIENT_ADD_EX", p, NO_NAME, m, ZERO)
        del == Event("CLIENT_DEL", p, NO_NAME, m, ZERO)
    IN /\ Followed(drv, add, del)
       /\ Followed(queue, add, del) \/ Has(drv, del)
       /\ <<p, m>> \in clients => Has(queue, del) \/ Has(drv, del)

\* An address a of m that the kernel no longer knows on the wired port p: whatever
\* still tells of it has its end behind it, as the netlink message, the neighbour
\* event or the address event that the two become.
AddressEnds(p, m, a) ==
    LET gone == Has(nl, Message("RTM_DELNEIGH", p, m, a))
        del == Event("DEL_NEIGH", p, NO_NAME, m, a)
    IN /\ Followed(nl, Message("RTM_NEWNEIGH", p, m, a), Message("RTM_DELNEIGH", p, m, a))
       /\ Followed(queue, Event("NEW_NEIGH", p, p, m, a), del) \/ gone
       /\ Followed(queue, ADDR_ADD(p, m, a), ADDR_DEL(p, m, a)) \/ Has(queue, del) \/ gone
       /\ <<p, m, a>> \in told => Has(queue, ADDR_DEL(p, m, a)) \/ Has(queue, del) \/ gone

GhostInv ==
    /\ \A p \in WlanPorts, m \in Macs : world.port[m] # p => AssociationEnds(p, m)
    /\ ~world.bridged =>
          \A p \in LanPorts, m \in Macs, a \in Addrs \ LinkLocal :
             <<p, m, a>> \notin world.arp => AddressEnds(p, m, a)

NeighborInv == NeighborTypeOK /\ GhostInv

(* Queues that grow and shrink *)

LEMMA Joined ==
    ASSUME NEW S, NEW s \in Seq(S), NEW e \in S
    PROVE  /\ Append(s, e) \in Seq(S) /\ Len(Append(s, e)) = Len(s) + 1 /\ Append(s, e)[Len(s) + 1] = e
           /\ \A i \in 1..Len(s) : Append(s, e)[i] = s[i]
           /\ Len(s) \in Nat
    OBVIOUS

LEMMA Left ==
    ASSUME NEW S, NEW s \in Seq(S), s # << >>
    PROVE  /\ Tail(s) \in Seq(S) /\ Len(Tail(s)) = Len(s) - 1 /\ Head(s) = s[1] /\ Head(s) \in S
           /\ \A i \in 1..Len(Tail(s)) : Tail(s)[i] = s[i + 1]
           /\ Len(s) \in Nat \ {0}
    OBVIOUS

LEMMA HasJoined ==
    ASSUME NEW S, NEW s \in Seq(S), NEW e \in S, NEW b
    PROVE  Has(Append(s, e), b) <=> Has(s, b) \/ e = b
<1> DEFINE u == Append(s, e)
<1>1. /\ Len(u) = Len(s) + 1 /\ u[Len(s) + 1] = e /\ \A i \in 1..Len(s) : u[i] = s[i]
      /\ Len(s) \in Nat
    BY Joined
<1> HIDE DEF u
<1>2. Has(u, b) <=> Has(s, b) \/ e = b
    BY <1>1 DEF Has
<1> QED
    BY <1>2 DEF u

LEMMA HasLeft ==
    ASSUME NEW S, NEW s \in Seq(S), s # << >>, NEW b
    PROVE  Has(s, b) <=> Head(s) = b \/ Has(Tail(s), b)
<1> DEFINE u == Tail(s)
           d == Head(s)
<1>1. /\ Len(u) = Len(s) - 1 /\ d = s[1] /\ \A i \in 1..Len(u) : u[i] = s[i + 1]
      /\ Len(s) \in Nat \ {0}
    BY Left
<1> HIDE DEF u, d
<1>2. ASSUME Has(s, b)
      PROVE  d = b \/ Has(u, b)
  <2>1. PICK j \in 1..Len(s) : s[j] = b
      BY <1>2 DEF Has
  <2>2. j = 1 \/ (j - 1 \in 1..Len(u) /\ u[j - 1] = s[j])
      BY <1>1
  <2> QED
      BY <1>1, <2>1, <2>2 DEF Has
<1>3. ASSUME Has(u, b)
      PROVE  Has(s, b)
  <2>1. PICK j \in 1..Len(u) : u[j] = b
      BY <1>3 DEF Has
  <2>2. j + 1 \in 1..Len(s) /\ s[j + 1] = u[j]
      BY <1>1
  <2> QED
      BY <2>1, <2>2 DEF Has
<1>4. d = b => Has(s, b)
  <2>1. 1 \in 1..Len(s)
      BY <1>1
  <2> QED
      BY <1>1, <2>1 DEF Has
<1> QED
    BY <1>2, <1>3, <1>4 DEF u, d

LEMMA FollowedJoined ==
    ASSUME NEW S, NEW s \in Seq(S), NEW e \in S, NEW a, NEW b, a # b
    PROVE  /\ Followed(s, a, b) /\ e # a => Followed(Append(s, e), a, b)
           /\ Followed(Append(s, b), a, b) \/ b \notin S
<1> DEFINE u == Append(s, e)
           v == Append(s, b)
<1>1. /\ Len(u) = Len(s) + 1 /\ u[Len(s) + 1] = e /\ \A i \in 1..Len(s) : u[i] = s[i]
      /\ Len(s) \in Nat
    BY Joined
<1>2. b \in S => /\ Len(v) = Len(s) + 1 /\ v[Len(s) + 1] = b
                 /\ \A i \in 1..Len(s) : v[i] = s[i]
    BY Joined
<1> HIDE DEF u, v
<1>3. ASSUME Followed(s, a, b), e # a
      PROVE  Followed(u, a, b)
  <2> SUFFICES ASSUME NEW i \in 1..Len(u), u[i] = a
               PROVE  \E j \in (i + 1)..Len(u) : u[j] = b
      BY DEF Followed
  <2>1. i \in 1..Len(s) /\ s[i] = a
      BY <1>1, <1>3
  <2>2. PICK j \in (i + 1)..Len(s) : s[j] = b
      BY <1>3, <2>1 DEF Followed
  <2>3. j \in 1..Len(s) /\ j \in (i + 1)..Len(u)
      BY <1>1
  <2> QED
      BY <1>1, <2>2, <2>3
<1>4. ASSUME b \in S
      PROVE  Followed(v, a, b)
  <2> SUFFICES ASSUME NEW i \in 1..Len(v), v[i] = a
               PROVE  \E j \in (i + 1)..Len(v) : v[j] = b
      BY DEF Followed
  <2>1. i # Len(s) + 1
      BY <1>2, <1>4
  <2>2. Len(v) \in (i + 1)..Len(v) /\ v[Len(v)] = b
      BY <1>1, <1>2, <1>4, <2>1
  <2> QED
      BY <2>2
<1> QED
    BY <1>3, <1>4 DEF u, v

LEMMA FollowedLeft ==
    ASSUME NEW S, NEW s \in Seq(S), s # << >>, NEW a, NEW b, Followed(s, a, b)
    PROVE  Followed(Tail(s), a, b) /\ (Head(s) = a => Has(Tail(s), b))
<1> DEFINE u == Tail(s)
           d == Head(s)
<1>1. /\ Len(u) = Len(s) - 1 /\ d = s[1] /\ \A i \in 1..Len(u) : u[i] = s[i + 1]
      /\ Len(s) \in Nat \ {0}
    BY Left
<1> HIDE DEF u, d
<1>2. Followed(u, a, b)
  <2> SUFFICES ASSUME NEW i \in 1..Len(u), u[i] = a
               PROVE  \E j \in (i + 1)..Len(u) : u[j] = b
      BY DEF Followed
  <2>1. i + 1 \in 1..Len(s) /\ s[i + 1] = a
      BY <1>1
  <2>2. PICK j \in (i + 1 + 1)..Len(s) : s[j] = b
      BY <2>1 DEF Followed
  <2>3. j - 1 \in (i + 1)..Len(u) /\ j - 1 \in 1..Len(u) /\ (j - 1) + 1 = j
      BY <1>1, <2>2
  <2> QED
      BY <1>1, <2>2, <2>3
<1>3. ASSUME d = a
      PROVE  Has(u, b)
  <2>1. 1 \in 1..Len(s) /\ s[1] = a
      BY <1>1, <1>3
  <2>2. PICK j \in (1 + 1)..Len(s) : s[j] = b
      BY <2>1 DEF Followed
  <2>3. j - 1 \in 1..Len(u) /\ (j - 1) + 1 = j
      BY <1>1, <2>2
  <2> QED
      BY <1>1, <2>2, <2>3 DEF Has
<1> QED
    BY <1>2, <1>3 DEF u, d

LEMMA NothingWaits == \A b : ~Has(<< >>, b)
    BY DEF Has

(* The cache *)

Held(c) == {c.neighbor_client[i] : i \in Slots(c)}

LEMMA SlotFacts ==
    ASSUME NEW c, CacheOK(c), NEW m, Known(c, m)
    PROVE  /\ Slot(c, m) \in Slots(c) /\ SlotsOf(c, m) = {Slot(c, m)}
           /\ c.neighbor_client[Slot(c, m)] \in Entries /\ c.neighbor_client[Slot(c, m)].mac = m
<1>1. PICK i \in Slots(c) : c.neighbor_client[i].mac = m
    BY DEF Known, SlotsOf
<1>2. \A j \in Slots(c) : c.neighbor_client[j].mac = m => j = i
    BY <1>1 DEF CacheOK
<1>3. SlotsOf(c, m) = {i}
    BY <1>1, <1>2 DEF SlotsOf
<1>4. i \in Nat
    BY <1>1 DEF Slots
<1>5. Slot(c, m) = i
    BY <1>3, <1>4 DEF Slot
<1>6. c.neighbor_client \in Seq(Entries)
    BY DEF CacheOK
<1>7. c.neighbor_client[i] \in Entries
    BY <1>1, <1>6 DEF Slots
<1> QED
    BY <1>1, <1>3, <1>5, <1>7

LEMMA Unknown ==
    ASSUME NEW c, NEW m, ~Known(c, m)
    PROVE  \A i \in Slots(c) : c.neighbor_client[i].mac # m
    BY DEF Known, SlotsOf

\* A slot is written, for the client it has or for one that has none.
LEMMA SlotWritten ==
    ASSUME NEW c, CacheOK(c), NEW i \in Slots(c), NEW e \in Entries,
           ~Known(c, e.mac) \/ e.mac = c.neighbor_client[i].mac
    PROVE  CacheOK([c EXCEPT !.neighbor_client[i] = e])
<1> DEFINE s == c.neighbor_client
           z == c.circular_index
           t == [s EXCEPT ![i] = e]
           u == [c EXCEPT !.neighbor_client[i] = e]
<1>1. /\ s \in Seq(Entries) /\ z \in 1..IPA_MAX_NUM_NEIGHBOR_CLIENTS
      /\ Len(s) <= IPA_MAX_NUM_NEIGHBOR_CLIENTS /\ Slots(c) = 1..Len(s)
      /\ \A j, k \in Slots(c) : s[j].mac = s[k].mac => j = k
    BY DEF CacheOK, Slots
<1>2. u = [neighbor_client |-> t, circular_index |-> z]
    BY DEF CacheOK
<1>3. ~Known(c, e.mac) => \A j \in Slots(c) : s[j].mac # e.mac
    BY Unknown
<1> HIDE DEF s, z, u
<1>4. t \in Seq(Entries) /\ Len(t) = Len(s) /\ t[i] = e /\ \A j \in 1..Len(s) : j # i => t[j] = s[j]
    BY <1>1
<1> HIDE DEF t
<1>5. u.neighbor_client = t /\ u.circular_index = z /\ Slots(u) = 1..Len(s)
    BY <1>2, <1>4 DEF Slots
<1>6. \A j \in 1..Len(s) : j # i => t[j].mac # e.mac
    BY <1>1, <1>3, <1>4 DEF s
<1>7. \A j, k \in 1..Len(s) : t[j].mac = t[k].mac => j = k
    BY <1>1, <1>4, <1>6
<1>8. CacheOK(u)
    BY <1>1, <1>2, <1>4, <1>5, <1>7 DEF CacheOK
<1> QED
    BY <1>8 DEF u

LEMMA SlotAdded ==
    ASSUME NEW c, CacheOK(c), ~Full(c), NEW e \in Entries, ~Known(c, e.mac)
    PROVE  CacheOK([c EXCEPT !.neighbor_client = Append(@, e)])
<1> DEFINE s == c.neighbor_client
           z == c.circular_index
           t == Append(s, e)
           u == [c EXCEPT !.neighbor_client = t]
<1>1. /\ s \in Seq(Entries) /\ z \in 1..IPA_MAX_NUM_NEIGHBOR_CLIENTS
      /\ Len(s) <= IPA_MAX_NUM_NEIGHBOR_CLIENTS /\ Slots(c) = 1..Len(s)
      /\ Len(s) # IPA_MAX_NUM_NEIGHBOR_CLIENTS
      /\ \A j, k \in Slots(c) : s[j].mac = s[k].mac => j = k
    BY DEF CacheOK, Slots, Full
<1>2. u = [neighbor_client |-> t, circular_index |-> z]
    BY DEF CacheOK
<1>3. \A j \in Slots(c) : s[j].mac # e.mac
    BY Unknown
<1> HIDE DEF s, z, u
<1>4. /\ t \in Seq(Entries) /\ Len(t) = Len(s) + 1 /\ t[Len(s) + 1] = e /\ \A j \in 1..Len(s) : t[j] = s[j]
      /\ Len(s) \in Nat
    BY <1>1, Joined
<1> HIDE DEF t
<1>5. u.neighbor_client = t /\ u.circular_index = z /\ Slots(u) = 1..Len(t)
    BY <1>2 DEF Slots
<1>6. Len(t) <= IPA_MAX_NUM_NEIGHBOR_CLIENTS
    BY <1>1, <1>4, NeighborAssumption
<1>7. \A j \in 1..Len(t) : j # Len(s) + 1 => j \in 1..Len(s)
    BY <1>4
<1>8. \A j, k \in 1..Len(t) : t[j].mac = t[k].mac => j = k
    BY <1>1, <1>3, <1>4, <1>7
<1>9. CacheOK(u)
    BY <1>1, <1>2, <1>4, <1>5, <1>6, <1>8 DEF CacheOK
<1> QED
    BY <1>9 DEF u, t, s

LEMMA IndexMoved ==
    ASSUME NEW c, CacheOK(c)
    PROVE  CacheOK([c EXCEPT !.circular_index = (@ % IPA_MAX_NUM_NEIGHBOR_CLIENTS) + 1])
<1> DEFINE n == IPA_MAX_NUM_NEIGHBOR_CLIENTS
           z == (c.circular_index % n) + 1
           u == [c EXCEPT !.circular_index = z]
<1>1. n \in Nat \ {0} /\ c.circular_index \in 1..n
    BY NeighborAssumption DEF CacheOK
<1>2. c.circular_index % n \in 0..(n - 1)
    BY <1>1
<1>3. z \in 1..n
    BY <1>1, <1>2
<1> HIDE DEF z
<1>4. u \in [neighbor_client : Seq(Entries), circular_index : 1..n] /\ u.neighbor_client = c.neighbor_client
    BY <1>3 DEF CacheOK
<1> HIDE DEF u
<1>5. CacheOK(u)
    BY <1>4 DEF CacheOK, Slots
<1> QED
    BY <1>5 DEF u, z

LEMMA SlotErased ==
    ASSUME NEW c, CacheOK(c), NEW m, Known(c, m)
    PROVE  CacheOK(Erase(c, m)) /\ Held(Erase(c, m)) = {f \in Held(c) : f.mac # m}
<1> DEFINE s == c.neighbor_client
           z == c.circular_index
           i == Slot(c, m)
           t == SubSeq(s, 1, i - 1) \o SubSeq(s, i + 1, Len(s))
           u == [c EXCEPT !.neighbor_client = t]
<1>1. /\ s \in Seq(Entries) /\ z \in 1..IPA_MAX_NUM_NEIGHBOR_CLIENTS
      /\ Len(s) <= IPA_MAX_NUM_NEIGHBOR_CLIENTS /\ Slots(c) = 1..Len(s)
      /\ \A j, k \in Slots(c) : s[j].mac = s[k].mac => j = k
    BY DEF CacheOK, Slots
<1>2. i \in 1..Len(s)
    BY <1>1, SlotFacts
<1>3. u = [neighbor_client |-> t, circular_index |-> z]
  <2> HIDE DEF t
  <2> QED
      BY DEF CacheOK
<1>12. Erase(c, m) = u
    BY Zenon DEF Erase
<1>13. s[i].mac = m
    BY SlotFacts
<1>14. Held(c) = {s[k] : k \in Slots(c)}
    BY DEF Held
<1> HIDE DEF s, z, i, u
<1>4. /\ SubSeq(s, 1, i - 1) \in Seq(Entries) /\ Len(SubSeq(s, 1, i - 1)) = i - 1
      /\ \A j \in 1..(i - 1) : SubSeq(s, 1, i - 1)[j] = s[j]
    BY <1>1, <1>2
<1>5. /\ SubSeq(s, i + 1, Len(s)) \in Seq(Entries) /\ Len(SubSeq(s, i + 1, Len(s))) = Len(s) - i
      /\ \A j \in 1..(Len(s) - i) : SubSeq(s, i + 1, Len(s))[j] = s[j + i]
    BY <1>1, <1>2
<1>6. /\ t \in Seq(Entries) /\ Len(t) = Len(s) - 1
      /\ \A j \in 1..Len(t) : t[j] = IF j < i THEN s[j] ELSE s[j + 1]
  <2> DEFINE a == SubSeq(s, 1, i - 1)
             b == SubSeq(s, i + 1, Len(s))
  <2> HIDE DEF a, b
  <2>5. a \in Seq(Entries) /\ b \in Seq(Entries) /\ Len(a) = i - 1 /\ Len(b) = Len(s) - i
      BY <1>4, <1>5 DEF a, b
  <2>6. /\ a \o b \in Seq(Entries) /\ Len(a \o b) = Len(a) + Len(b)
        /\ \A j \in 1..Len(a \o b) : (a \o b)[j] = IF j <= Len(a) THEN a[j] ELSE b[j - Len(a)]
      BY <2>5
  <2>1. /\ a \o b \in Seq(Entries) /\ Len(a \o b) = (i - 1) + (Len(s) - i)
        /\ \A j \in 1..Len(a \o b) : (a \o b)[j] = IF j <= i - 1 THEN a[j] ELSE b[j - (i - 1)]
      BY <2>5, <2>6
  <2>2. Len(s) \in Nat /\ i \in Nat /\ i <= Len(s) /\ 1 <= i
      BY <1>1, <1>2
  <2>3. Len(a \o b) = Len(s) - 1
      BY <2>1, <2>2
  <2>4. ASSUME NEW j \in 1..(Len(s) - 1)
        PROVE  (a \o b)[j] = IF j < i THEN s[j] ELSE s[j + 1]
    <3>1. CASE j < i
        BY <1>4, <2>1, <2>2, <2>3, <3>1 DEF a
    <3>2. CASE ~(j < i)
      <4>1. j - (i - 1) \in 1..(Len(s) - i) /\ ~(j <= i - 1) /\ (j - (i - 1)) + i = j + 1
          BY <2>2, <3>2
      <4> QED
          BY <1>5, <2>1, <2>3, <3>2, <4>1 DEF b
    <3> QED
        BY <3>1, <3>2
  <2> QED
      BY <2>1, <2>3, <2>4 DEF a, b
<1> HIDE DEF t
<1>7. u.neighbor_client = t /\ u.circular_index = z /\ Slots(u) = 1..Len(t)
    BY <1>3 DEF Slots
<1>8. Len(s) \in Nat
    BY <1>1
<1>9. \A j, k \in 1..Len(t) : t[j].mac = t[k].mac => j = k
  <2> SUFFICES ASSUME NEW j \in 1..Len(t), NEW k \in 1..Len(t), t[j].mac = t[k].mac
               PROVE  j = k
      OBVIOUS
  <2> DEFINE old(x) == IF x < i THEN x ELSE x + 1
  <2>1. \A x \in 1..Len(t) : old(x) \in 1..Len(s) /\ t[x] = s[old(x)]
      BY <1>2, <1>6, <1>8
  <2>2. old(j) = old(k)
    <3> HIDE DEF old
    <3> QED
        BY <1>1, <2>1
  <2> QED
      BY <1>2, <1>6, <1>8, <2>2
<1>10. Len(t) <= IPA_MAX_NUM_NEIGHBOR_CLIENTS
    BY <1>1, <1>6, <1>8, NeighborAssumption
<1>11. CacheOK(u)
    BY <1>1, <1>3, <1>6, <1>7, <1>9, <1>10 DEF CacheOK
<1>15. ASSUME NEW j \in 1..Len(t)
      PROVE  \E k \in (1..Len(s)) \ {i} : t[j] = s[k]
  <2>1. CASE j < i
    <3>1. j \in (1..Len(s)) \ {i} /\ t[j] = s[j]
        BY <1>2, <1>6, <1>8, <2>1
    <3> QED
        BY <3>1
  <2>2. CASE ~(j < i)
    <3>1. j + 1 \in (1..Len(s)) \ {i} /\ t[j] = s[j + 1]
        BY <1>2, <1>6, <1>8, <2>2
    <3> QED
        BY <3>1
  <2> QED
      BY <2>1, <2>2
<1>16. ASSUME NEW k \in (1..Len(s)) \ {i}
      PROVE  \E j \in 1..Len(t) : t[j] = s[k]
  <2>1. CASE k < i
    <3>1. k \in 1..Len(t) /\ t[k] = s[k]
        BY <1>2, <1>6, <1>8, <2>1
    <3> QED
        BY <3>1
  <2>2. CASE ~(k < i)
    <3>1. k - 1 \in 1..Len(t) /\ ~(k - 1 < i) /\ (k - 1) + 1 = k
        BY <1>2, <1>6, <1>8, <2>2
    <3> QED
        BY <1>6, <3>1
  <2> QED
      BY <2>1, <2>2
<1>17. Held(u) = {f \in Held(c) : f.mac # m}
  <2>1. Held(u) = {t[j] : j \in 1..Len(t)} /\ Held(c) = {s[k] : k \in 1..Len(s)}
      BY <1>1, <1>7, <1>14 DEF Held
  <2>2. \A k \in 1..Len(s) : s[k].mac # m <=> k # i
      BY <1>1, <1>2, <1>13
  <2>3. ASSUME NEW f \in Held(u)
        PROVE  f \in Held(c) /\ f.mac # m
    <3>1. PICK j \in 1..Len(t) : f = t[j]
        BY <2>1
    <3>2. PICK k \in (1..Len(s)) \ {i} : t[j] = s[k]
        BY <1>15
    <3> QED
        BY <2>1, <2>2, <3>1, <3>2
  <2>4. ASSUME NEW f \in Held(c), f.mac # m
        PROVE  f \in Held(u)
    <3>1. PICK k \in 1..Len(s) : f = s[k]
        BY <2>1
    <3>2. k \in (1..Len(s)) \ {i}
        BY <2>2, <2>4, <3>1
    <3>3. PICK j \in 1..Len(t) : t[j] = s[k]
        BY <1>16, <3>2
    <3> QED
        BY <2>1, <3>1, <3>3
  <2> QED
      BY <2>3, <2>4
<1> QED
    BY <1>11, <1>12, <1>17

(* What a handler makes of an event *)

AddrEvents == {e \in Events : e.event \in {"ADDR_ADD", "ADDR_DEL"}}

\* Without a bridge an address behind a wired port is announced for its own
\* neighbour event only.
Due(e, d) ==
    d \in PlainEvents /\ e.event = "ADDR_ADD" /\ e.iface \in LanPorts
        => d = Event("NEW_NEIGH", e.iface, e.iface, e.mac, e.addr)

Handles(d, r) ==
    /\ CacheOK(r.cache)
    /\ r.posts = << >> \/ \E e \in AddrEvents : r.posts = <<e>> /\ Due(e, d)

LEMMA ResultFields ==
    ASSUME NEW c, NEW p, NEW x
    PROVE  Result(c, p, x).cache = c /\ Result(c, p, x).posts = p
    BY DEF Result

LEMMA EventFields ==
    ASSUME NEW k, NEW i, NEW n, NEW m, NEW a
    PROVE  /\ Event(k, i, n, m, a).event = k /\ Event(k, i, n, m, a).iface = i /\ Event(k, i, n, m, a).name = n
           /\ Event(k, i, n, m, a).mac = m /\ Event(k, i, n, m, a).addr = a
    BY DEF Event

LEMMA EventWhole ==
    ASSUME NEW e \in Events
    PROVE  e = Event(e.event, e.iface, e.name, e.mac, e.addr) /\ EventOK(e) /\ e \in EventTuples
    BY DEF Events, EventTuples, Event

LEMMA AddrEventMade ==
    ASSUME NEW k \in {"ADDR_ADD", "ADDR_DEL"}, NEW i \in Devs, NEW m \in Macs, NEW a \in Addrs \ LinkLocal,
           NEW e, e = Event(k, i, NO_NAME, m, a)
    PROVE  e \in AddrEvents
<1>1. e \in EventTuples
    BY DEF EventTuples, Event
<1>2. e.event = k /\ e.name = NO_NAME /\ e.addr = a
    BY EventFields
<1> QED
    BY <1>1, <1>2 DEF AddrEvents, Events, EventOK

LEMMA Announced ==
    ASSUME NEW d \in Events, NEW i \in Devs, NEW a \in Addrs \ LinkLocal, NEW e, e = Announce(d, i, a)
    PROVE  /\ e \in AddrEvents /\ e.iface = i /\ e.mac = d.mac /\ e.addr = a
           /\ e.event = IF d.event = "NEW_NEIGH" THEN "ADDR_ADD" ELSE "ADDR_DEL"
<1>1. d.mac \in Macs
    BY DEF Events, EventTuples
<1>2. CASE d.event = "NEW_NEIGH"
  <2>1. e = Event("ADDR_ADD", i, NO_NAME, d.mac, a)
      BY <1>2 DEF Announce, ADDR_ADD
  <2> QED
      BY <1>1, <1>2, <2>1, AddrEventMade, EventFields
<1>3. CASE d.event # "NEW_NEIGH"
  <2>1. e = Event("ADDR_DEL", i, NO_NAME, d.mac, a)
      BY <1>3 DEF Announce, ADDR_DEL
  <2> QED
      BY <1>1, <1>3, <2>1, AddrEventMade, EventFields
<1> QED
    BY <1>2, <1>3

\* An address announced for the device the event names.
LEMMA AnnouncedDue ==
    ASSUME NEW d \in Events, d.addr \in Addrs \ LinkLocal, d.event \in {"NEW_NEIGH", "DEL_NEIGH"},
           NEW e, e = Announce(d, d.iface, d.addr)
    PROVE  e \in AddrEvents /\ Due(e, d)
<1>1. d.iface \in Devs /\ EventOK(d) /\ d = Event(d.event, d.iface, d.name, d.mac, d.addr)
    BY EventWhole DEF EventTuples
<1>2. /\ e \in AddrEvents /\ e.iface = d.iface /\ e.mac = d.mac /\ e.addr = d.addr
      /\ e.event = "ADDR_ADD" => d.event = "NEW_NEIGH"
    BY <1>1, Announced
<1>3. d.event = "NEW_NEIGH" /\ d.iface \in LanPorts => d.name = d.iface
    BY <1>1, NeighborAssumption DEF EventOK
<1> QED
    BY <1>1, <1>2, <1>3 DEF Due

\* An address announced for another port than the event's, or for an event that
\* cannot come without a bridge.
LEMMA AnnouncedElsewhere ==
    ASSUME NEW d \in Events, NEW i \in Devs, NEW a \in Addrs \ LinkLocal, NEW e, e = Announce(d, i, a),
           d \notin PlainEvents \/ i \notin LanPorts
    PROVE  e \in AddrEvents /\ Due(e, d)
    BY Announced DEF Due

LEMMA EntryMade ==
    ASSUME NEW m \in Macs, NEW i \in Devs, NEW a \in (V4 \ LinkLocal) \cup {NONE}
    PROVE  Entry(m, i, a) \in Entries /\ Entry(m, i, a).mac = m
    BY DEF Entry, Entries

LEMMA InsertHandled ==
    ASSUME NEW c, CacheOK(c), NEW m \in Macs, ~Known(c, m), NEW i \in Devs,
           NEW a \in (V4 \ LinkLocal) \cup {NONE}, NEW r, r = Insert(c, m, i, a)
    PROVE  CacheOK(r.cache) /\ r.posts = << >> /\ DOMAIN r = {"cache", "posts", "drops"}
<1>1. CASE ~Full(c)
  <2> DEFINE u == [c EXCEPT !.neighbor_client = Append(@, Entry(m, i, a))]
  <2>1. CacheOK(u)
      BY <1>1, EntryMade, SlotAdded
  <2> HIDE DEF u
  <2>2. r = Result(u, << >>, {})
      BY <1>1 DEF Insert, u
  <2> QED
      BY <2>1, <2>2 DEF Result
<1>2. CASE Full(c)
  <2> DEFINE n == c.circular_index
             u == [c EXCEPT !.neighbor_client[n] = Entry(m, i, NONE)]
             v == [u EXCEPT !.circular_index = (@ % IPA_MAX_NUM_NEIGHBOR_CLIENTS) + 1]
  <2>1. n \in Slots(c)
      BY <1>2 DEF CacheOK, Slots, Full
  <2>2. CacheOK(u)
      BY <2>1, EntryMade, SlotWritten
  <2> HIDE DEF u
  <2>3. CacheOK(v)
      BY <2>2, IndexMoved
  <2>4. u.circular_index = c.circular_index
      BY DEF CacheOK, u
  <2>5. v = [c EXCEPT !.neighbor_client[n] = Entry(m, i, NONE),
                      !.circular_index = (@ % IPA_MAX_NUM_NEIGHBOR_CLIENTS) + 1]
      BY DEF u, CacheOK
  <2> HIDE DEF v
  <2>6. r.cache = v /\ r.posts = << >> /\ DOMAIN r = {"cache", "posts", "drops"}
      BY <1>2, <2>5 DEF Insert, Result
  <2> QED
      BY <2>3, <2>6
<1> QED
    BY <1>1, <1>2

\* A field of a client's slot is written.
LEMMA IfaceWritten ==
    ASSUME NEW c, CacheOK(c), NEW m, Known(c, m), NEW x \in Devs,
           NEW u, u = [c EXCEPT !.neighbor_client[Slot(c, m)].iface = x]
    PROVE  /\ CacheOK(u) /\ Slots(u) = Slots(c)
           /\ \A j \in Slots(c) : u.neighbor_client[j].mac = c.neighbor_client[j].mac
<1> DEFINE i == Slot(c, m)
           old == c.neighbor_client[i]
           e == [old EXCEPT !.iface = x]
           s == c.neighbor_client
<1>1. i \in Slots(c) /\ old \in Entries
    BY SlotFacts
<1>2. e \in Entries /\ e.mac = old.mac
    BY <1>1 DEF Entries
<1>3. s \in Seq(Entries) /\ Slots(c) = 1..Len(s)
    BY DEF CacheOK, Slots
<1>4. u = [c EXCEPT !.neighbor_client[i] = e]
    BY Zenon
<1> HIDE DEF i, e
<1>5. CacheOK(u)
    BY <1>1, <1>2, <1>4, SlotWritten
<1>6. u.neighbor_client = [s EXCEPT ![i] = e]
    BY <1>4 DEF CacheOK
<1> HIDE DEF s
<1>7. /\ Len([s EXCEPT ![i] = e]) = Len(s)
      /\ \A j \in 1..Len(s) : [s EXCEPT ![i] = e][j].mac = s[j].mac
    BY <1>1, <1>2, <1>3 DEF s
<1> QED
    BY <1>3, <1>5, <1>6, <1>7 DEF Slots, s

LEMMA AddressWritten ==
    ASSUME NEW c, CacheOK(c), NEW m, Known(c, m), NEW a \in V4 \ LinkLocal,
           NEW u, u = [c EXCEPT !.neighbor_client[Slot(c, m)].v4 = a]
    PROVE  CacheOK(u)
<1> DEFINE i == Slot(c, m)
           old == c.neighbor_client[i]
           e == [old EXCEPT !.v4 = a]
<1>1. i \in Slots(c) /\ old \in Entries
    BY SlotFacts
<1>2. e \in Entries /\ e.mac = old.mac
    BY <1>1 DEF Entries
<1>3. u = [c EXCEPT !.neighbor_client[i] = e]
    BY Zenon
<1> HIDE DEF i, e
<1> QED
    BY <1>1, <1>2, <1>3, SlotWritten

LEMMA AddExHandled ==
    ASSUME NEW c, CacheOK(c), NEW d \in Events, d.event = "CLIENT_ADD_EX", NEW r, r = ClientAddEx(c, d)
    PROVE  Handles(d, r)
<1>1. d.iface \in WlanPorts /\ d.iface \in Devs /\ d.mac \in Macs /\ d.iface \notin LanPorts
    BY EventWhole, NeighborAssumption DEF EventTuples, EventOK
<1>2. CASE ~Known(c, d.mac)
  <2>1. r = Result(c, << >>, {})
      BY <1>2 DEF ClientAddEx
  <2> QED
      BY <2>1, ResultFields DEF Handles
<1>3. CASE Known(c, d.mac)
  <2> DEFINE old == c.neighbor_client[Slot(c, d.mac)]
             moved == [c EXCEPT !.neighbor_client[Slot(c, d.mac)].iface = d.iface]
             e == ADDR_ADD(d.iface, d.mac, old.v4)
  <2>1. r = IF old.ipa_if_num # d.iface \/ old.v4 = NONE THEN Result(moved, << >>, {})
            ELSE Result(moved, <<e>>, {})
      BY <1>3 DEF ClientAddEx
  <2>2. CacheOK(moved)
      BY <1>1, <1>3, IfaceWritten
  <2>3. old \in Entries
      BY <1>3, SlotFacts
  <2> HIDE DEF moved, old
  <2>4. CASE old.ipa_if_num # d.iface \/ old.v4 = NONE
      BY <2>1, <2>2, <2>4, ResultFields DEF Handles
  <2>5. CASE ~(old.ipa_if_num # d.iface \/ old.v4 = NONE)
    <3>1. old.v4 \in Addrs \ LinkLocal
        BY <2>3, <2>5 DEF Entries, Addrs
    <3>2. e \in AddrEvents
        BY <1>1, <3>1, AddrEventMade DEF ADDR_ADD
    <3>3. e.iface = d.iface
        BY EventFields DEF ADDR_ADD
    <3> HIDE DEF e
    <3>4. Due(e, d)
        BY <1>1, <3>3 DEF Due
    <3> QED
        BY <2>1, <2>2, <2>5, <3>2, <3>4, ResultFields DEF Handles
  <2> QED
      BY <2>4, <2>5
<1> QED
    BY <1>2, <1>3

LEMMA OnBridgeHandled ==
    ASSUME NEW c, CacheOK(c), NEW d \in Events, d.addr \in V4 \ LinkLocal, d.name = Bridge,
           NEW r, r = NeighV4OnBridge(c, d)
    PROVE  Handles(d, r)
<1>1. CASE ~Known(c, d.mac)
  <2>1. r = Result(c, << >>, {d.mac})
      BY <1>1 DEF NeighV4OnBridge
  <2> QED
      BY <2>1, ResultFields DEF Handles
<1>2. CASE Known(c, d.mac)
  <2> DEFINE i == c.neighbor_client[Slot(c, d.mac)].iface
             u == [c EXCEPT !.neighbor_client[Slot(c, d.mac)].v4 = d.addr]
             e == Announce(d, i, d.addr)
  <2>1. r = Result(u, <<e>>, {})
      BY <1>2 DEF NeighV4OnBridge
  <2>2. CacheOK(u)
      BY <1>2, AddressWritten
  <2>3. i \in Devs
      BY <1>2, SlotFacts DEF Entries
  <2>4. d \notin PlainEvents /\ d.addr \in Addrs \ LinkLocal
      BY DEF PlainEvents, Addrs
  <2>5. e \in AddrEvents /\ Due(e, d)
      BY <2>3, <2>4, AnnouncedElsewhere
  <2> HIDE DEF u, e
  <2> QED
      BY <2>1, <2>2, <2>5, ResultFields DEF Handles
<1> QED
    BY <1>1, <1>2

LEMMA V4Handled ==
    ASSUME NEW c, CacheOK(c), NEW d \in Events, d.addr \in V4 \ LinkLocal, d.event \in {"NEW_NEIGH", "DEL_NEIGH"},
           NEW r, r = NeighV4(c, d)
    PROVE  Handles(d, r) /\ r.posts = <<Announce(d, d.iface, d.addr)>>
<1> DEFINE e == Announce(d, d.iface, d.addr)
<1>1. d.iface \in Devs /\ d.mac \in Macs /\ d.addr \in Addrs \ LinkLocal /\ d.addr \in (V4 \ LinkLocal) \cup {NONE}
    BY DEF Events, EventTuples, Addrs
<1>2. e \in AddrEvents /\ Due(e, d)
    BY <1>1, AnnouncedDue
<1> HIDE DEF e
<1>3. ASSUME NEW x, CacheOK(x.cache), DOMAIN x = {"cache", "posts", "drops"}, r = [x EXCEPT !.posts = <<e>>]
      PROVE  Handles(d, r) /\ r.posts = <<e>>
  <2>1. r.cache = x.cache /\ r.posts = <<e>>
      BY <1>3, Zenon
  <2> QED
      BY <1>2, <1>3, <2>1 DEF Handles
<1>4. CASE d.event = "NEW_NEIGH" /\ Known(c, d.mac)
  <2> DEFINE u == [c EXCEPT !.neighbor_client[Slot(c, d.mac)] = Entry(d.mac, d.iface, d.addr)]
             x == Result(u, << >>, {})
  <2>1. CacheOK(u)
      BY <1>1, <1>4, EntryMade, SlotFacts, SlotWritten
  <2>2. r = [x EXCEPT !.posts = <<e>>]
      BY <1>4 DEF NeighV4, e
  <2> HIDE DEF u
  <2>3. x.cache = u /\ DOMAIN x = {"cache", "posts", "drops"}
      BY DEF Result
  <2> HIDE DEF x
  <2> QED
      BY <1>3, <2>1, <2>2, <2>3 DEF e
<1>5. CASE d.event = "NEW_NEIGH" /\ ~Known(c, d.mac)
  <2> DEFINE x == Insert(c, d.mac, d.iface, d.addr)
  <2>1. CacheOK(x.cache) /\ DOMAIN x = {"cache", "posts", "drops"}
      BY <1>1, <1>5, InsertHandled
  <2>2. r = [x EXCEPT !.posts = <<e>>]
      BY <1>5 DEF NeighV4, e
  <2> HIDE DEF x
  <2> QED
      BY <1>3, <2>1, <2>2 DEF e
<1>6. CASE d.event # "NEW_NEIGH"
  <2> DEFINE u == IF Known(c, d.mac) THEN Erase(c, d.mac) ELSE c
             x == Result(u, << >>, {d.mac})
  <2>1. CacheOK(u)
      BY SlotErased
  <2>2. r = [x EXCEPT !.posts = <<e>>]
      BY <1>6 DEF NeighV4, e
  <2> HIDE DEF u
  <2>3. x.cache = u /\ DOMAIN x = {"cache", "posts", "drops"}
      BY DEF Result
  <2> HIDE DEF x
  <2> QED
      BY <1>3, <2>1, <2>2, <2>3 DEF e
<1> QED
    BY <1>4, <1>5, <1>6

LEMMA V6Handled ==
    ASSUME NEW c, CacheOK(c), NEW d \in Events, d.addr \in V6 \ LinkLocal, d.event \in {"NEW_NEIGH", "DEL_NEIGH"},
           NEW r, r = NeighV6(c, d)
    PROVE  Handles(d, r) /\ (d.name # Bridge => r.posts = <<Announce(d, d.iface, d.addr)>>)
<1>1. d.iface \in Devs /\ d.addr \in Addrs \ LinkLocal
    BY DEF Events, EventTuples, Addrs
<1>2. CASE d.name # Bridge
  <2> DEFINE e == Announce(d, d.iface, d.addr)
  <2>1. e \in AddrEvents /\ Due(e, d)
      BY <1>1, AnnouncedDue
  <2>2. r = Result(c, <<e>>, {})
      BY <1>2 DEF NeighV6
  <2> HIDE DEF e
  <2>3. Handles(d, r) /\ r.posts = <<e>>
      BY <2>1, <2>2, ResultFields DEF Handles
  <2> QED
      BY <2>3 DEF e
<1>3. CASE d.name = Bridge /\ ~Known(c, d.mac)
  <2>1. r = Result(c, << >>, {})
      BY <1>3 DEF NeighV6
  <2> QED
      BY <1>3, <2>1, ResultFields DEF Handles
<1>4. CASE d.name = Bridge /\ Known(c, d.mac)
  <2> DEFINE i == c.neighbor_client[Slot(c, d.mac)].iface
             e == Announce(d, i, d.addr)
  <2>1. r = Result(c, <<e>>, {})
      BY <1>4 DEF NeighV6
  <2>2. i \in Devs
      BY <1>4, SlotFacts DEF Entries
  <2>3. d \notin PlainEvents
      BY <1>4 DEF PlainEvents
  <2>4. e \in AddrEvents /\ Due(e, d)
      BY <1>1, <2>2, <2>3, AnnouncedElsewhere
  <2> HIDE DEF e
  <2> QED
      BY <1>4, <2>1, <2>4, ResultFields DEF Handles
<1> QED
    BY <1>2, <1>3, <1>4

LEMMA NoAddrHandled ==
    ASSUME NEW c, CacheOK(c), NEW d \in Events, d.addr \notin Addrs, d.event \in {"NEW_NEIGH", "DEL_NEIGH"},
           NEW r, r = NeighNoAddr(c, d)
    PROVE  Handles(d, r)
<1> DEFINE m == d.mac
           old == c.neighbor_client[Slot(c, m)]
           port == d.name # Bridge
           moved == [c EXCEPT !.neighbor_client[Slot(c, m)].iface = d.iface]
           seen == IF port THEN moved ELSE c
           e == Announce(d, d.iface, old.v4)
           posts == IF port /\ old.v4 # NONE THEN <<e>> ELSE << >>
<1>1. d.iface \in Devs /\ m \in Macs /\ (d \notin PlainEvents \/ d.iface \notin LanPorts)
    BY DEF Events, EventTuples, PlainEvents
<1>2. CASE Known(c, m)
  <2>1. r = IF d.event = "DEL_NEIGH" THEN Result(Erase(seen, m), posts, {m}) ELSE Result(seen, posts, {})
      BY <1>2, Zenon DEF NeighNoAddr
  <2>2. old \in Entries
      BY <1>2, SlotFacts
  <2>3. CacheOK(seen) /\ Known(seen, m)
    <3>1. PICK u : u = moved
        OBVIOUS
    <3>2. /\ CacheOK(u) /\ Slots(u) = Slots(c)
          /\ \A j \in Slots(c) : u.neighbor_client[j].mac = c.neighbor_client[j].mac
        BY <1>1, <1>2, <3>1, IfaceWritten
    <3> HIDE DEF moved
    <3>3. Known(u, m)
        BY <1>2, <3>2 DEF Known, SlotsOf
    <3> QED
        BY <1>2, <3>1, <3>2, <3>3
  <2> HIDE DEF seen
  <2>4. CacheOK(Erase(seen, m))
      BY <2>3, SlotErased
  <2>5. r.posts = posts /\ CacheOK(r.cache)
      BY <2>1, <2>3, <2>4, ResultFields
  <2>6. posts = << >> \/ (posts = <<e>> /\ e \in AddrEvents /\ Due(e, d))
    <3>1. CASE port /\ old.v4 # NONE
      <4>1. old.v4 \in Addrs \ LinkLocal
          BY <2>2, <3>1 DEF Entries, Addrs
      <4>2. e \in AddrEvents /\ Due(e, d)
          BY <1>1, <4>1, AnnouncedElsewhere
      <4> QED
          BY <3>1, <4>2
    <3>2. CASE ~(port /\ old.v4 # NONE)
        BY <3>2
    <3> QED
        BY <3>1, <3>2
  <2> HIDE DEF posts, e
  <2> QED
      BY <2>5, <2>6 DEF Handles
<1>3. CASE ~Known(c, m) /\ d.event = "NEW_NEIGH" /\ port
  <2>1. r = Insert(c, m, d.iface, NONE)
      BY <1>3 DEF NeighNoAddr
  <2> QED
      BY <1>1, <1>3, <2>1, InsertHandled DEF Handles
<1>4. CASE ~Known(c, m) /\ ~(d.event = "NEW_NEIGH" /\ port)
  <2>1. r = Result(c, << >>, {})
      BY <1>4 DEF NeighNoAddr
  <2> QED
      BY <2>1, ResultFields DEF Handles
<1> QED
    BY <1>2, <1>3, <1>4

\* Every neighbour event leaves the cache in order and announces at most one address.
LEMMA EventHandled ==
    ASSUME NEW c, CacheOK(c), NEW d \in Events, d.event \in {"CLIENT_ADD_EX", "NEW_NEIGH", "DEL_NEIGH"},
           NEW r, r = event_callback(c, d)
    PROVE  Handles(d, r)
<1>1. CASE d.event = "CLIENT_ADD_EX"
    BY <1>1, AddExHandled DEF event_callback
<1>2. CASE d.event # "CLIENT_ADD_EX" /\ d.addr \in LinkLocal
  <2>1. r = Result(c, << >>, {})
      BY <1>2 DEF event_callback
  <2> QED
      BY <2>1, ResultFields DEF Handles
<1>3. CASE d.event # "CLIENT_ADD_EX" /\ d.addr \in V4 \ LinkLocal
  <2>1. r = IF d.name = Bridge THEN NeighV4OnBridge(c, d) ELSE NeighV4(c, d)
      BY <1>3 DEF event_callback
  <2> QED
      BY <1>3, <2>1, OnBridgeHandled, V4Handled
<1>4. CASE d.event # "CLIENT_ADD_EX" /\ d.addr \in V6 \ V4 /\ d.addr \notin LinkLocal
  <2>1. r = NeighV6(c, d)
      BY <1>4 DEF event_callback
  <2> QED
      BY <1>4, <2>1, V6Handled
<1>5. CASE d.event # "CLIENT_ADD_EX" /\ d.addr \notin Addrs /\ d.addr \notin LinkLocal
  <2>1. r = NeighNoAddr(c, d)
      BY <1>5 DEF event_callback, Addrs
  <2> QED
      BY <1>5, <2>1, NoAddrHandled
<1> QED
    BY <1>1, <1>2, <1>3, <1>4, <1>5 DEF Addrs

\* The end of an address on a port is announced there, whether or not the cache has
\* the client.
LEMMA EndAnnounced ==
    ASSUME NEW c, CacheOK(c), NEW p \in LanPorts, NEW m \in Macs, NEW a \in Addrs \ LinkLocal,
           NEW d \in Events, d = Event("DEL_NEIGH", p, NO_NAME, m, a), NEW r, r = event_callback(c, d)
    PROVE  r.posts = <<ADDR_DEL(p, m, a)>>
<1>1. d.event = "DEL_NEIGH" /\ d.addr = a /\ d.name # Bridge /\ d.iface = p /\ d.mac = m
    BY EventFields, NeighborAssumption
<1>2. Announce(d, d.iface, d.addr) = ADDR_DEL(p, m, a)
    BY <1>1 DEF Announce
<1>3. CASE a \in V4
  <2>1. r = NeighV4(c, d)
      BY <1>1, <1>3 DEF event_callback
  <2> QED
      BY <1>1, <1>2, <1>3, <2>1, V4Handled
<1>4. CASE a \in V6 \ V4
  <2>1. r = NeighV6(c, d)
      BY <1>1, <1>4 DEF event_callback
  <2> QED
      BY <1>1, <1>2, <1>4, <2>1, V6Handled
<1> QED
    BY <1>3, <1>4 DEF Addrs

(* What the threads post *)

LEMMA AssociationMade ==
    ASSUME NEW k \in {"CLIENT_ADD_EX", "CLIENT_DEL", "NEW_NEIGH"}, NEW p \in WlanPorts, NEW m \in Macs
    PROVE  Event(k, p, NO_NAME, m, ZERO) \in Associations
    BY DEF Event, Associations, Events, EventTuples, EventOK, Devs, Ports

LEMMA Posted ==
    ASSUME NEW s \in Seq(Associations), NEW m \in Macs, NEW p \in WlanPorts
    PROVE  /\ s \o CONNECT_EX(m, p) = Append(Append(s, Event("CLIENT_ADD_EX", p, NO_NAME, m, ZERO)),
                                             Event("NEW_NEIGH", p, NO_NAME, m, ZERO))
           /\ s \o CLIENT_DISCONNECT(m, p) = Append(s, Event("CLIENT_DEL", p, NO_NAME, m, ZERO))
<1>1. ASSUME NEW x \in Associations, NEW y \in Associations
      PROVE  s \o <<x, y>> = Append(Append(s, x), y) /\ s \o <<x>> = Append(s, x)
    OBVIOUS
<1>2. /\ Event("CLIENT_ADD_EX", p, NO_NAME, m, ZERO) \in Associations
      /\ Event("NEW_NEIGH", p, NO_NAME, m, ZERO) \in Associations
      /\ Event("CLIENT_DEL", p, NO_NAME, m, ZERO) \in Associations
    BY AssociationMade
<1> QED
    BY <1>1, <1>2 DEF CONNECT_EX, CLIENT_DISCONNECT

LEMMA AssociationPlain == Associations \subseteq Events /\ Associations \subseteq PlainEvents
    BY NeighborAssumption DEF Associations, PlainEvents

LEMMA AddrEventPlain == AddrEvents \subseteq Events /\ AddrEvents \subseteq PlainEvents
    BY NeighborAssumption DEF AddrEvents, PlainEvents, Events, EventOK

LEMMA MessageFields ==
    ASSUME NEW t, NEW i, NEW m, NEW a
    PROVE  /\ Message(t, i, m, a).type = t /\ Message(t, i, m, a).dev = i
           /\ Message(t, i, m, a).mac = m /\ Message(t, i, m, a).addr = a
    BY DEF Message

LEMMA MessageWhole ==
    ASSUME NEW n \in Messages
    PROVE  n = Message(n.type, n.dev, n.mac, n.addr)
    BY DEF Messages, Message

LEMMA MessageMade ==
    ASSUME NEW t \in {"RTM_NEWNEIGH", "RTM_DELNEIGH"}, NEW i \in Devs, NEW m \in Macs, NEW a \in Addrs \cup {ZERO}
    PROVE  /\ Message(t, i, m, a) \in Messages
           /\ i \in Ports /\ a \in Addrs => Message(t, i, m, a) \in PlainMessages
    BY DEF Message, Messages, PlainMessages

LEMMA Decoded ==
    ASSUME NEW n \in Messages, NEW e, e = ipa_nl_decode_nlmsg(n)
    PROVE  /\ e \in Events /\ (n \in PlainMessages => e \in PlainEvents)
           /\ e.event = IF n.type = "RTM_NEWNEIGH" THEN "NEW_NEIGH" ELSE "DEL_NEIGH"
           /\ e.iface = n.dev /\ e.mac = n.mac /\ e.addr = n.addr
           /\ e.event = "NEW_NEIGH" => e.name = n.dev
<1>1. n.type \in {"RTM_NEWNEIGH", "RTM_DELNEIGH"} /\ n.dev \in Devs /\ n.mac \in Macs /\ n.addr \in Addrs \cup {ZERO}
    BY DEF Messages
<1>2. CASE n.type = "RTM_NEWNEIGH"
  <2>1. e = Event("NEW_NEIGH", n.dev, n.dev, n.mac, n.addr)
      BY <1>2 DEF ipa_nl_decode_nlmsg
  <2>2. e \in EventTuples
      BY <1>1, <2>1 DEF Event, EventTuples
  <2>3. e.event = "NEW_NEIGH" /\ e.iface = n.dev /\ e.name = n.dev /\ e.mac = n.mac /\ e.addr = n.addr
      BY <2>1, EventFields
  <2> QED
      BY <1>2, <2>2, <2>3, NeighborAssumption DEF Events, EventOK, PlainEvents, PlainMessages
<1>3. CASE n.type # "RTM_NEWNEIGH"
  <2>1. e = Event("DEL_NEIGH", n.dev, NO_NAME, n.mac, n.addr)
      BY <1>3 DEF ipa_nl_decode_nlmsg
  <2>2. e \in EventTuples
      BY <1>1, <2>1 DEF Event, EventTuples
  <2>3. e.event = "DEL_NEIGH" /\ e.iface = n.dev /\ e.name = NO_NAME /\ e.mac = n.mac /\ e.addr = n.addr
      BY <2>1, EventFields
  <2> QED
      BY <1>3, <2>2, <2>3, NeighborAssumption DEF Events, EventOK, PlainEvents, PlainMessages
<1> QED
    BY <1>2, <1>3

(* The actions *)

Worlds == [bridged : BOOLEAN, changes : Nat, port : [Macs -> Ports \cup {NONE}],
           fdb : [Macs -> Ports \cup {NONE}], arp : SUBSET (Devs \X Macs \X Addrs)]

LEMMA Changed ==
    ASSUME WorldOK, NEW w, Change(w),
           NEW P \in [Macs -> Ports \cup {NONE}], NEW F \in [Macs -> Ports \cup {NONE}],
           NEW A \in SUBSET (Devs \X Macs \X Addrs),
           w = [[[world EXCEPT !.port = P] EXCEPT !.fdb = F] EXCEPT !.arp = A]
    PROVE  /\ world' \in Worlds /\ world'.bridged = world.bridged
           /\ world'.port = P /\ world'.fdb = F /\ world'.arp = A
           /\ UNCHANGED <<queue, cache, told, clients, lost>>
<1>1. world \in Worlds
    BY DEF WorldOK, Worlds
<1>2. w = [bridged |-> world.bridged, changes |-> world.changes, port |-> P, fdb |-> F, arp |-> A]
    BY <1>1 DEF Worlds
<1>3. world' = [w EXCEPT !.changes = @ + 1] /\ UNCHANGED <<queue, cache, told, clients, lost>>
    BY DEF Change
<1>4. world' = [bridged |-> world.bridged, changes |-> world.changes + 1, port |-> P, fdb |-> F, arp |-> A]
    BY <1>2, <1>3
<1>5. world.bridged \in BOOLEAN /\ world.changes + 1 \in Nat
    BY <1>1 DEF Worlds
<1> QED
    BY <1>3, <1>4, <1>5 DEF Worlds

LEMMA JoinWorld ==
    ASSUME NeighborTypeOK, NEW m \in Macs, NEW p \in Ports, Join(m, p)
    PROVE  /\ world' \in Worlds /\ world'.bridged = world.bridged /\ world'.arp = world.arp
           /\ world'.port = [world.port EXCEPT ![m] = p]
           /\ world'.fdb = [world.fdb EXCEPT ![m] = IF world.bridged THEN p ELSE world.fdb[m]]
           /\ (~world.bridged => world'.fdb = world.fdb)
           /\ UNCHANGED <<queue, cache, told, clients, lost>>
<1> DEFINE P == [world.port EXCEPT ![m] = p]
           F == [world.fdb EXCEPT ![m] = IF world.bridged THEN p ELSE world.fdb[m]]
           w == [world EXCEPT !.port[m] = p, !.fdb[m] = IF world.bridged THEN p ELSE @]
<1>1. world \in Worlds /\ WorldOK
    BY DEF NeighborTypeOK, WorldOK, Worlds
<1>2. P \in [Macs -> Ports \cup {NONE}] /\ F \in [Macs -> Ports \cup {NONE}] /\ world.arp \in SUBSET (Devs \X Macs \X Addrs)
    BY <1>1 DEF Worlds
<1>3. w = [[[world EXCEPT !.port = P] EXCEPT !.fdb = F] EXCEPT !.arp = world.arp]
    BY <1>1 DEF Worlds
<1>4. Change(w)
    BY DEF Join
<1>5. ~world.bridged => F = world.fdb
    BY <1>1 DEF Worlds
<1> HIDE DEF P, F, w
<1>6. /\ world' \in Worlds /\ world'.bridged = world.bridged
      /\ world'.port = P /\ world'.fdb = F /\ world'.arp = world.arp
      /\ UNCHANGED <<queue, cache, told, clients, lost>>
    BY <1>1, <1>2, <1>3, <1>4, Changed
<1> QED
    BY <1>5, <1>6 DEF P, F

LEMMA LeaveWorld ==
    ASSUME NeighborTypeOK, NEW m \in Macs, Leave(m)
    PROVE  /\ world' \in Worlds /\ world'.bridged = world.bridged /\ world'.arp = world.arp
           /\ world'.port = [world.port EXCEPT ![m] = NONE]
           /\ world'.fdb = world.fdb
           /\ UNCHANGED <<queue, cache, told, clients, lost>>
<1> DEFINE P == [world.port EXCEPT ![m] = NONE]
           w == [world EXCEPT !.port[m] = NONE]
<1>1. world \in Worlds /\ WorldOK
    BY DEF NeighborTypeOK, WorldOK, Worlds
<1>2. /\ P \in [Macs -> Ports \cup {NONE}] /\ world.fdb \in [Macs -> Ports \cup {NONE}]
      /\ world.arp \in SUBSET (Devs \X Macs \X Addrs)
    BY <1>1 DEF Worlds
<1>3. w = [[[world EXCEPT !.port = P] EXCEPT !.fdb = world.fdb] EXCEPT !.arp = world.arp]
    BY <1>1 DEF Worlds
<1>4. Change(w)
    BY DEF Leave
<1> HIDE DEF P, w
<1>6. /\ world' \in Worlds /\ world'.bridged = world.bridged
      /\ world'.port = P /\ world'.fdb = world.fdb /\ world'.arp = world.arp
      /\ UNCHANGED <<queue, cache, told, clients, lost>>
    BY <1>1, <1>2, <1>3, <1>4, Changed
<1> QED
    BY <1>6 DEF P

LEMMA AgeWorld ==
    ASSUME NeighborTypeOK, NEW m \in Macs, Age(m)
    PROVE  /\ world' \in Worlds /\ world'.bridged = world.bridged /\ world'.arp = world.arp
           /\ world'.port = world.port /\ world'.fdb = [world.fdb EXCEPT ![m] = NONE]
           /\ world.bridged /\ world.fdb[m] \in Ports
           /\ UNCHANGED <<queue, cache, told, clients, lost>>
<1> DEFINE F == [world.fdb EXCEPT ![m] = NONE]
           w == [world EXCEPT !.fdb[m] = NONE]
<1>1. world \in Worlds /\ WorldOK
    BY DEF NeighborTypeOK, WorldOK, Worlds
<1>2. /\ F \in [Macs -> Ports \cup {NONE}] /\ world.port \in [Macs -> Ports \cup {NONE}]
      /\ world.arp \in SUBSET (Devs \X Macs \X Addrs)
    BY <1>1 DEF Worlds
<1>3. w = [[[world EXCEPT !.port = world.port] EXCEPT !.fdb = F] EXCEPT !.arp = world.arp]
    BY <1>1 DEF Worlds
<1>4. Change(w)
    BY DEF Age
<1>5. world.bridged /\ world.fdb[m] \in Ports
    BY <1>1 DEF Age, WorldOK, Worlds
<1> HIDE DEF F, w
<1>6. /\ world' \in Worlds /\ world'.bridged = world.bridged
      /\ world'.port = world.port /\ world'.arp = world.arp /\ world'.fdb = F
      /\ UNCHANGED <<queue, cache, told, clients, lost>>
  <2>1. PICK P : P = world.port
      OBVIOUS
  <2>2. PICK A : A = world.arp
      OBVIOUS
  <2>3. P \in [Macs -> Ports \cup {NONE}] /\ A \in SUBSET (Devs \X Macs \X Addrs)
      BY <1>2, <2>1, <2>2
  <2>4. w = [[[world EXCEPT !.port = P] EXCEPT !.fdb = F] EXCEPT !.arp = A]
      BY <1>3, <2>1, <2>2
  <2>5. /\ world' \in Worlds /\ world'.bridged = world.bridged
        /\ world'.port = P /\ world'.fdb = F /\ world'.arp = A
        /\ UNCHANGED <<queue, cache, told, clients, lost>>
      BY <1>1, <1>2, <1>4, <2>3, <2>4, Changed
  <2> QED
      BY <2>1, <2>2, <2>5
<1> QED
    BY <1>5, <1>6 DEF F

LEMMA ArpWorld ==
    ASSUME NeighborTypeOK, NEW A \in SUBSET (Devs \X Macs \X Addrs), Change([world EXCEPT !.arp = A])
    PROVE  /\ world' \in Worlds /\ world'.bridged = world.bridged /\ world'.arp = A
           /\ world'.port = world.port /\ world'.fdb = world.fdb
           /\ UNCHANGED <<queue, cache, told, clients, lost>>
<1> DEFINE w == [world EXCEPT !.arp = A]
<1>1. world \in Worlds /\ WorldOK
    BY DEF NeighborTypeOK, WorldOK, Worlds
<1>2. world.port \in [Macs -> Ports \cup {NONE}] /\ world.fdb \in [Macs -> Ports \cup {NONE}]
    BY <1>1 DEF Worlds
<1>3. w = [[[world EXCEPT !.port = world.port] EXCEPT !.fdb = world.fdb] EXCEPT !.arp = A]
    BY <1>1 DEF Worlds
<1> HIDE DEF w
<1> QED
  <2>1. PICK P : P = world.port
      OBVIOUS
  <2>2. PICK F : F = world.fdb
      OBVIOUS
  <2>3. P \in [Macs -> Ports \cup {NONE}] /\ F \in [Macs -> Ports \cup {NONE}]
      BY <1>2, <2>1, <2>2
  <2>4. w = [[[world EXCEPT !.port = P] EXCEPT !.fdb = F] EXCEPT !.arp = A]
      BY <1>3, <2>1, <2>2
  <2>5. /\ world' \in Worlds /\ world'.bridged = world.bridged
        /\ world'.port = P /\ world'.fdb = F /\ world'.arp = A
        /\ UNCHANGED <<queue, cache, told, clients, lost>>
      BY <1>1, <2>3, <2>4, Changed DEF w
  <2> QED
      BY <2>1, <2>2, <2>5

(* The types are kept *)

LEMMA WorldChangesType ==
    ASSUME NeighborTypeOK, world' \in Worlds, world'.bridged = world.bridged,
           ~world.bridged => world'.arp \subseteq Ports \X Macs \X Addrs /\ \A m \in Macs : world'.fdb[m] = NONE,
           nl' \in Seq(Messages), ~world.bridged => nl' \in Seq(PlainMessages), drv' \in Seq(Associations),
           UNCHANGED <<queue, cache, told, clients>>
    PROVE  NeighborTypeOK'
<1>1. WorldOK'
    BY DEF WorldOK, Worlds
<1>2. /\ queue \in Seq(Events) /\ (~world.bridged => queue \in Seq(PlainEvents)) /\ CacheOK(cache)
      /\ clients \subseteq WlanPorts \X Macs
      /\ told \subseteq Devs \X Macs \X (Addrs \ LinkLocal)
      /\ \A t \in told : t[1] \in LanPorts \/ <<t[1], t[2]>> \in clients
    BY DEF NeighborTypeOK
<1>3. CacheOK(cache')
    BY <1>2
<1> QED
    BY <1>1, <1>2, <1>3 DEF NeighborTypeOK

LEMMA TypeFacts ==
    ASSUME NeighborTypeOK
    PROVE  /\ world \in Worlds
           /\ ~world.bridged => world.arp \subseteq Ports \X Macs \X Addrs /\ \A m \in Macs : world.fdb[m] = NONE
           /\ nl \in Seq(Messages) /\ (~world.bridged => nl \in Seq(PlainMessages))
           /\ drv \in Seq(Associations)
           /\ queue \in Seq(Events) /\ (~world.bridged => queue \in Seq(PlainEvents))
           /\ CacheOK(cache) /\ clients \subseteq WlanPorts \X Macs
           /\ told \subseteq Devs \X Macs \X (Addrs \ LinkLocal)
           /\ \A t \in told : t[1] \in LanPorts \/ <<t[1], t[2]>> \in clients
    BY DEF NeighborTypeOK, WorldOK, Worlds

LEMMA JoinType ==
    ASSUME NeighborTypeOK, NEW m \in Macs, NEW p \in Ports, Join(m, p)
    PROVE  NeighborTypeOK'
<1>1. /\ world' \in Worlds /\ world'.bridged = world.bridged /\ world'.arp = world.arp
      /\ (~world.bridged => world'.fdb = world.fdb)
      /\ UNCHANGED <<queue, cache, told, clients>>
    BY JoinWorld
<1>2. drv' \in Seq(Associations)
  <2>1. drv \in Seq(Associations)
      BY TypeFacts
  <2>2. CASE p \in WlanPorts
    <3> DEFINE x == Event("CLIENT_ADD_EX", p, NO_NAME, m, ZERO)
               y == Event("NEW_NEIGH", p, NO_NAME, m, ZERO)
    <3>1. drv' = Append(Append(drv, x), y)
        BY <2>1, <2>2, Posted DEF Join
    <3>2. x \in Associations /\ y \in Associations
        BY <2>2, AssociationMade
    <3> HIDE DEF x, y
    <3> QED
        BY <2>1, <3>1, <3>2
  <2>3. CASE p \notin WlanPorts
      BY <2>1, <2>3 DEF Join
  <2> QED
      BY <2>2, <2>3
<1>3. nl' \in Seq(Messages) /\ (~world.bridged => nl' \in Seq(PlainMessages))
  <2>1. nl \in Seq(Messages) /\ (~world.bridged => nl \in Seq(PlainMessages))
      BY TypeFacts
  <2> DEFINE n == Message("RTM_NEWNEIGH", p, m, ZERO)
  <2>2. n \in Messages
      BY MessageMade DEF Devs
  <2>3. nl' = IF world.bridged /\ world.fdb[m] # p THEN Append(nl, n) ELSE nl
      BY DEF Join
  <2> HIDE DEF n
  <2>4. CASE world.bridged /\ world.fdb[m] # p
      BY <2>1, <2>2, <2>3, <2>4
  <2>5. CASE ~(world.bridged /\ world.fdb[m] # p)
      BY <2>1, <2>3, <2>5
  <2> QED
      BY <2>4, <2>5
<1>4. ~world.bridged => world'.arp \subseteq Ports \X Macs \X Addrs /\ \A x \in Macs : world'.fdb[x] = NONE
    BY <1>1, TypeFacts
<1> QED
    BY <1>1, <1>2, <1>3, <1>4, WorldChangesType

LEMMA LeaveType ==
    ASSUME NeighborTypeOK, NEW m \in Macs, Leave(m)
    PROVE  NeighborTypeOK'
<1>1. /\ world' \in Worlds /\ world'.bridged = world.bridged /\ world'.arp = world.arp /\ world'.fdb = world.fdb
      /\ UNCHANGED <<queue, cache, told, clients>>
    BY LeaveWorld
<1>2. drv' \in Seq(Associations)
  <2>1. drv \in Seq(Associations)
      BY TypeFacts
  <2> DEFINE p == world.port[m]
             x == Event("CLIENT_DEL", p, NO_NAME, m, ZERO)
  <2>2. CASE p \in WlanPorts
    <3>1. drv' = Append(drv, x)
        BY <2>1, <2>2, Posted DEF Leave
    <3>2. x \in Associations
        BY <2>2, AssociationMade
    <3> HIDE DEF x
    <3> QED
        BY <2>1, <3>1, <3>2
  <2>3. CASE p \notin WlanPorts
      BY <2>1, <2>3 DEF Leave
  <2> QED
      BY <2>2, <2>3
<1>3. nl' = nl
    BY DEF Leave
<1>4. ~world.bridged => world'.arp \subseteq Ports \X Macs \X Addrs /\ \A x \in Macs : world'.fdb[x] = NONE
    BY <1>1, TypeFacts
<1> QED
    BY <1>1, <1>2, <1>3, <1>4, TypeFacts, WorldChangesType

LEMMA AgeType ==
    ASSUME NeighborTypeOK, NEW m \in Macs, Age(m)
    PROVE  NeighborTypeOK'
<1>1. /\ world' \in Worlds /\ world'.bridged = world.bridged /\ world.bridged /\ world.fdb[m] \in Ports
      /\ UNCHANGED <<queue, cache, told, clients>>
    BY AgeWorld
<1> DEFINE n == Message("RTM_DELNEIGH", world.fdb[m], m, ZERO)
<1>2. n \in Messages
    BY <1>1, MessageMade DEF Devs
<1>3. nl' = Append(nl, n) /\ drv' = drv
    BY DEF Age
<1> HIDE DEF n
<1>4. nl' \in Seq(Messages)
    BY <1>2, <1>3, TypeFacts
<1> QED
    BY <1>1, <1>3, <1>4, TypeFacts, WorldChangesType

\* What the kernel says of a neighbour entry.
LEMMA ArpType ==
    ASSUME NeighborTypeOK, NEW A \in SUBSET (Devs \X Macs \X Addrs), Change([world EXCEPT !.arp = A]),
           ~world.bridged => A \subseteq Ports \X Macs \X Addrs,
           NEW n \in Messages, ~world.bridged => n \in PlainMessages, nl' = Append(nl, n), drv' = drv
    PROVE  NeighborTypeOK'
<1>1. /\ world' \in Worlds /\ world'.bridged = world.bridged /\ world'.arp = A /\ world'.fdb = world.fdb
      /\ UNCHANGED <<queue, cache, told, clients>>
    BY ArpWorld
<1>2. nl' \in Seq(Messages) /\ (~world.bridged => nl' \in Seq(PlainMessages))
    BY TypeFacts, Joined
<1> QED
    BY <1>1, <1>2, TypeFacts, WorldChangesType

LEMMA LearnFacts ==
    ASSUME NeighborTypeOK, NEW m \in Macs, NEW a \in Addrs, Learn(m, a),
           NEW i, i = Dev(world.port[m])
    PROVE  /\ i \in Devs /\ (~world.bridged => i \in Ports)
           /\ world.arp \cup {<<i, m, a>>} \in SUBSET (Devs \X Macs \X Addrs)
           /\ Change([world EXCEPT !.arp = world.arp \cup {<<i, m, a>>}])
           /\ nl' = Append(nl, Message("RTM_NEWNEIGH", i, m, a)) /\ drv' = drv
<1>1. world \in Worlds
    BY TypeFacts
<1>2. world.port[m] \in Ports
    BY <1>1 DEF Learn, Worlds
<1>3. i \in Devs /\ (~world.bridged => i \in Ports)
    BY <1>2 DEF Dev, Devs
<1>4. /\ Change([world EXCEPT !.arp = @ \cup {<<i, m, a>>}])
      /\ nl' = Append(nl, Message("RTM_NEWNEIGH", i, m, a)) /\ drv' = drv
    BY DEF Learn
<1>5. [world EXCEPT !.arp = @ \cup {<<i, m, a>>}] = [world EXCEPT !.arp = world.arp \cup {<<i, m, a>>}]
    BY <1>1 DEF Worlds
<1> QED
    BY <1>1, <1>3, <1>4, <1>5 DEF Worlds

LEMMA LearnType ==
    ASSUME NeighborTypeOK, NEW m \in Macs, NEW a \in Addrs, Learn(m, a)
    PROVE  NeighborTypeOK'
<1>1. PICK i : i = Dev(world.port[m])
    OBVIOUS
<1>2. PICK A : A = world.arp \cup {<<i, m, a>>}
    OBVIOUS
<1>3. PICK n : n = Message("RTM_NEWNEIGH", i, m, a)
    OBVIOUS
<1>4. /\ A \in SUBSET (Devs \X Macs \X Addrs) /\ Change([world EXCEPT !.arp = A])
      /\ nl' = Append(nl, n) /\ drv' = drv
      /\ i \in Devs /\ (~world.bridged => i \in Ports)
    BY <1>1, <1>2, <1>3, LearnFacts
<1>5. n \in Messages /\ (~world.bridged => n \in PlainMessages)
    BY <1>3, <1>4, MessageMade
<1>6. ~world.bridged => A \subseteq Ports \X Macs \X Addrs
    BY <1>2, <1>4, TypeFacts
<1> QED
    BY <1>4, <1>5, <1>6, ArpType

LEMMA ExpireFacts ==
    ASSUME NeighborTypeOK, NEW e \in world.arp, Expire(e)
    PROVE  /\ e = <<e[1], e[2], e[3]>> /\ e[1] \in Devs /\ e[2] \in Macs /\ e[3] \in Addrs
           /\ (~world.bridged => e[1] \in Ports)
           /\ world.arp \ {e} \in SUBSET (Devs \X Macs \X Addrs)
           /\ Change([world EXCEPT !.arp = world.arp \ {e}])
           /\ nl' = Append(nl, Message("RTM_DELNEIGH", e[1], e[2], e[3])) /\ drv' = drv
<1>1. world \in Worlds /\ (~world.bridged => world.arp \subseteq Ports \X Macs \X Addrs)
    BY TypeFacts
<1>2. world.arp \subseteq Devs \X Macs \X Addrs
    BY <1>1 DEF Worlds
<1>3. [world EXCEPT !.arp = @ \ {e}] = [world EXCEPT !.arp = world.arp \ {e}]
    BY <1>1 DEF Worlds
<1> QED
    BY <1>1, <1>2, <1>3 DEF Expire

LEMMA ExpireType ==
    ASSUME NeighborTypeOK, NEW e \in world.arp, Expire(e)
    PROVE  NeighborTypeOK'
<1>1. PICK A : A = world.arp \ {e}
    OBVIOUS
<1>2. PICK n : n = Message("RTM_DELNEIGH", e[1], e[2], e[3])
    OBVIOUS
<1>3. /\ A \in SUBSET (Devs \X Macs \X Addrs) /\ Change([world EXCEPT !.arp = A])
      /\ nl' = Append(nl, n) /\ drv' = drv
      /\ e[1] \in Devs /\ e[2] \in Macs /\ e[3] \in Addrs /\ (~world.bridged => e[1] \in Ports)
    BY <1>1, <1>2, ExpireFacts
<1>4. n \in Messages /\ (~world.bridged => n \in PlainMessages)
    BY <1>2, <1>3, MessageMade
<1>5. ~world.bridged => A \subseteq Ports \X Macs \X Addrs
    BY <1>1, TypeFacts
<1> QED
    BY <1>3, <1>4, <1>5, ArpType

LEMMA NetlinkType ==
    ASSUME NeighborTypeOK, ipa_nl_recv_msg
    PROVE  NeighborTypeOK'
<1> DEFINE e == ipa_nl_decode_nlmsg(Head(nl))
<1>1. nl # << >> /\ queue' = Append(queue, e) /\ nl' = Tail(nl) /\ UNCHANGED <<world, drv, cache, told, clients>>
    BY DEF ipa_nl_recv_msg
<1>2. Head(nl) \in Messages /\ (~world.bridged => Head(nl) \in PlainMessages)
    BY <1>1, TypeFacts, Left
<1>3. e \in Events /\ (~world.bridged => e \in PlainEvents)
    BY <1>2, Decoded
<1> HIDE DEF e
<1>4. queue' \in Seq(Events) /\ (~world.bridged => queue' \in Seq(PlainEvents))
    BY <1>1, <1>3, TypeFacts, Joined
<1>5. nl' \in Seq(Messages) /\ (~world.bridged => nl' \in Seq(PlainMessages))
    BY <1>1, TypeFacts, Left
<1> QED
    BY <1>1, <1>4, <1>5 DEF NeighborTypeOK, WorldOK, CacheOK, Slots

LEMMA DriverType ==
    ASSUME NeighborTypeOK, ipa_driver_msg_notifier
    PROVE  NeighborTypeOK'
<1> DEFINE e == Head(drv)
<1>1. drv # << >> /\ queue' = Append(queue, e) /\ drv' = Tail(drv) /\ UNCHANGED <<world, nl, cache, told, clients>>
    BY DEF ipa_driver_msg_notifier
<1>2. e \in Associations /\ drv' \in Seq(Associations)
    BY <1>1, TypeFacts, Left
<1>3. e \in Events /\ e \in PlainEvents
    BY <1>2, AssociationPlain
<1> HIDE DEF e
<1>4. queue' \in Seq(Events) /\ (~world.bridged => queue' \in Seq(PlainEvents))
    BY <1>1, <1>3, TypeFacts, Joined
<1> QED
    BY <1>1, <1>2, <1>4 DEF NeighborTypeOK, WorldOK, CacheOK, Slots

\* The command thread takes the event d off the queue.
LEMMA Taken ==
    ASSUME NeighborTypeOK, queue # << >>, NEW d, d = Head(queue)
    PROVE  /\ d \in Events /\ Tail(queue) \in Seq(Events)
           /\ ~world.bridged => d \in PlainEvents /\ Tail(queue) \in Seq(PlainEvents)
    BY TypeFacts, Left

LEMMA NeighborSteps ==
    ASSUME NeighborTypeOK, queue # << >>, NEW d, d = Head(queue), NeighborEvent(d)
    PROVE  /\ CacheOK(cache') /\ UNCHANGED told
           /\ d.event \in {"CLIENT_ADD_EX", "NEW_NEIGH", "DEL_NEIGH"}
           /\ clients' = IF d.event = "CLIENT_ADD_EX" THEN clients \cup {<<d.iface, d.mac>>} ELSE clients
           /\ \/ queue' = Tail(queue)
              \/ \E e \in AddrEvents : queue' = Append(Tail(queue), e) /\ Due(e, d)
           /\ \A p \in LanPorts, m \in Macs, a \in Addrs \ LinkLocal :
                 d = Event("DEL_NEIGH", p, NO_NAME, m, a) => queue' = Append(Tail(queue), ADDR_DEL(p, m, a))
<1>1. PICK r : r = event_callback(cache, d)
    OBVIOUS
<1>2. /\ d.event \in {"CLIENT_ADD_EX", "NEW_NEIGH", "DEL_NEIGH"}
      /\ cache' = r.cache /\ queue' = Tail(queue) \o r.posts /\ UNCHANGED told
      /\ clients' = IF d.event = "CLIENT_ADD_EX" THEN clients \cup {<<d.iface, d.mac>>} ELSE clients
    BY <1>1 DEF NeighborEvent
<1>3. d \in Events /\ Tail(queue) \in Seq(Events) /\ CacheOK(cache)
    BY Taken, TypeFacts
<1>4. Handles(d, r)
    BY <1>1, <1>2, <1>3, EventHandled
<1>5. ASSUME NEW q \in Seq(Events)
      PROVE  q \o << >> = q /\ \A e \in AddrEvents : q \o <<e>> = Append(q, e)
    BY <1>5, AddrEventPlain
<1>6. \/ queue' = Tail(queue)
      \/ \E e \in AddrEvents : queue' = Append(Tail(queue), e) /\ Due(e, d)
  <2> DEFINE q == Tail(queue)
  <2>1. q \in Seq(Events) /\ queue' = q \o r.posts
      BY <1>2, <1>3
  <2> HIDE DEF q
  <2>2. \/ queue' = q
        \/ \E e \in AddrEvents : queue' = Append(q, e) /\ Due(e, d)
      BY <1>4, <1>5, <2>1 DEF Handles
  <2> QED
      BY <2>2 DEF q
<1>7. ASSUME NEW p \in LanPorts, NEW m \in Macs, NEW a \in Addrs \ LinkLocal,
             d = Event("DEL_NEIGH", p, NO_NAME, m, a)
      PROVE  queue' = Append(Tail(queue), ADDR_DEL(p, m, a))
  <2>1. r.posts = <<ADDR_DEL(p, m, a)>>
      BY <1>1, <1>3, <1>7, EndAnnounced
  <2>2. ADDR_DEL(p, m, a) \in AddrEvents
      BY AddrEventMade DEF ADDR_DEL, Devs, Ports
  <2> QED
      BY <1>2, <1>3, <1>5, <2>1, <2>2
<1> QED
    BY <1>2, <1>4, <1>6, <1>7 DEF Handles

LEMMA NeighborEventType ==
    ASSUME NeighborTypeOK, queue # << >>, NEW d, d = Head(queue), NeighborEvent(d), UNCHANGED <<world, nl, drv>>
    PROVE  NeighborTypeOK'
<1>1. /\ d \in Events /\ Tail(queue) \in Seq(Events)
      /\ ~world.bridged => Tail(queue) \in Seq(PlainEvents)
    BY Taken
<1>2. /\ CacheOK(cache') /\ UNCHANGED told
      /\ clients' = IF d.event = "CLIENT_ADD_EX" THEN clients \cup {<<d.iface, d.mac>>} ELSE clients
      /\ \/ queue' = Tail(queue)
         \/ \E e \in AddrEvents : queue' = Append(Tail(queue), e)
    BY NeighborSteps
<1>3. queue' \in Seq(Events) /\ (~world.bridged => queue' \in Seq(PlainEvents))
  <2> DEFINE q == Tail(queue)
  <2>1. /\ q \in Seq(Events) /\ (~world.bridged => q \in Seq(PlainEvents))
        /\ queue' = q \/ \E e \in AddrEvents : queue' = Append(q, e)
      BY <1>1, <1>2
  <2> HIDE DEF q
  <2>2. CASE queue' = q
      BY <2>1, <2>2
  <2>3. CASE queue' # q
    <3>1. PICK e \in AddrEvents : queue' = Append(q, e)
        BY <2>1, <2>3
    <3>2. e \in Events /\ e \in PlainEvents
        BY AddrEventPlain
    <3> QED
        BY <2>1, <3>1, <3>2, Joined
  <2> QED
      BY <2>2, <2>3
<1>4. clients' \subseteq WlanPorts \X Macs /\ clients \subseteq clients'
  <2>1. d.event = "CLIENT_ADD_EX" => d.iface \in WlanPorts /\ d.mac \in Macs
      BY <1>1, EventWhole DEF EventOK, EventTuples
  <2> QED
      BY <1>2, <2>1, TypeFacts
<1> QED
    BY <1>2, <1>3, <1>4 DEF NeighborTypeOK, WorldOK

\* The downstream objects hear of an address, or of a client that left.
LEMMA DownstreamType ==
    ASSUME NeighborTypeOK, queue # << >>, NEW d, d = Head(queue),
           AddrAdd(d) \/ AddrDel(d) \/ ClientDel(d),
           queue' = Tail(queue), UNCHANGED <<world, nl, drv, cache>>
    PROVE  NeighborTypeOK'
<1>1. /\ d \in Events /\ queue' \in Seq(Events)
      /\ ~world.bridged => queue' \in Seq(PlainEvents)
    BY Taken
<1>2. /\ clients \subseteq WlanPorts \X Macs /\ told \subseteq Devs \X Macs \X (Addrs \ LinkLocal)
      /\ \A t \in told : t[1] \in LanPorts \/ <<t[1], t[2]>> \in clients
    BY TypeFacts
<1>3. d.iface \in Devs /\ d.mac \in Macs /\ EventOK(d)
    BY <1>1, EventWhole DEF EventTuples
<1>4. /\ clients' \subseteq WlanPorts \X Macs /\ told' \subseteq Devs \X Macs \X (Addrs \ LinkLocal)
      /\ \A t \in told' : t[1] \in LanPorts \/ <<t[1], t[2]>> \in clients'
  <2>1. CASE AddrAdd(d)
    <3>1. d.addr \in Addrs \ LinkLocal
        BY <1>3, <2>1 DEF AddrAdd, EventOK
    <3>2. CASE d.iface \in LanPorts \/ <<d.iface, d.mac>> \in clients
      <4>1. clients' = clients /\ told' \subseteq told \cup {<<d.iface, d.mac, d.addr>>}
          BY <2>1 DEF AddrAdd
      <4> QED
          BY <1>2, <1>3, <3>1, <3>2, <4>1
    <3>3. CASE ~(d.iface \in LanPorts \/ <<d.iface, d.mac>> \in clients)
      <4>1. clients' = clients /\ told' = told
          BY <2>1, <3>3 DEF AddrAdd
      <4> QED
          BY <1>2, <4>1
    <3> QED
        BY <3>2, <3>3
  <2>2. CASE AddrDel(d)
    <3>1. clients' = clients /\ told' \subseteq told
        BY <2>2 DEF AddrDel
    <3> QED
        BY <1>2, <3>1
  <2>3. CASE ClientDel(d)
    <3>1. clients' = clients \ {<<d.iface, d.mac>>} /\ told' = told \ Of(d.iface, d.mac)
        BY <2>3 DEF ClientDel
    <3>2. ASSUME NEW t \in told', t[1] \notin LanPorts
          PROVE  <<t[1], t[2]>> \in clients'
      <4>1. t \in told /\ ~(t[1] = d.iface /\ t[2] = d.mac)
          BY <3>1 DEF Of
      <4> QED
          BY <1>2, <3>1, <3>2, <4>1
    <3> QED
        BY <1>2, <3>1, <3>2
  <2> QED
      BY <2>1, <2>2, <2>3
<1> QED
    BY <1>1, <1>4 DEF NeighborTypeOK, WorldOK, CacheOK, Slots

LEMMA NeighborTypeInit == Init => NeighborTypeOK
<1> SUFFICES ASSUME Init
             PROVE  NeighborTypeOK
    OBVIOUS
<1>1. /\ nl = << >> /\ drv = << >> /\ queue = << >> /\ told = {} /\ clients = {}
      /\ cache = [neighbor_client |-> << >>, circular_index |-> 1]
    BY DEF Init
<1>2. WorldOK
    BY DEF Init, WorldOK
<1>3. CacheOK(cache)
  <2>1. 1 \in 1..IPA_MAX_NUM_NEIGHBOR_CLIENTS /\ 0 <= IPA_MAX_NUM_NEIGHBOR_CLIENTS
      BY NeighborAssumption
  <2>2. << >> \in Seq(Entries) /\ Len(<< >>) = 0 /\ 1..0 = {}
      OBVIOUS
  <2>3. cache.neighbor_client = << >>
      BY <1>1
  <2>4. Slots(cache) = {}
      BY <2>2, <2>3 DEF Slots
  <2> QED
      BY <1>1, <2>1, <2>2, <2>3, <2>4 DEF CacheOK
<1> QED
    BY <1>1, <1>2, <1>3 DEF NeighborTypeOK

LEMMA ProcessCases ==
    ASSUME ProcessEvt, NEW d, d = Head(queue)
    PROVE  /\ queue # << >> /\ UNCHANGED <<world, nl, drv>>
           /\ \/ NeighborEvent(d)
              \/ (AddrAdd(d) \/ AddrDel(d) \/ ClientDel(d)) /\ queue' = Tail(queue) /\ UNCHANGED cache
    BY DEF ProcessEvt

THEOREM NeighborTypeNext == NeighborTypeOK /\ [Next]_vars => NeighborTypeOK'
<1> SUFFICES ASSUME NeighborTypeOK, [Next]_vars
             PROVE  NeighborTypeOK'
    OBVIOUS
<1>1. CASE UNCHANGED vars
    BY <1>1 DEF vars, NeighborTypeOK, WorldOK, CacheOK, Slots
<1>2. CASE ProcessEvt
  <2>1. PICK d : d = Head(queue)
      OBVIOUS
  <2> QED
      BY <1>2, <2>1, ProcessCases, NeighborEventType, DownstreamType
<1> QED
    BY <1>1, <1>2, JoinType, LeaveType, AgeType, LearnType, ExpireType, NetlinkType, DriverType DEF Next, Addrs

THEOREM NeighborTypeInvariant == Spec => []NeighborTypeOK
    BY NeighborTypeInit, NeighborTypeNext, PTL DEF Spec

(* Associations that are over *)

AddOf(p, m) == Event("CLIENT_ADD_EX", p, NO_NAME, m, ZERO)
DelOf(p, m) == Event("CLIENT_DEL", p, NO_NAME, m, ZERO)

\* With x in the driver's queue, q in the command queue and the associations S.
Over(x, q, S, p, m) ==
    /\ Followed(x, AddOf(p, m), DelOf(p, m))
    /\ Followed(q, AddOf(p, m), DelOf(p, m)) \/ Has(x, DelOf(p, m))
    /\ <<p, m>> \in S => Has(q, DelOf(p, m)) \/ Has(x, DelOf(p, m))

LEMMA OverMeans == \A p, m : AssociationEnds(p, m) <=> Over(drv, queue, clients, p, m)
    BY DEF AssociationEnds, Over, AddOf, DelOf

LEMMA OverMeansNext ==
    ASSUME NEW p, NEW m, Over(drv', queue', clients', p, m)
    PROVE  AssociationEnds(p, m)'
    BY DEF AssociationEnds, Over, AddOf, DelOf

LEMMA AddNotDel == \A p, m : AddOf(p, m) # DelOf(p, m)
<1>1. \A p, m : AddOf(p, m).event = "CLIENT_ADD_EX" /\ DelOf(p, m).event = "CLIENT_DEL"
    BY EventFields DEF AddOf, DelOf
<1> QED
    BY <1>1

\* Something else is posted to the command queue, or by the driver.
LEMMA OverPosted ==
    ASSUME NEW x \in Seq(Associations), NEW q \in Seq(Events), NEW S, NEW p, NEW m, Over(x, q, S, p, m),
           NEW e, e # AddOf(p, m)
    PROVE  /\ e \in Events => Over(x, Append(q, e), S, p, m)
           /\ e \in Associations => Over(Append(x, e), q, S, p, m)
    BY HasJoined, FollowedJoined, AddNotDel DEF Over

\* The end is posted by the driver.
LEMMA OverEnded ==
    ASSUME NEW x \in Seq(Associations), NEW q, NEW S, NEW p, NEW m, DelOf(p, m) \in Associations
    PROVE  Over(Append(x, DelOf(p, m)), q, S, p, m)
<1> DEFINE b == DelOf(p, m)
<1>1. Followed(Append(x, b), AddOf(p, m), b)
    BY FollowedJoined, AddNotDel
<1>2. Has(Append(x, b), b)
    BY HasJoined
<1> QED
    BY <1>1, <1>2 DEF Over

\* The driver thread hands its oldest event on.
LEMMA OverHanded ==
    ASSUME NEW x \in Seq(Associations), x # << >>, NEW q \in Seq(Events), NEW S, NEW p, NEW m, Over(x, q, S, p, m)
    PROVE  Over(Tail(x), Append(q, Head(x)), S, p, m)
<1> DEFINE a == AddOf(p, m)
           b == DelOf(p, m)
           h == Head(x)
<1>1. h \in Associations /\ h \in Events /\ a # b
    BY Left, AssociationPlain, AddNotDel
<1>2. Followed(Tail(x), a, b) /\ (h = a => Has(Tail(x), b))
    BY FollowedLeft DEF Over
<1>3. Has(x, b) <=> h = b \/ Has(Tail(x), b)
    BY HasLeft
<1>4. Has(Append(q, h), b) <=> Has(q, b) \/ h = b
    BY <1>1, HasJoined
<1>5. /\ Followed(q, a, b) /\ h # a => Followed(Append(q, h), a, b)
      /\ h = b => Followed(Append(q, h), a, b)
    BY <1>1, FollowedJoined
<1> HIDE DEF a, b, h
<1>6. /\ Followed(q, a, b) \/ Has(x, b)
      /\ <<p, m>> \in S => Has(q, b) \/ Has(x, b)
    BY DEF Over, a, b
<1>7. Followed(Append(q, h), a, b) \/ Has(Tail(x), b)
    BY <1>2, <1>3, <1>5, <1>6
<1>8. <<p, m>> \in S => Has(Append(q, h), b) \/ Has(Tail(x), b)
    BY <1>3, <1>4, <1>6
<1> QED
    BY <1>2, <1>7, <1>8 DEF Over, a, b, h

\* The command thread takes the event d off its queue.
LEMMA OverTaken ==
    ASSUME NEW x \in Seq(Associations), NEW q \in Seq(Events), q # << >>, NEW S, NEW T, NEW p, NEW m,
           Over(x, q, S, p, m), NEW d, d = Head(q),
           <<p, m>> \in T => d # DelOf(p, m) /\ (<<p, m>> \in S \/ d = AddOf(p, m))
    PROVE  Over(x, Tail(q), T, p, m)
<1> DEFINE a == AddOf(p, m)
           b == DelOf(p, m)
<1>1. Followed(q, a, b) => Followed(Tail(q), a, b) /\ (d = a => Has(Tail(q), b))
    BY FollowedLeft
<1>2. Has(q, b) <=> d = b \/ Has(Tail(q), b)
    BY HasLeft
<1>3. /\ Followed(x, a, b) /\ (Followed(q, a, b) \/ Has(x, b))
      /\ <<p, m>> \in S => Has(q, b) \/ Has(x, b)
      /\ <<p, m>> \in T => d # b /\ (<<p, m>> \in S \/ d = a)
    BY DEF Over
<1> HIDE DEF a, b
<1>4. /\ Followed(x, a, b) /\ (Followed(Tail(q), a, b) \/ Has(x, b))
      /\ <<p, m>> \in T => Has(Tail(q), b) \/ Has(x, b)
    BY <1>1, <1>2, <1>3
<1> QED
    BY <1>4 DEF Over, a, b

AssociationsEnd == \A p \in WlanPorts, m \in Macs : world.port[m] # p => AssociationEnds(p, m)

LEMMA AssociationsNext ==
    ASSUME \A p \in WlanPorts, m \in Macs : world'.port[m] # p => Over(drv', queue', clients', p, m)
    PROVE  AssociationsEnd'
<1> SUFFICES ASSUME NEW p \in WlanPorts, NEW m \in Macs, world'.port[m] # p
             PROVE  AssociationEnds(p, m)'
    BY DEF AssociationsEnd
<1> QED
    BY OverMeansNext

LEMMA JoinAssociations ==
    ASSUME NeighborTypeOK, AssociationsEnd, NEW m \in Macs, NEW p \in Ports, Join(m, p)
    PROVE  AssociationsEnd'
<1>1. world'.port = [world.port EXCEPT ![m] = p] /\ UNCHANGED <<queue, clients>> /\ world.port[m] = NONE
    BY JoinWorld DEF Join
<1>2. world \in Worlds /\ drv \in Seq(Associations) /\ queue \in Seq(Events)
    BY TypeFacts
<1> SUFFICES ASSUME NEW x \in WlanPorts, NEW y \in Macs, world'.port[y] # x
             PROVE  Over(drv', queue', clients', x, y)
    BY AssociationsNext
<1>3. world.port[y] # x /\ ~(x = p /\ y = m)
    BY <1>1, <1>2, NeighborAssumption DEF Worlds, Ports
<1>4. Over(drv, queue, clients, x, y)
    BY <1>3, OverMeans DEF AssociationsEnd
<1>5. CASE p \in WlanPorts
  <2> DEFINE a == AddOf(p, m)
             n == Event("NEW_NEIGH", p, NO_NAME, m, ZERO)
  <2>1. drv' = Append(Append(drv, a), n)
      BY <1>2, <1>5, Posted DEF Join, AddOf
  <2>2. a \in Associations /\ n \in Associations
      BY <1>5, AssociationMade DEF AddOf
  <2>3. a # AddOf(x, y) /\ n # AddOf(x, y)
    <3>1. /\ a.iface = p /\ a.mac = m /\ n.event = "NEW_NEIGH" /\ AddOf(x, y).event = "CLIENT_ADD_EX"
          /\ AddOf(x, y).iface = x /\ AddOf(x, y).mac = y
        BY EventFields DEF AddOf
    <3> QED
        BY <1>3, <3>1
  <2> HIDE DEF a, n
  <2>4. Over(Append(drv, a), queue, clients, x, y) /\ Append(drv, a) \in Seq(Associations)
      BY <1>2, <1>4, <2>2, <2>3, OverPosted, Joined
  <2>5. Over(Append(Append(drv, a), n), queue, clients, x, y)
      BY <1>2, <2>2, <2>3, <2>4, OverPosted
  <2> QED
      BY <1>1, <2>1, <2>5
<1>6. CASE p \notin WlanPorts
  <2>1. drv' = drv
      BY <1>6 DEF Join
  <2> QED
      BY <1>1, <1>4, <2>1
<1> QED
    BY <1>5, <1>6

LEMMA LeaveAssociations ==
    ASSUME NeighborTypeOK, AssociationsEnd, NEW m \in Macs, Leave(m)
    PROVE  AssociationsEnd'
<1>1. world'.port = [world.port EXCEPT ![m] = NONE] /\ UNCHANGED <<queue, clients>>
    BY LeaveWorld
<1>2. world \in Worlds /\ drv \in Seq(Associations) /\ queue \in Seq(Events)
    BY TypeFacts
<1> SUFFICES ASSUME NEW x \in WlanPorts, NEW y \in Macs, world'.port[y] # x
             PROVE  Over(drv', queue', clients', x, y)
    BY AssociationsNext
<1> DEFINE p == world.port[m]
<1>3. ~(x = p /\ y = m) => world.port[y] # x
    BY <1>1, <1>2 DEF Worlds
<1>4. ~(x = p /\ y = m) => Over(drv, queue, clients, x, y)
    BY <1>3, OverMeans DEF AssociationsEnd
<1>5. CASE p \in WlanPorts
  <2> DEFINE b == DelOf(p, m)
  <2>1. drv' = Append(drv, b)
      BY <1>2, <1>5, Posted DEF Leave, DelOf
  <2>2. b \in Associations
      BY <1>5, AssociationMade DEF DelOf
  <2>3. b # AddOf(x, y)
    <3>1. b.event = "CLIENT_DEL" /\ AddOf(x, y).event = "CLIENT_ADD_EX"
        BY EventFields DEF AddOf, DelOf
    <3> QED
        BY <3>1
  <2>4. CASE x = p /\ y = m
      BY <1>1, <1>2, <2>1, <2>2, <2>4, OverEnded
  <2>5. CASE ~(x = p /\ y = m)
    <3> HIDE DEF b, p
    <3> QED
        BY <1>1, <1>2, <1>4, <2>1, <2>2, <2>3, <2>5, OverPosted
  <2> QED
      BY <2>4, <2>5
<1>6. CASE p \notin WlanPorts
  <2>1. drv' = drv
      BY <1>6 DEF Leave
  <2> QED
      BY <1>1, <1>4, <1>6, <2>1
<1> QED
    BY <1>5, <1>6

LEMMA OtherAssociations ==
    ASSUME NeighborTypeOK, AssociationsEnd, world'.port = world.port, UNCHANGED <<drv, clients>>,
           \/ queue' = queue
           \/ \E e \in Events : queue' = Append(queue, e) /\ e.event # "CLIENT_ADD_EX"
    PROVE  AssociationsEnd'
<1>2. drv \in Seq(Associations) /\ queue \in Seq(Events)
    BY TypeFacts
<1> SUFFICES ASSUME NEW x \in WlanPorts, NEW y \in Macs, world'.port[y] # x
             PROVE  Over(drv', queue', clients', x, y)
    BY AssociationsNext
<1>3. Over(drv, queue, clients, x, y)
    BY OverMeans DEF AssociationsEnd
<1>4. AddOf(x, y).event = "CLIENT_ADD_EX"
    BY EventFields DEF AddOf
<1>5. CASE queue' = queue
    BY <1>3, <1>5
<1>6. CASE queue' # queue
  <2>1. PICK e \in Events : queue' = Append(queue, e) /\ e.event # "CLIENT_ADD_EX"
      BY <1>6
  <2>2. e # AddOf(x, y)
      BY <1>4, <2>1
  <2> QED
      BY <1>2, <1>3, <2>1, <2>2, OverPosted
<1> QED
    BY <1>5, <1>6

LEMMA HandedAssociations ==
    ASSUME NeighborTypeOK, AssociationsEnd, ipa_driver_msg_notifier
    PROVE  AssociationsEnd'
<1>1. drv # << >> /\ queue' = Append(queue, Head(drv)) /\ drv' = Tail(drv) /\ UNCHANGED <<world, clients>>
    BY DEF ipa_driver_msg_notifier
<1>2. drv \in Seq(Associations) /\ queue \in Seq(Events)
    BY TypeFacts
<1> SUFFICES ASSUME NEW x \in WlanPorts, NEW y \in Macs, world'.port[y] # x
             PROVE  Over(drv', queue', clients', x, y)
    BY AssociationsNext
<1>3. Over(drv, queue, clients, x, y)
    BY <1>1, OverMeans DEF AssociationsEnd
<1> QED
    BY <1>1, <1>2, <1>3, OverHanded

LEMMA ProcessAssociations ==
    ASSUME NeighborTypeOK, AssociationsEnd, ProcessEvt
    PROVE  AssociationsEnd'
<1>1. PICK d : d = Head(queue)
    OBVIOUS
<1>2. /\ queue # << >> /\ UNCHANGED <<world, nl, drv>>
      /\ \/ NeighborEvent(d)
         \/ (AddrAdd(d) \/ AddrDel(d) \/ ClientDel(d)) /\ queue' = Tail(queue) /\ UNCHANGED cache
    BY <1>1, ProcessCases
<1>3. drv \in Seq(Associations) /\ queue \in Seq(Events) /\ d \in Events /\ Tail(queue) \in Seq(Events)
    BY <1>1, <1>2, TypeFacts, Taken
<1> SUFFICES ASSUME NEW x \in WlanPorts, NEW y \in Macs, world'.port[y] # x
             PROVE  Over(drv', queue', clients', x, y)
    BY AssociationsNext
<1>4. Over(drv, queue, clients, x, y)
    BY <1>2, OverMeans DEF AssociationsEnd
<1>5. /\ AddOf(x, y).event = "CLIENT_ADD_EX" /\ DelOf(x, y).event = "CLIENT_DEL"
      /\ DelOf(x, y).iface = x /\ DelOf(x, y).mac = y
    BY EventFields DEF AddOf, DelOf
<1>6. d.event = "CLIENT_ADD_EX" /\ d.iface = x /\ d.mac = y => d = AddOf(x, y)
    BY <1>3, EventWhole DEF AddOf, EventOK
<1>7. CASE NeighborEvent(d)
  <2>1. /\ d.event \in {"CLIENT_ADD_EX", "NEW_NEIGH", "DEL_NEIGH"}
        /\ clients' = IF d.event = "CLIENT_ADD_EX" THEN clients \cup {<<d.iface, d.mac>>} ELSE clients
        /\ \/ queue' = Tail(queue)
           \/ \E e \in AddrEvents : queue' = Append(Tail(queue), e)
      BY <1>1, <1>2, <1>7, NeighborSteps
  <2>2. <<x, y>> \in clients' => d # DelOf(x, y) /\ (<<x, y>> \in clients \/ d = AddOf(x, y))
      BY <1>5, <1>6, <2>1
  <2>3. Over(drv, Tail(queue), clients', x, y)
      BY <1>1, <1>2, <1>3, <1>4, <2>2, OverTaken
  <2>4. CASE queue' = Tail(queue)
      BY <1>2, <2>3, <2>4
  <2>5. CASE queue' # Tail(queue)
    <3>1. PICK e \in AddrEvents : queue' = Append(Tail(queue), e)
        BY <2>1, <2>5
    <3>2. e # AddOf(x, y) /\ e \in Events
        BY <1>5 DEF AddrEvents
    <3> QED
        BY <1>2, <1>3, <2>3, <3>1, <3>2, OverPosted
  <2> QED
      BY <2>4, <2>5
<1>8. CASE (AddrAdd(d) \/ AddrDel(d)) /\ queue' = Tail(queue)
  <2>1. d.event \in {"ADDR_ADD", "ADDR_DEL"} /\ clients' = clients
      BY <1>8 DEF AddrAdd, AddrDel
  <2>2. <<x, y>> \in clients' => d # DelOf(x, y) /\ <<x, y>> \in clients
      BY <1>5, <2>1
  <2> QED
      BY <1>1, <1>2, <1>3, <1>4, <1>8, <2>2, OverTaken
<1>9. CASE ClientDel(d) /\ queue' = Tail(queue)
  <2>1. clients' = clients \ {<<d.iface, d.mac>>}
      BY <1>9 DEF ClientDel
  <2>2. <<x, y>> \in clients' => d # DelOf(x, y) /\ <<x, y>> \in clients
      BY <1>5, <2>1
  <2> QED
      BY <1>1, <1>2, <1>3, <1>4, <1>9, <2>2, OverTaken
<1> QED
    BY <1>2, <1>7, <1>8, <1>9

THEOREM AssociationsNextInv == NeighborTypeOK /\ AssociationsEnd /\ [Next]_vars => AssociationsEnd'
<1> SUFFICES ASSUME NeighborTypeOK, AssociationsEnd, [Next]_vars
             PROVE  AssociationsEnd'
    OBVIOUS
<1>1. CASE UNCHANGED vars
    BY <1>1, OtherAssociations DEF vars
<1>2. ASSUME NEW m \in Macs, Age(m)
      PROVE  AssociationsEnd'
    BY <1>2, AgeWorld, OtherAssociations DEF Age
<1>3. ASSUME NEW m \in Macs, NEW a \in Addrs, Learn(m, a)
      PROVE  AssociationsEnd'
    BY <1>3, LearnFacts, ArpWorld, OtherAssociations
<1>4. ASSUME NEW e \in world.arp, Expire(e)
      PROVE  AssociationsEnd'
    BY <1>4, ExpireFacts, ArpWorld, OtherAssociations
<1>5. CASE ipa_nl_recv_msg
  <2> DEFINE e == ipa_nl_decode_nlmsg(Head(nl))
  <2>1. nl # << >> /\ queue' = Append(queue, e) /\ UNCHANGED <<world, drv, clients>>
      BY <1>5 DEF ipa_nl_recv_msg
  <2>2. e \in Events /\ e.event # "CLIENT_ADD_EX"
      BY <2>1, TypeFacts, Left, Decoded
  <2> HIDE DEF e
  <2> QED
      BY <2>1, <2>2, OtherAssociations
<1> QED
    BY <1>1, <1>2, <1>3, <1>4, <1>5, JoinAssociations, LeaveAssociations, HandedAssociations, ProcessAssociations
       DEF Next, Addrs

(* Addresses that are gone *)

NewMsg(p, m, a) == Message("RTM_NEWNEIGH", p, m, a)
EndMsg(p, m, a) == Message("RTM_DELNEIGH", p, m, a)
NewOf(p, m, a) == Event("NEW_NEIGH", p, p, m, a)
EndOf(p, m, a) == Event("DEL_NEIGH", p, NO_NAME, m, a)

\* With x in the netlink socket, q in the command queue and the addresses T known.
Past(x, q, T, p, m, a) ==
    LET gone == Has(x, EndMsg(p, m, a))
    IN /\ Followed(x, NewMsg(p, m, a), EndMsg(p, m, a))
       /\ Followed(q, NewOf(p, m, a), EndOf(p, m, a)) \/ gone
       /\ Followed(q, ADDR_ADD(p, m, a), ADDR_DEL(p, m, a)) \/ Has(q, EndOf(p, m, a)) \/ gone
       /\ <<p, m, a>> \in T => Has(q, ADDR_DEL(p, m, a)) \/ Has(q, EndOf(p, m, a)) \/ gone

LEMMA PastMeans == \A p, m, a : AddressEnds(p, m, a) <=> Past(nl, queue, told, p, m, a)
    BY DEF AddressEnds, Past, NewMsg, EndMsg, NewOf, EndOf

LEMMA PastMeansNext ==
    ASSUME NEW p, NEW m, NEW a, Past(nl', queue', told', p, m, a)
    PROVE  AddressEnds(p, m, a)'
    BY DEF AddressEnds, Past, NewMsg, EndMsg, NewOf, EndOf

LEMMA KindsApart ==
    ASSUME NEW p, NEW m, NEW a
    PROVE  /\ NewMsg(p, m, a).type = "RTM_NEWNEIGH" /\ EndMsg(p, m, a).type = "RTM_DELNEIGH"
           /\ NewOf(p, m, a).event = "NEW_NEIGH" /\ EndOf(p, m, a).event = "DEL_NEIGH"
           /\ ADDR_ADD(p, m, a).event = "ADDR_ADD" /\ ADDR_DEL(p, m, a).event = "ADDR_DEL"
           /\ NewMsg(p, m, a) # EndMsg(p, m, a) /\ NewOf(p, m, a) # EndOf(p, m, a)
           /\ ADDR_ADD(p, m, a) # ADDR_DEL(p, m, a)
<1>1. /\ NewMsg(p, m, a).type = "RTM_NEWNEIGH" /\ EndMsg(p, m, a).type = "RTM_DELNEIGH"
      /\ NewOf(p, m, a).event = "NEW_NEIGH" /\ EndOf(p, m, a).event = "DEL_NEIGH"
      /\ ADDR_ADD(p, m, a).event = "ADDR_ADD" /\ ADDR_DEL(p, m, a).event = "ADDR_DEL"
    BY EventFields, MessageFields DEF NewMsg, EndMsg, NewOf, EndOf, ADDR_ADD, ADDR_DEL
<1> QED
    BY <1>1

\* The kernel says something else, or another event is posted.
LEMMA PastPosted ==
    ASSUME NEW x \in Seq(Messages), NEW q \in Seq(Events), NEW T, NEW p, NEW m, NEW a, Past(x, q, T, p, m, a)
    PROVE  /\ \A n \in Messages : n # NewMsg(p, m, a) => Past(Append(x, n), q, T, p, m, a)
           /\ \A e \in Events : e # NewOf(p, m, a) /\ e # ADDR_ADD(p, m, a) => Past(x, Append(q, e), T, p, m, a)
    BY HasJoined, FollowedJoined, KindsApart DEF Past

\* The kernel says that the address is gone.
LEMMA PastEnded ==
    ASSUME NEW x \in Seq(Messages), NEW q, NEW T, NEW p, NEW m, NEW a, EndMsg(p, m, a) \in Messages
    PROVE  Past(Append(x, EndMsg(p, m, a)), q, T, p, m, a)
<1> DEFINE b == EndMsg(p, m, a)
<1>1. Followed(Append(x, b), NewMsg(p, m, a), b) /\ Has(Append(x, b), b)
    BY FollowedJoined, HasJoined, KindsApart
<1> QED
    BY <1>1 DEF Past

\* The netlink thread makes an event of the oldest message.
LEMMA PastHanded ==
    ASSUME NEW x \in Seq(Messages), x # << >>, NEW q \in Seq(Events), NEW T, NEW p \in LanPorts, NEW m, NEW a,
           Past(x, q, T, p, m, a), NEW e, e = ipa_nl_decode_nlmsg(Head(x))
    PROVE  Past(Tail(x), Append(q, e), T, p, m, a)
<1> DEFINE n == NewMsg(p, m, a)
           g == EndMsg(p, m, a)
           s == NewOf(p, m, a)
           t == EndOf(p, m, a)
           u == ADDR_ADD(p, m, a)
           v == ADDR_DEL(p, m, a)
           h == Head(x)
<1>1. h \in Messages /\ e \in Events
    BY Left, Decoded
<1>2. h = n <=> e = s
  <2>1. h = n => e = s
      BY MessageFields DEF ipa_nl_decode_nlmsg, NewMsg, NewOf
  <2>2. e = s => h = n
    <3>1. s.event = "NEW_NEIGH" /\ s.iface = p /\ s.mac = m /\ s.addr = a
        BY EventFields DEF NewOf
    <3>2. e = s => h.type = "RTM_NEWNEIGH" /\ h.dev = p /\ h.mac = m /\ h.addr = a
        BY <1>1, <3>1, Decoded
    <3> QED
        BY <1>1, <3>2, MessageWhole DEF NewMsg
  <2> QED
      BY <2>1, <2>2
<1>3. h = g => e = t
    BY MessageFields DEF ipa_nl_decode_nlmsg, EndMsg, EndOf
<1>4. e # u /\ n # g /\ s # t /\ u # v
  <2>1. e.event \in {"NEW_NEIGH", "DEL_NEIGH"} /\ u.event = "ADDR_ADD"
      BY <1>1, Decoded, KindsApart
  <2> QED
      BY <2>1, KindsApart
<1>5. Followed(Tail(x), n, g) /\ (h = n => Has(Tail(x), g))
    BY FollowedLeft DEF Past
<1>6. Has(x, g) <=> h = g \/ Has(Tail(x), g)
    BY HasLeft
<1>7. /\ Has(Append(q, e), t) <=> Has(q, t) \/ e = t
      /\ Has(Append(q, e), v) <=> Has(q, v) \/ e = v
    BY <1>1, HasJoined
<1>8. /\ Followed(q, s, t) /\ e # s => Followed(Append(q, e), s, t)
      /\ e = t => Followed(Append(q, e), s, t)
      /\ Followed(q, u, v) => Followed(Append(q, e), u, v)
    BY <1>1, <1>4, FollowedJoined
<1>9. /\ Followed(q, s, t) \/ Has(x, g)
      /\ Followed(q, u, v) \/ Has(q, t) \/ Has(x, g)
      /\ <<p, m, a>> \in T => Has(q, v) \/ Has(q, t) \/ Has(x, g)
    BY DEF Past
<1> HIDE DEF n, g, s, t, u, v, h
<1>10. /\ Followed(Append(q, e), s, t) \/ Has(Tail(x), g)
       /\ Followed(Append(q, e), u, v) \/ Has(Append(q, e), t) \/ Has(Tail(x), g)
       /\ <<p, m, a>> \in T => Has(Append(q, e), v) \/ Has(Append(q, e), t) \/ Has(Tail(x), g)
    BY <1>2, <1>3, <1>5, <1>6, <1>7, <1>8, <1>9
<1> QED
    BY <1>5, <1>10 DEF Past, n, g, s, t, u, v

\* The command thread takes the event d, which leaves the addresses U known and has
\* the event e posted.
LEMMA PastAnswered ==
    ASSUME NEW x \in Seq(Messages), NEW q \in Seq(Events), q # << >>, NEW T, NEW U, NEW p, NEW m, NEW a,
           Past(x, q, T, p, m, a), NEW d, d = Head(q),
           <<p, m, a>> \in U => d # ADDR_DEL(p, m, a) /\ (<<p, m, a>> \in T \/ d = ADDR_ADD(p, m, a)),
           NEW e \in Events, e # NewOf(p, m, a),
           e = ADDR_ADD(p, m, a) => d = NewOf(p, m, a), d = EndOf(p, m, a) => e = ADDR_DEL(p, m, a)
    PROVE  Past(x, Append(Tail(q), e), U, p, m, a)
<1> DEFINE g == EndMsg(p, m, a)
           s == NewOf(p, m, a)
           t == EndOf(p, m, a)
           u == ADDR_ADD(p, m, a)
           v == ADDR_DEL(p, m, a)
           y == Tail(q)
<1>1. y \in Seq(Events) /\ s # t /\ u # v /\ u # s /\ u # t /\ v # s /\ v # t
    BY Left, KindsApart
<1>2. /\ Followed(q, s, t) => Followed(y, s, t) /\ (d = s => Has(y, t))
      /\ Followed(q, u, v) => Followed(y, u, v) /\ (d = u => Has(y, v))
    BY FollowedLeft
<1>3. (Has(q, t) <=> d = t \/ Has(y, t)) /\ (Has(q, v) <=> d = v \/ Has(y, v))
    BY HasLeft
<1>4. /\ Followed(x, NewMsg(p, m, a), g)
      /\ Followed(q, s, t) \/ Has(x, g)
      /\ Followed(q, u, v) \/ Has(q, t) \/ Has(x, g)
      /\ <<p, m, a>> \in T => Has(q, v) \/ Has(q, t) \/ Has(x, g)
    BY DEF Past
<1>5. <<p, m, a>> \in U => d # v /\ (<<p, m, a>> \in T \/ d = u)
    OBVIOUS
<1>6. e # s /\ (e = u => d = s) /\ (d = t => e = v)
    OBVIOUS
<1> DEFINE r == Append(y, e)
<1>7. (Has(r, t) <=> Has(y, t) \/ e = t) /\ (Has(r, v) <=> Has(y, v) \/ e = v)
    BY <1>1, HasJoined
<1>8. /\ Followed(y, s, t) => Followed(r, s, t)
      /\ Followed(y, u, v) /\ e # u => Followed(r, u, v)
      /\ e = v => Followed(r, u, v)
    BY <1>1, <1>6, FollowedJoined
<1> HIDE DEF g, s, t, u, v, y, r
<1>9. /\ Followed(r, s, t) \/ Has(x, g)
      /\ Followed(r, u, v) \/ Has(r, t) \/ Has(x, g)
      /\ <<p, m, a>> \in U => Has(r, v) \/ Has(r, t) \/ Has(x, g)
    BY <1>1, <1>2, <1>3, <1>4, <1>5, <1>6, <1>7, <1>8
<1> QED
    BY <1>4, <1>9 DEF Past, g, s, t, u, v, y, r

\* The same of the step from this state to the next.
LEMMA PastStep ==
    ASSUME NeighborTypeOK, queue # << >>, NEW p, NEW m, NEW a, Past(nl, queue, told, p, m, a),
           NEW d, d = Head(queue), nl' = nl,
           <<p, m, a>> \in told' => d # ADDR_DEL(p, m, a) /\ (<<p, m, a>> \in told \/ d = ADDR_ADD(p, m, a))
    PROVE  /\ queue' = Tail(queue) /\ d # EndOf(p, m, a) => Past(nl', queue', told', p, m, a)
           /\ \A e \in Events :
                 /\ queue' = Append(Tail(queue), e) /\ e # NewOf(p, m, a)
                 /\ e = ADDR_ADD(p, m, a) => d = NewOf(p, m, a)
                 /\ d = EndOf(p, m, a) => e = ADDR_DEL(p, m, a)
                 => Past(nl', queue', told', p, m, a)
<1>1. nl \in Seq(Messages) /\ queue \in Seq(Events)
    BY TypeFacts
<1>2. PICK U : U = told'
    OBVIOUS
<1>3. <<p, m, a>> \in U => d # ADDR_DEL(p, m, a) /\ (<<p, m, a>> \in told \/ d = ADDR_ADD(p, m, a))
    BY <1>2
<1>4. ASSUME d # EndOf(p, m, a)
      PROVE  Past(nl, Tail(queue), U, p, m, a)
  <2> DEFINE g == EndMsg(p, m, a)
             s == NewOf(p, m, a)
             t == EndOf(p, m, a)
             u == ADDR_ADD(p, m, a)
             v == ADDR_DEL(p, m, a)
             y == Tail(queue)
  <2>1. /\ Followed(queue, s, t) => Followed(y, s, t) /\ (d = s => Has(y, t))
        /\ Followed(queue, u, v) => Followed(y, u, v) /\ (d = u => Has(y, v))
      BY <1>1, FollowedLeft
  <2>2. (Has(queue, t) <=> d = t \/ Has(y, t)) /\ (Has(queue, v) <=> d = v \/ Has(y, v))
      BY <1>1, HasLeft
  <2>3. /\ Followed(nl, NewMsg(p, m, a), g)
        /\ Followed(queue, s, t) \/ Has(nl, g)
        /\ Followed(queue, u, v) \/ Has(queue, t) \/ Has(nl, g)
        /\ <<p, m, a>> \in told => Has(queue, v) \/ Has(queue, t) \/ Has(nl, g)
      BY DEF Past
  <2>4. (<<p, m, a>> \in U => d # v /\ (<<p, m, a>> \in told \/ d = u)) /\ d # t
      BY <1>3, <1>4
  <2> HIDE DEF g, s, t, u, v, y
  <2>5. /\ Followed(y, s, t) \/ Has(nl, g)
        /\ Followed(y, u, v) \/ Has(y, t) \/ Has(nl, g)
        /\ <<p, m, a>> \in U => Has(y, v) \/ Has(y, t) \/ Has(nl, g)
      BY <2>1, <2>2, <2>3, <2>4
  <2> QED
      BY <2>3, <2>5 DEF Past, g, s, t, u, v, y
<1>5. ASSUME NEW e \in Events, e # NewOf(p, m, a),
             e = ADDR_ADD(p, m, a) => d = NewOf(p, m, a), d = EndOf(p, m, a) => e = ADDR_DEL(p, m, a)
      PROVE  Past(nl, Append(Tail(queue), e), U, p, m, a)
    BY <1>1, <1>3, <1>5, PastAnswered
<1> QED
    BY <1>2, <1>4, <1>5

AddressesEnd ==
    ~world.bridged =>
       \A p \in LanPorts, m \in Macs, a \in Addrs \ LinkLocal :
          <<p, m, a>> \notin world.arp => AddressEnds(p, m, a)

LEMMA AddressesNext ==
    ASSUME AddressesEnd, world'.bridged = world.bridged,
           \A p \in LanPorts, m \in Macs, a \in Addrs \ LinkLocal :
              /\ ~world.bridged /\ <<p, m, a>> \notin world'.arp
              /\ <<p, m, a>> \notin world.arp => Past(nl, queue, told, p, m, a)
              => Past(nl', queue', told', p, m, a)
    PROVE  AddressesEnd'
<1> SUFFICES ASSUME ~world.bridged, NEW p \in LanPorts, NEW m \in Macs, NEW a \in Addrs \ LinkLocal,
                    <<p, m, a>> \notin world'.arp
             PROVE  AddressEnds(p, m, a)'
    BY DEF AddressesEnd
<1>1. <<p, m, a>> \notin world.arp => Past(nl, queue, told, p, m, a)
    BY PastMeans DEF AddressesEnd
<1>2. Past(nl', queue', told', p, m, a)
    BY <1>1
<1> QED
    BY <1>2, PastMeansNext

\* Nothing the addresses are about moves.
LEMMA AddressesSame ==
    ASSUME NeighborTypeOK, AddressesEnd, world'.bridged = world.bridged, ~world.bridged => world'.arp = world.arp,
           ~world.bridged => nl' = nl, UNCHANGED <<queue, told>>
    PROVE  AddressesEnd'
    BY AddressesNext

LEMMA LearnAddresses ==
    ASSUME NeighborTypeOK, AddressesEnd, NEW y \in Macs, NEW z \in Addrs, Learn(y, z)
    PROVE  AddressesEnd'
<1>1. PICK i : i = Dev(world.port[y])
    OBVIOUS
<1>2. PICK A : A = world.arp \cup {<<i, y, z>>}
    OBVIOUS
<1>3. PICK n : n = Message("RTM_NEWNEIGH", i, y, z)
    OBVIOUS
<1>4. /\ i \in Devs /\ A \in SUBSET (Devs \X Macs \X Addrs) /\ Change([world EXCEPT !.arp = A])
      /\ nl' = Append(nl, n)
    BY <1>1, <1>2, <1>3, LearnFacts
<1>5. world'.bridged = world.bridged /\ world'.arp = A /\ UNCHANGED <<queue, told>>
    BY <1>4, ArpWorld
<1>6. n \in Messages /\ n.type = "RTM_NEWNEIGH" /\ n.dev = i /\ n.mac = y /\ n.addr = z
    BY <1>3, <1>4, MessageMade, MessageFields
<1>7. nl \in Seq(Messages) /\ queue \in Seq(Events)
    BY TypeFacts
<1>8. ASSUME NEW p \in LanPorts, NEW m \in Macs, NEW a \in Addrs \ LinkLocal,
             <<p, m, a>> \notin A, <<p, m, a>> \notin world.arp => Past(nl, queue, told, p, m, a)
      PROVE  Past(nl', queue', told', p, m, a)
  <2>1. Past(nl, queue, told, p, m, a) /\ ~(p = i /\ m = y /\ a = z)
      BY <1>2, <1>8
  <2>2. NewMsg(p, m, a).dev = p /\ NewMsg(p, m, a).mac = m /\ NewMsg(p, m, a).addr = a
      BY MessageFields DEF NewMsg
  <2>3. n # NewMsg(p, m, a)
      BY <1>6, <2>1, <2>2
  <2> QED
      BY <1>4, <1>5, <1>6, <1>7, <2>1, <2>3, PastPosted
<1> QED
    BY <1>5, <1>8, AddressesNext

LEMMA ExpireAddresses ==
    ASSUME NeighborTypeOK, AddressesEnd, NEW k \in world.arp, Expire(k)
    PROVE  AddressesEnd'
<1>1. PICK A : A = world.arp \ {k}
    OBVIOUS
<1>2. PICK n : n = Message("RTM_DELNEIGH", k[1], k[2], k[3])
    OBVIOUS
<1>3. /\ A \in SUBSET (Devs \X Macs \X Addrs) /\ Change([world EXCEPT !.arp = A])
      /\ nl' = Append(nl, n) /\ k = <<k[1], k[2], k[3]>>
      /\ k[1] \in Devs /\ k[2] \in Macs /\ k[3] \in Addrs
    BY <1>1, <1>2, ExpireFacts
<1>4. world'.bridged = world.bridged /\ world'.arp = A /\ UNCHANGED <<queue, told>>
    BY <1>3, ArpWorld
<1>5. n \in Messages /\ n.type = "RTM_DELNEIGH"
    BY <1>2, <1>3, MessageMade, MessageFields
<1>6. nl \in Seq(Messages) /\ queue \in Seq(Events)
    BY TypeFacts
<1>7. ASSUME NEW p \in LanPorts, NEW m \in Macs, NEW a \in Addrs \ LinkLocal,
             <<p, m, a>> \notin A, <<p, m, a>> \notin world.arp => Past(nl, queue, told, p, m, a)
      PROVE  Past(nl', queue', told', p, m, a)
  <2>1. CASE k = <<p, m, a>>
    <3>1. n = EndMsg(p, m, a)
        BY <1>2, <2>1 DEF EndMsg
    <3> QED
        BY <1>3, <1>4, <1>5, <1>6, <3>1, PastEnded
  <2>2. CASE k # <<p, m, a>>
    <3>1. Past(nl, queue, told, p, m, a)
        BY <1>1, <1>7, <2>2
    <3>2. n # NewMsg(p, m, a)
        BY <1>5, KindsApart
    <3> QED
        BY <1>3, <1>4, <1>5, <1>6, <3>1, <3>2, PastPosted
  <2> QED
      BY <2>1, <2>2
<1> QED
    BY <1>4, <1>7, AddressesNext

LEMMA NetlinkAddresses ==
    ASSUME NeighborTypeOK, AddressesEnd, ipa_nl_recv_msg
    PROVE  AddressesEnd'
<1>1. PICK e : e = ipa_nl_decode_nlmsg(Head(nl))
    OBVIOUS
<1>2. nl # << >> /\ queue' = Append(queue, e) /\ nl' = Tail(nl) /\ UNCHANGED <<world, told>>
    BY <1>1 DEF ipa_nl_recv_msg
<1>3. nl \in Seq(Messages) /\ queue \in Seq(Events)
    BY TypeFacts
<1>4. ASSUME NEW p \in LanPorts, NEW m \in Macs, NEW a \in Addrs \ LinkLocal, Past(nl, queue, told, p, m, a)
      PROVE  Past(nl', queue', told', p, m, a)
    BY <1>1, <1>2, <1>3, <1>4, PastHanded
<1> QED
    BY <1>2, <1>4, AddressesNext

LEMMA DriverAddresses ==
    ASSUME NeighborTypeOK, AddressesEnd, ipa_driver_msg_notifier
    PROVE  AddressesEnd'
<1>1. PICK e : e = Head(drv)
    OBVIOUS
<1>2. drv # << >> /\ queue' = Append(queue, e) /\ UNCHANGED <<world, nl, told>>
    BY <1>1 DEF ipa_driver_msg_notifier
<1>3. nl \in Seq(Messages) /\ queue \in Seq(Events)
    BY TypeFacts
<1>4. e \in Associations /\ e \in Events
    BY <1>1, <1>2, TypeFacts, Left, AssociationPlain
<1>5. ASSUME NEW p \in LanPorts, NEW m \in Macs, NEW a \in Addrs \ LinkLocal, Past(nl, queue, told, p, m, a)
      PROVE  Past(nl', queue', told', p, m, a)
  <2>1. e # NewOf(p, m, a)
    <3>1. e.iface \in WlanPorts /\ NewOf(p, m, a).iface = p
        BY <1>4, EventFields DEF Associations, NewOf
    <3> QED
        BY <3>1, NeighborAssumption
  <2>2. e # ADDR_ADD(p, m, a)
      BY <1>4, KindsApart DEF Associations
  <2> QED
      BY <1>2, <1>3, <1>4, <1>5, <2>1, <2>2, PastPosted
<1> QED
    BY <1>2, <1>5, AddressesNext

LEMMA NeighborAddresses ==
    ASSUME NeighborTypeOK, AddressesEnd, queue # << >>, NEW d, d = Head(queue), NeighborEvent(d),
           UNCHANGED <<world, nl, drv>>
    PROVE  AddressesEnd'
<1>1. /\ UNCHANGED told /\ d.event \in {"CLIENT_ADD_EX", "NEW_NEIGH", "DEL_NEIGH"}
      /\ \/ queue' = Tail(queue)
         \/ \E e \in AddrEvents : queue' = Append(Tail(queue), e) /\ Due(e, d)
      /\ \A p \in LanPorts, m \in Macs, a \in Addrs \ LinkLocal :
            d = Event("DEL_NEIGH", p, NO_NAME, m, a) => queue' = Append(Tail(queue), ADDR_DEL(p, m, a))
    BY NeighborSteps
<1>2. nl \in Seq(Messages) /\ queue \in Seq(Events) /\ (~world.bridged => d \in PlainEvents)
    BY TypeFacts, Taken
<1>3. ASSUME ~world.bridged, NEW p \in LanPorts, NEW m \in Macs, NEW a \in Addrs \ LinkLocal,
             Past(nl, queue, told, p, m, a)
      PROVE  Past(nl', queue', told', p, m, a)
  <2> DEFINE v == ADDR_DEL(p, m, a)
             q == Tail(queue)
  <2>1. d # v /\ d # ADDR_ADD(p, m, a)
      BY <1>1, KindsApart
  <2>2. CASE d = EndOf(p, m, a)
    <3>1. queue' = Append(q, v)
        BY <1>1, <2>2 DEF EndOf
    <3>2. v \in Events
        BY AddrEventMade, AddrEventPlain DEF ADDR_DEL, Devs, Ports
    <3>3. v # NewOf(p, m, a) /\ v # ADDR_ADD(p, m, a)
        BY KindsApart
    <3>4. PICK e \in Events : e = v
        BY <3>2
    <3>5. queue' = Append(q, e) /\ e # NewOf(p, m, a) /\ e # ADDR_ADD(p, m, a)
        BY <3>1, <3>3, <3>4
    <3> QED
        BY <1>1, <1>3, <2>1, <3>4, <3>5, PastStep
  <2>3. CASE d # EndOf(p, m, a) /\ queue' = q
      BY <1>1, <1>2, <1>3, <2>1, <2>3, PastStep
  <2>4. CASE d # EndOf(p, m, a) /\ queue' # q
    <3>1. PICK e \in AddrEvents : queue' = Append(q, e) /\ Due(e, d)
        BY <1>1, <2>4
    <3>2. e \in Events /\ e # NewOf(p, m, a)
        BY KindsApart DEF AddrEvents
    <3>3. e = ADDR_ADD(p, m, a) => d = NewOf(p, m, a)
      <4> SUFFICES ASSUME e = ADDR_ADD(p, m, a)
                   PROVE  d = NewOf(p, m, a)
          OBVIOUS
      <4>1. e.event = "ADDR_ADD" /\ e.iface = p /\ e.mac = m /\ e.addr = a
          BY EventFields DEF ADDR_ADD
      <4> QED
          BY <1>2, <1>3, <3>1, <4>1 DEF Due, NewOf
    <3> QED
        BY <1>1, <1>3, <2>1, <2>4, <3>1, <3>2, <3>3, PastStep
  <2> QED
      BY <2>2, <2>3, <2>4
<1> QED
    BY <1>3, AddressesNext

LEMMA DownstreamAddresses ==
    ASSUME NeighborTypeOK, AddressesEnd, queue # << >>, NEW d, d = Head(queue),
           AddrAdd(d) \/ AddrDel(d) \/ ClientDel(d),
           queue' = Tail(queue), UNCHANGED <<world, nl, drv, cache>>
    PROVE  AddressesEnd'
<1>1. nl \in Seq(Messages) /\ queue \in Seq(Events) /\ d \in Events
    BY TypeFacts, Taken
<1>2. ASSUME NEW p \in LanPorts, NEW m \in Macs, NEW a \in Addrs \ LinkLocal, Past(nl, queue, told, p, m, a)
      PROVE  Past(nl', queue', told', p, m, a)
  <2>1. d # EndOf(p, m, a)
      BY KindsApart DEF AddrAdd, AddrDel, ClientDel
  <2>2. /\ ADDR_DEL(p, m, a).iface = p /\ ADDR_DEL(p, m, a).mac = m /\ ADDR_DEL(p, m, a).addr = a
        /\ ADDR_DEL(p, m, a).event = "ADDR_DEL"
      BY EventFields DEF ADDR_DEL
  <2>3. <<p, m, a>> \in told' => d # ADDR_DEL(p, m, a) /\ (<<p, m, a>> \in told \/ d = ADDR_ADD(p, m, a))
    <3> SUFFICES ASSUME <<p, m, a>> \in told'
                 PROVE  d # ADDR_DEL(p, m, a) /\ (<<p, m, a>> \in told \/ d = ADDR_ADD(p, m, a))
        OBVIOUS
    <3>1. CASE AddrAdd(d)
      <4>1. d.event = "ADDR_ADD" /\ (told' = told \/ told' \subseteq told \cup {<<d.iface, d.mac, d.addr>>})
          BY <3>1 DEF AddrAdd
      <4>2. d.iface = p /\ d.mac = m /\ d.addr = a => d = ADDR_ADD(p, m, a)
          BY <1>1, <4>1, EventWhole DEF ADDR_ADD, EventOK
      <4> QED
          BY <2>2, <4>1, <4>2
    <3>2. CASE AddrDel(d)
      <4>1. d = ADDR_DEL(p, m, a) => <<p, m, a>> \notin told'
        <5>1. d = ADDR_DEL(p, m, a) => told' = IF a \in V4 THEN told \ Of(p, m) ELSE told \ {<<p, m, a>>}
            BY <2>2, <3>2 DEF AddrDel
        <5>2. <<p, m, a>> \in told => <<p, m, a>> \in Of(p, m)
            BY DEF Of
        <5> QED
            BY <5>1, <5>2
      <4>2. told' \subseteq told
          BY <3>2 DEF AddrDel
      <4> QED
          BY <4>1, <4>2
    <3>3. CASE ClientDel(d)
      <4>1. d.event = "CLIENT_DEL" /\ told' \subseteq told
          BY <3>3 DEF ClientDel
      <4> QED
          BY <2>2, <4>1
    <3> QED
        BY <3>1, <3>2, <3>3
  <2> QED
      BY <1>1, <1>2, <2>1, <2>3, PastStep
<1> QED
    BY <1>2, AddressesNext

THEOREM AddressesNextInv == NeighborTypeOK /\ AddressesEnd /\ [Next]_vars => AddressesEnd'
<1> SUFFICES ASSUME NeighborTypeOK, AddressesEnd, [Next]_vars
             PROVE  AddressesEnd'
    OBVIOUS
<1>1. CASE UNCHANGED vars
    BY <1>1, AddressesSame DEF vars
<1>2. ASSUME NEW m \in Macs, NEW p \in Ports, Join(m, p)
      PROVE  AddressesEnd'
    BY <1>2, JoinWorld, AddressesSame DEF Join
<1>3. ASSUME NEW m \in Macs, Leave(m)
      PROVE  AddressesEnd'
    BY <1>3, LeaveWorld, AddressesSame DEF Leave
<1>4. ASSUME NEW m \in Macs, Age(m)
      PROVE  AddressesEnd'
    BY <1>4, AgeWorld, AddressesSame
<1>5. CASE ProcessEvt
  <2>1. PICK d : d = Head(queue)
      OBVIOUS
  <2> QED
      BY <1>5, <2>1, ProcessCases, NeighborAddresses, DownstreamAddresses
<1> QED
    BY <1>1, <1>2, <1>3, <1>4, <1>5, LearnAddresses, ExpireAddresses, NetlinkAddresses, DriverAddresses
       DEF Next, Addrs

(* The clients and the cache are exact *)

\* The inductive invariant: whatever a thread or the command queue still holds of an
\* association or an address that is over has its end waiting behind it, in that queue
\* or in the one that feeds it.
THEOREM GhostInvariant == Spec => []GhostInv
<1>1. Init => AssociationsEnd /\ AddressesEnd
  <2> SUFFICES ASSUME Init
               PROVE  AssociationsEnd /\ AddressesEnd
      OBVIOUS
  <2>1. nl = << >> /\ drv = << >> /\ queue = << >> /\ told = {} /\ clients = {}
      BY DEF Init
  <2>2. \A a, b : Followed(<< >>, a, b)
      BY DEF Followed
  <2> QED
      BY <2>1, <2>2, OverMeans, PastMeans DEF AssociationsEnd, AddressesEnd, Over, Past
<1>2. NeighborTypeOK /\ AssociationsEnd /\ AddressesEnd /\ [Next]_vars => (AssociationsEnd /\ AddressesEnd)'
    BY AssociationsNextInv, AddressesNextInv
<1>3. GhostInv <=> AssociationsEnd /\ AddressesEnd
    BY DEF GhostInv, AssociationsEnd, AddressesEnd
<1> QED
    BY <1>1, <1>2, <1>3, NeighborTypeInvariant, PTL DEF Spec

\* ClientsExact: the cache has a slot per client and no more than there are, and when
\* everything reported has been handled a WLAN object has only clients that are
\* associated with it and, without a bridge, a LAN object only addresses the kernel
\* knows, for any clients, addresses, sizes of the cache and numbers of changes.
THEOREM ClientsAlwaysExact == Spec => []ClientsExact
<1>1. NeighborTypeOK => OneSlot
  <2> SUFFICES ASSUME NeighborTypeOK
               PROVE  OneSlot
      OBVIOUS
  <2>1. CacheOK(cache)
      BY TypeFacts
  <2>2. ASSUME NEW m \in Macs
        PROVE  Cardinality(SlotsOf(cache, m)) <= 1
    <3>1. CASE Known(cache, m)
      <4>1. SlotsOf(cache, m) = {Slot(cache, m)}
          BY <2>1, <3>1, SlotFacts
      <4> QED
          BY <4>1, FS_Singleton
    <3>2. CASE ~Known(cache, m)
      <4>1. SlotsOf(cache, m) = {}
          BY <3>2 DEF Known
      <4> QED
          BY <4>1, FS_EmptySet
    <3> QED
        BY <3>1, <3>2
  <2> QED
      BY <2>1, <2>2 DEF OneSlot, CacheOK
<1>2. NeighborTypeOK /\ GhostInv => NoGhost
  <2> SUFFICES ASSUME NeighborTypeOK, GhostInv, nl = << >>, drv = << >>, queue = << >>, NEW t \in told
               PROVE  IF t[1] \in WlanPorts THEN world.port[t[2]] = t[1] ELSE world.bridged \/ t \in world.arp
      BY DEF NoGhost, Quiet
  <2>1. /\ t = <<t[1], t[2], t[3]>> /\ t[2] \in Macs /\ t[3] \in Addrs \ LinkLocal
        /\ t[1] \in LanPorts \/ <<t[1], t[2]>> \in clients
        /\ clients \subseteq WlanPorts \X Macs
      BY TypeFacts
  <2>2. CASE t[1] \in WlanPorts
    <3>1. <<t[1], t[2]>> \in clients
        BY <2>1, <2>2, NeighborAssumption
    <3>2. ~AssociationEnds(t[1], t[2])
        BY <3>1, NothingWaits DEF AssociationEnds
    <3> QED
        BY <2>1, <2>2, <3>2 DEF GhostInv
  <2>3. CASE t[1] \notin WlanPorts
    <3>1. t[1] \in LanPorts
        BY <2>1, <2>3
    <3>2. ~AddressEnds(t[1], t[2], t[3])
        BY <2>1, NothingWaits DEF AddressEnds
    <3> QED
        BY <2>1, <2>3, <3>1, <3>2 DEF GhostInv
  <2> QED
      BY <2>2, <2>3
<1> QED
    BY <1>1, <1>2, NeighborTypeInvariant, GhostInvariant, PTL DEF ClientsExact

(***************************************************************************)
(* The address of a client that has one: it reaches the interface the      *)
(* client is behind.  The netlink thread and the driver thread each post   *)
(* in order; of what one of them still has to post (x) and of what it has  *)
(* posted (q), the last word on the client is the truth.                   *)
(***************************************************************************)

HasAny(s, C) == \E j \in 1..Len(s) : s[j] \in C

\* Every B of s is a C, or has one behind it.
FollowedBy(s, B, C) == \A i \in 1..Len(s) : s[i] \in B => \E j \in i..Len(s) : s[j] \in C

Chain(x, q, B, C) == FollowedBy(x, B, C) /\ (FollowedBy(q, B, C) \/ HasAny(x, C))
Pending(x, q, C) == HasAny(x, C) \/ HasAny(q, C)

LEMMA AnyJoined ==
    ASSUME NEW S, NEW s \in Seq(S), NEW e \in S, NEW C
    PROVE  HasAny(Append(s, e), C) <=> HasAny(s, C) \/ e \in C
<1> DEFINE u == Append(s, e)
<1>1. /\ Len(u) = Len(s) + 1 /\ u[Len(s) + 1] = e /\ \A i \in 1..Len(s) : u[i] = s[i]
      /\ Len(s) \in Nat
    BY Joined
<1> HIDE DEF u
<1>2. HasAny(u, C) <=> HasAny(s, C) \/ e \in C
    BY <1>1 DEF HasAny
<1> QED
    BY <1>2 DEF u

LEMMA AnyLeft ==
    ASSUME NEW S, NEW s \in Seq(S), s # << >>, NEW C
    PROVE  HasAny(s, C) <=> Head(s) \in C \/ HasAny(Tail(s), C)
<1> DEFINE u == Tail(s)
           d == Head(s)
<1>1. /\ Len(u) = Len(s) - 1 /\ d = s[1] /\ \A i \in 1..Len(u) : u[i] = s[i + 1]
      /\ Len(s) \in Nat \ {0}
    BY Left
<1> HIDE DEF u, d
<1>2. ASSUME HasAny(s, C)
      PROVE  d \in C \/ HasAny(u, C)
  <2>1. PICK j \in 1..Len(s) : s[j] \in C
      BY <1>2 DEF HasAny
  <2>2. j = 1 \/ (j - 1 \in 1..Len(u) /\ u[j - 1] = s[j])
      BY <1>1
  <2> QED
      BY <1>1, <2>1, <2>2 DEF HasAny
<1>3. ASSUME HasAny(u, C)
      PROVE  HasAny(s, C)
  <2>1. PICK j \in 1..Len(u) : u[j] \in C
      BY <1>3 DEF HasAny
  <2>2. j + 1 \in 1..Len(s) /\ s[j + 1] = u[j]
      BY <1>1
  <2> QED
      BY <2>1, <2>2 DEF HasAny
<1>4. d \in C => HasAny(s, C)
  <2>1. 1 \in 1..Len(s)
      BY <1>1
  <2> QED
      BY <1>1, <2>1 DEF HasAny
<1> QED
    BY <1>2, <1>3, <1>4 DEF u, d

LEMMA FollowedByJoined ==
    ASSUME NEW S, NEW s \in Seq(S), NEW e \in S, NEW B, NEW C,
           e \in C \/ (e \notin B /\ FollowedBy(s, B, C))
    PROVE  FollowedBy(Append(s, e), B, C)
<1> DEFINE u == Append(s, e)
<1>1. /\ Len(u) = Len(s) + 1 /\ u[Len(s) + 1] = e /\ \A i \in 1..Len(s) : u[i] = s[i]
      /\ Len(s) \in Nat
    BY Joined
<1> HIDE DEF u
<1>2. CASE e \in C
  <2>1. Len(u) \in 1..Len(u) /\ u[Len(u)] \in C
      BY <1>1, <1>2
  <2>2. \A i \in 1..Len(u) : Len(u) \in i..Len(u)
      BY <1>1
  <2>3. FollowedBy(u, B, C)
      BY <2>1, <2>2 DEF FollowedBy
  <2> QED
      BY <2>3 DEF u
<1>3. CASE e \notin B /\ FollowedBy(s, B, C)
  <2>1. ASSUME NEW i \in 1..Len(u), u[i] \in B
        PROVE  \E j \in i..Len(u) : u[j] \in C
    <3>1. i \in 1..Len(s) /\ s[i] \in B
        BY <1>1, <1>3, <2>1
    <3>2. PICK j \in i..Len(s) : s[j] \in C
        BY <1>3, <3>1 DEF FollowedBy
    <3>3. j \in 1..Len(s) /\ j \in i..Len(u)
        BY <1>1
    <3> QED
        BY <1>1, <3>2, <3>3
  <2>2. FollowedBy(u, B, C)
      BY <2>1 DEF FollowedBy
  <2> QED
      BY <2>2 DEF u
<1> QED
    BY <1>2, <1>3

LEMMA FollowedByLeft ==
    ASSUME NEW S, NEW s \in Seq(S), s # << >>, NEW B, NEW C, FollowedBy(s, B, C)
    PROVE  FollowedBy(Tail(s), B, C) /\ (Head(s) \in B \ C => HasAny(Tail(s), C))
<1> DEFINE u == Tail(s)
           d == Head(s)
<1>1. /\ Len(u) = Len(s) - 1 /\ d = s[1] /\ \A i \in 1..Len(u) : u[i] = s[i + 1]
      /\ Len(s) \in Nat \ {0}
    BY Left
<1> HIDE DEF u, d
<1>2. FollowedBy(u, B, C)
  <2> SUFFICES ASSUME NEW i \in 1..Len(u), u[i] \in B
               PROVE  \E j \in i..Len(u) : u[j] \in C
      BY DEF FollowedBy
  <2>1. i + 1 \in 1..Len(s) /\ s[i + 1] \in B
      BY <1>1
  <2>2. PICK j \in (i + 1)..Len(s) : s[j] \in C
      BY <2>1 DEF FollowedBy
  <2>3. j - 1 \in i..Len(u) /\ j - 1 \in 1..Len(u) /\ (j - 1) + 1 = j
      BY <1>1, <2>2
  <2> QED
      BY <1>1, <2>2, <2>3
<1>3. ASSUME d \in B \ C
      PROVE  HasAny(u, C)
  <2>1. 1 \in 1..Len(s) /\ s[1] \in B
      BY <1>1, <1>3
  <2>2. PICK j \in 1..Len(s) : s[j] \in C
      BY <2>1 DEF FollowedBy
  <2>3. j # 1
      BY <1>1, <1>3, <2>2
  <2>4. j - 1 \in 1..Len(u) /\ (j - 1) + 1 = j
      BY <1>1, <2>2, <2>3
  <2> QED
      BY <1>1, <2>2, <2>4 DEF HasAny
<1> QED
    BY <1>2, <1>3 DEF u, d

LEMMA ChainPosted ==
    ASSUME NEW S, NEW x \in Seq(S), NEW q, NEW e \in S, NEW B, NEW C,
           e \in C \/ (e \notin B /\ Chain(x, q, B, C))
    PROVE  Chain(Append(x, e), q, B, C)
<1>1. FollowedBy(Append(x, e), B, C)
    BY FollowedByJoined DEF Chain
<1>2. HasAny(Append(x, e), C) <=> HasAny(x, C) \/ e \in C
    BY AnyJoined
<1> QED
    BY <1>1, <1>2 DEF Chain

LEMMA ChainOther ==
    ASSUME NEW S, NEW x, NEW q \in Seq(S), NEW e \in S, NEW B, NEW C, e \notin B, Chain(x, q, B, C)
    PROVE  Chain(x, Append(q, e), B, C)
    BY FollowedByJoined DEF Chain

LEMMA ChainHanded ==
    ASSUME NEW S, NEW x \in Seq(S), NEW q \in Seq(S), x # << >>, NEW B, NEW C
    PROVE  /\ Chain(x, q, B, C) => Chain(Tail(x), Append(q, Head(x)), B, C)
           /\ Pending(x, q, C) <=> Pending(Tail(x), Append(q, Head(x)), C)
<1>1. Head(x) \in S
    BY Left
<1>2. /\ HasAny(Append(q, Head(x)), C) <=> HasAny(q, C) \/ Head(x) \in C
      /\ HasAny(x, C) <=> Head(x) \in C \/ HasAny(Tail(x), C)
    BY <1>1, AnyJoined, AnyLeft
<1>3. ASSUME Chain(x, q, B, C)
      PROVE  Chain(Tail(x), Append(q, Head(x)), B, C)
  <2>1. FollowedBy(Tail(x), B, C) /\ (Head(x) \in B \ C => HasAny(Tail(x), C))
      BY <1>3, FollowedByLeft DEF Chain
  <2>2. CASE HasAny(Tail(x), C)
      BY <2>1, <2>2 DEF Chain
  <2>3. CASE ~HasAny(Tail(x), C)
    <3>1. Head(x) \in C \/ (Head(x) \notin B /\ FollowedBy(q, B, C))
        BY <1>2, <1>3, <2>1, <2>3 DEF Chain
    <3>2. FollowedBy(Append(q, Head(x)), B, C)
        BY <1>1, <3>1, FollowedByJoined
    <3> QED
        BY <2>1, <3>2 DEF Chain
  <2> QED
      BY <2>2, <2>3
<1> QED
    BY <1>2, <1>3 DEF Pending

LEMMA ChainTaken ==
    ASSUME NEW S, NEW x, NEW q \in Seq(S), q # << >>, NEW B, NEW C
    PROVE  /\ Chain(x, q, B, C) => Chain(x, Tail(q), B, C) /\ (Head(q) \in B \ C => Pending(x, Tail(q), C))
           /\ Pending(x, q, C) <=> Head(q) \in C \/ Pending(x, Tail(q), C)
<1>1. HasAny(q, C) <=> Head(q) \in C \/ HasAny(Tail(q), C)
    BY AnyLeft
<1>2. FollowedBy(q, B, C) => FollowedBy(Tail(q), B, C) /\ (Head(q) \in B \ C => HasAny(Tail(q), C))
    BY FollowedByLeft
<1> QED
    BY <1>1, <1>2 DEF Chain, Pending

\* What is behind every B waits while a B does.
LEMMA ChainEnd ==
    ASSUME NEW S, NEW x \in Seq(S), NEW q \in Seq(S), NEW B, NEW C, Chain(x, q, B, C), ~Pending(x, q, C)
    PROVE  ~Pending(x, q, B)
<1>1. ASSUME NEW s \in Seq(S), FollowedBy(s, B, C), HasAny(s, B)
      PROVE  HasAny(s, C)
  <2>1. PICK i \in 1..Len(s) : s[i] \in B
      BY <1>1 DEF HasAny
  <2>2. PICK j \in i..Len(s) : s[j] \in C
      BY <1>1, <2>1 DEF FollowedBy
  <2>3. j \in 1..Len(s)
      OBVIOUS
  <2> QED
      BY <2>2, <2>3 DEF HasAny
<1> QED
    BY <1>1 DEF Chain, Pending

LEMMA NoneWaits == \A B, C : ~HasAny(<< >>, C) /\ FollowedBy(<< >>, B, C)
    BY DEF HasAny, FollowedBy

\* The events the netlink thread will make of what it has to read.
AsEvents(s) == [i \in 1..Len(s) |-> ipa_nl_decode_nlmsg(s[i])]

\* What the netlink thread makes of a message, with a bridge (b) or without one.
NlEvents(b) ==
    {e \in Events : /\ e.event \in {"NEW_NEIGH", "DEL_NEIGH"}
                    /\ e.event = "NEW_NEIGH" => e.name = e.iface
                    /\ IF e.addr \in Addrs THEN e.iface \in (IF b THEN {Bridge} ELSE Ports)
                       ELSE b /\ e.iface \in Ports}
DrvEvents == {e \in Associations : e.mac \notin Wired /\ e.addr = ZERO}
QueueEvents(b) == NlEvents(b) \cup DrvEvents \cup AddrEvents

(* The kinds of events of a client *)

V4Events(m) ==
    {e \in Events : e.event \in {"NEW_NEIGH", "DEL_NEIGH"} /\ e.mac = m /\ e.addr \in V4 \ LinkLocal}
BareEvents(m) == {e \in Events : e.event \in {"NEW_NEIGH", "DEL_NEIGH"} /\ e.mac = m /\ e.addr = ZERO}
PortEvents(m) == {e \in BareEvents(m) : e.event = "NEW_NEIGH" => e.name # NO_NAME}
AddEvents(m) == {e \in Events : e.event = "CLIENT_ADD_EX" /\ e.mac = m}

\* What the cache does something about.
Telling(m) == V4Events(m) \cup BareEvents(m) \cup AddEvents(m)

\* A client at the port p, as its association and as its forwarding entry tell it.
HereOf(p, m) == Event("NEW_NEIGH", p, NO_NAME, m, ZERO)
PortOf(p, m) == NewOf(p, m, ZERO)

(* The inductive invariant *)

\* A client is where its adapter can be, the bridge knows no other port of it, and
\* it has one IPv4 address.
PlacesOK(P, F, A, b) ==
    /\ \A m \in Macs : P[m] # NONE => (m \in Wired) = (P[m] \in LanPorts)
    /\ \A m \in Macs : F[m] # NONE => (m \in Wired) = (F[m] \in LanPorts)
    /\ b => \A m \in Macs : P[m] = NONE \/ F[m] \in {P[m], NONE}
    /\ \A e, f \in A : e[2] = f[2] /\ e[3] \in V4 /\ f[3] \in V4 => e = f
    /\ \A e \in A : e[1] \in (IF b THEN {Bridge} ELSE Ports)

\* The cache has the address a of m, or the address is lost and it has none.
Kept(H, l, m, a) ==
    \/ \E f \in H : f.mac = m /\ f.v4 = a
    \/ m \in l /\ \A f \in H : f.mac = m => f.v4 = NONE

\* What is said of the IPv4 address of m ends with the one it has.
AddressLast(x, q, H, l, e) ==
    /\ Chain(x, q, V4Events(e[2]), {NewOf(e[1], e[2], e[3])})
    /\ Pending(x, q, {NewOf(e[1], e[2], e[3])}) \/ Kept(H, l, e[2], e[3])

\* What is said of the associations of m ends with the port p it is behind.
AssociationEvents(p, m) == AddEvents(m) \cup (BareEvents(m) \ PortEvents(m)) \cup {DelOf(p, m)}
AssociationLast(y, q, S, p, m) ==
    /\ Chain(y, q, {DelOf(p, m)}, {AddOf(p, m)})
    /\ Chain(y, q, AssociationEvents(p, m), {HereOf(p, m)})
    /\ <<p, m>> \in S \/ Pending(y, q, {AddOf(p, m)})

\* What is said of the forwarding entry of m ends with the one the bridge has, f.
PortKnown(f, m) == IF f # NONE THEN {PortOf(f, m)} ELSE {e \in PortEvents(m) : e.event = "DEL_NEIGH"}

\* Nothing waits that tells of the client by an event of B.
Calm(x, y, q, B) == ~HasAny(x, B) /\ ~HasAny(y, B) /\ ~HasAny(q, B)

BehindPort(P, F, m, i) == IF m \in Wired THEN F[m] # NONE /\ i = F[m] ELSE P[m] # NONE => i = P[m]

Placed(P, F, b, p, m) ==
    IF m \in Wired THEN p \in LanPorts /\ (b => F[m] = p) ELSE p \in WlanPorts /\ P[m] = p

\* The address was announced to the port, and what is announced there ends with it.
Contrary(p, m, a) ==
    {e \in AddrEvents : e.iface = p /\ e.mac = m /\ e.addr \in V4 /\ (e.event = "ADDR_ADD" => e.addr # a)}
ToldLast(q, T, p, m, a) ==
    /\ FollowedBy(q, Contrary(p, m, a), {ADDR_ADD(p, m, a)})
    /\ <<p, m, a>> \in T \/ HasAny(q, {ADDR_ADD(p, m, a)})

AddressesLast(A, x, q, H, l) == \A e \in A : e[3] \in V4 \ LinkLocal => AddressLast(x, q, H, l, e)
AssociationsLast(P, y, q, S) == \A m \in Macs : P[m] \in WlanPorts => AssociationLast(y, q, S, P[m], m)
PortsLast(F, x, q) == \A m \in Macs : Chain(x, q, PortEvents(m), PortKnown(F[m], m))
EntriesBehind(P, F, b, x, y, q, H) ==
    b => \A m \in Macs : Calm(x, y, q, BareEvents(m)) =>
            \A f \in H : f.mac = m => BehindPort(P, F, m, f.iface)
AddressesTold(P, F, A, b, x, y, q, T, l) ==
    \A m \in Macs, p \in Ports, a \in V4 \ LinkLocal :
        /\ Placed(P, F, b, p, m) /\ <<IF b THEN Bridge ELSE p, m, a>> \in A
        /\ Calm(x, y, q, Telling(m))
        => m \in l \/ ToldLast(q, T, p, m, a)

ReachTypeOK ==
    /\ PlacesOK(world.port, world.fdb, world.arp, world.bridged)
    /\ AsEvents(nl) \in Seq(NlEvents(world.bridged))
    /\ drv \in Seq(DrvEvents)
    /\ queue \in Seq(QueueEvents(world.bridged))

ReachInv ==
    /\ AddressesLast(world.arp, AsEvents(nl), queue, Held(cache), lost)
    /\ AssociationsLast(world.port, drv, queue, clients)
    /\ PortsLast(world.fdb, AsEvents(nl), queue)
    /\ EntriesBehind(world.port, world.fdb, world.bridged, AsEvents(nl), drv, queue, Held(cache))
    /\ AddressesTold(world.port, world.fdb, world.arp, world.bridged,
                     AsEvents(nl), drv, queue, told, lost)

(* Messages as events *)

LEMMA AsEventsJoined ==
    ASSUME NEW s \in Seq(Messages), NEW n \in Messages
    PROVE  AsEvents(Append(s, n)) = Append(AsEvents(s), ipa_nl_decode_nlmsg(n))
<1> DEFINE f(i) == ipa_nl_decode_nlmsg(s[i])
           u == Append(s, n)
           g(i) == ipa_nl_decode_nlmsg(u[i])
           e == ipa_nl_decode_nlmsg(n)
<1>1. /\ Len(u) = Len(s) + 1 /\ u[Len(s) + 1] = n /\ \A i \in 1..Len(s) : u[i] = s[i]
      /\ Len(s) \in Nat
    BY Joined
<1>2. g(Len(s) + 1) = e /\ \A i \in 1..Len(s) : g(i) = f(i)
    BY <1>1
<1>3. AsEvents(s) = [i \in 1..Len(s) |-> f(i)] /\ AsEvents(u) = [i \in 1..(Len(s) + 1) |-> g(i)]
    BY <1>1 DEF AsEvents
<1> HIDE DEF f, g, e, u
<1>4. PICK t : t = [i \in 1..Len(s) |-> f(i)]
    OBVIOUS
<1>5. t \in Seq({f(i) : i \in 1..Len(s)} \cup {e}) /\ Len(t) = Len(s)
    BY <1>1, <1>4
<1>6. PICK v : v = Append(t, e)
    OBVIOUS
<1>7. /\ Len(v) = Len(s) + 1 /\ v[Len(s) + 1] = e /\ \A i \in 1..Len(s) : v[i] = t[i]
      /\ v \in Seq({f(i) : i \in 1..Len(s)} \cup {e})
    BY <1>5, <1>6, Joined
<1>8. \A i \in 1..(Len(s) + 1) : v[i] = g(i)
    BY <1>1, <1>2, <1>4, <1>7
<1>9. v = [i \in 1..(Len(s) + 1) |-> g(i)]
    BY <1>7, <1>8
<1> QED
    BY <1>3, <1>4, <1>6, <1>9 DEF u, e

LEMMA AsEventsLeft ==
    ASSUME NEW s \in Seq(Messages), s # << >>
    PROVE  /\ AsEvents(s) # << >> /\ AsEvents(Tail(s)) = Tail(AsEvents(s))
           /\ Head(AsEvents(s)) = ipa_nl_decode_nlmsg(Head(s))
<1> DEFINE f(i) == ipa_nl_decode_nlmsg(s[i])
           u == Tail(s)
           g(i) == ipa_nl_decode_nlmsg(u[i])
<1>1. /\ Len(u) = Len(s) - 1 /\ Head(s) = s[1] /\ \A i \in 1..Len(u) : u[i] = s[i + 1]
      /\ Len(s) \in Nat \ {0}
    BY Left
<1>2. \A i \in 1..(Len(s) - 1) : g(i) = f(i + 1)
    BY <1>1
<1>3. /\ AsEvents(s) = [i \in 1..Len(s) |-> f(i)] /\ AsEvents(u) = [i \in 1..(Len(s) - 1) |-> g(i)]
      /\ ipa_nl_decode_nlmsg(Head(s)) = f(1)
    BY <1>1 DEF AsEvents
<1> HIDE DEF f, g, u
<1>4. PICK t : t = [i \in 1..Len(s) |-> f(i)]
    OBVIOUS
<1>5. t \in Seq({f(i) : i \in 1..Len(s)}) /\ Len(t) = Len(s)
    BY <1>1, <1>4
<1>6. t # << >>
    BY <1>1, <1>5
<1>7. /\ Len(Tail(t)) = Len(s) - 1 /\ Head(t) = t[1] /\ \A i \in 1..(Len(s) - 1) : Tail(t)[i] = t[i + 1]
      /\ Tail(t) \in Seq({f(i) : i \in 1..Len(s)})
    BY <1>5, <1>6, Left
<1>8. PICK v : v = Tail(t)
    OBVIOUS
<1>9. \A i \in 1..(Len(s) - 1) : v[i] = g(i)
    BY <1>1, <1>2, <1>4, <1>7, <1>8
<1>10. v = [i \in 1..(Len(s) - 1) |-> g(i)]
  <2>1. Len(v) = Len(s) - 1 /\ v \in Seq({f(i) : i \in 1..Len(s)})
      BY <1>7, <1>8
  <2>2. v = [i \in 1..Len(v) |-> v[i]]
      BY <2>1
  <2> QED
      BY <1>9, <2>1, <2>2
<1>11. t[1] = f(1)
    BY <1>1, <1>4
<1> QED
    BY <1>3, <1>4, <1>6, <1>7, <1>8, <1>10, <1>11 DEF u

LEMMA DecodedOf ==
    ASSUME NEW i, NEW m, NEW a
    PROVE  /\ ipa_nl_decode_nlmsg(NewMsg(i, m, a)) = NewOf(i, m, a)
           /\ ipa_nl_decode_nlmsg(EndMsg(i, m, a)) = EndOf(i, m, a)
<1>1. /\ NewMsg(i, m, a).type = "RTM_NEWNEIGH" /\ EndMsg(i, m, a).type # "RTM_NEWNEIGH"
      /\ NewMsg(i, m, a).dev = i /\ NewMsg(i, m, a).mac = m /\ NewMsg(i, m, a).addr = a
      /\ EndMsg(i, m, a).dev = i /\ EndMsg(i, m, a).mac = m /\ EndMsg(i, m, a).addr = a
    BY MessageFields DEF NewMsg, EndMsg
<1> HIDE DEF NewMsg, EndMsg
<1> QED
    BY <1>1 DEF ipa_nl_decode_nlmsg, NewOf, EndOf

(* Events and their kinds *)

LEMMA NamesApart == NO_NAME \notin Devs /\ ZERO \notin Addrs /\ NONE \notin Ports /\ NONE \notin V4
    BY NeighborAssumption DEF Devs, Addrs

LEMMA NlEventMade ==
    ASSUME NEW i \in Devs, NEW m \in Macs, NEW a \in Addrs \cup {ZERO}, NEW b \in BOOLEAN,
           IF a \in Addrs THEN i \in (IF b THEN {Bridge} ELSE Ports) ELSE b /\ i \in Ports
    PROVE  NewOf(i, m, a) \in NlEvents(b) /\ EndOf(i, m, a) \in NlEvents(b)
<1>1. NewOf(i, m, a) \in EventTuples /\ EndOf(i, m, a) \in EventTuples
    BY DEF EventTuples, NewOf, EndOf, Event
<1>2. /\ NewOf(i, m, a).event = "NEW_NEIGH" /\ NewOf(i, m, a).iface = i /\ NewOf(i, m, a).name = i
      /\ NewOf(i, m, a).mac = m /\ NewOf(i, m, a).addr = a
      /\ EndOf(i, m, a).event = "DEL_NEIGH" /\ EndOf(i, m, a).iface = i /\ EndOf(i, m, a).name = NO_NAME
      /\ EndOf(i, m, a).mac = m /\ EndOf(i, m, a).addr = a
    BY EventFields DEF NewOf, EndOf
<1> HIDE DEF NewOf, EndOf
<1> QED
    BY <1>1, <1>2 DEF NlEvents, Events, EventOK

LEMMA DrvEventMade ==
    ASSUME NEW p \in WlanPorts, NEW m \in Macs, m \notin Wired
    PROVE  /\ AddOf(p, m) \in DrvEvents /\ HereOf(p, m) \in DrvEvents /\ DelOf(p, m) \in DrvEvents
           /\ AddOf(p, m).mac = m /\ HereOf(p, m).mac = m /\ DelOf(p, m).mac = m
           /\ AddOf(p, m).event = "CLIENT_ADD_EX" /\ HereOf(p, m).event = "NEW_NEIGH"
           /\ DelOf(p, m).event = "CLIENT_DEL"
<1>1. /\ AddOf(p, m).mac = m /\ HereOf(p, m).mac = m /\ DelOf(p, m).mac = m
      /\ AddOf(p, m).event = "CLIENT_ADD_EX" /\ HereOf(p, m).event = "NEW_NEIGH"
      /\ DelOf(p, m).event = "CLIENT_DEL"
      /\ AddOf(p, m).addr = ZERO /\ HereOf(p, m).addr = ZERO /\ DelOf(p, m).addr = ZERO
    BY EventFields DEF AddOf, HereOf, DelOf
<1>2. AddOf(p, m) \in Associations /\ HereOf(p, m) \in Associations /\ DelOf(p, m) \in Associations
    BY AssociationMade DEF AddOf, HereOf, DelOf
<1> HIDE DEF AddOf, HereOf, DelOf
<1> QED
    BY <1>1, <1>2 DEF DrvEvents

LEMMA PostersApart ==
    ASSUME NEW m \in Macs, NEW p, NEW b \in BOOLEAN
    PROVE  /\ V4Events(m) \cap (DrvEvents \cup AddrEvents) = {}
           /\ PortEvents(m) \cap (DrvEvents \cup AddrEvents) = {}
           /\ AssociationEvents(p, m) \cap (NlEvents(b) \cup AddrEvents) = {}
           /\ {DelOf(p, m)} \cap (NlEvents(b) \cup AddrEvents) = {}
           /\ Telling(m) \cap AddrEvents = {}
<1>1. \A e \in DrvEvents : e.event \notin {"DEL_NEIGH", "ADDR_ADD", "ADDR_DEL"} /\ e.name = NO_NAME /\ e.addr = ZERO
    BY DEF DrvEvents, Associations
<1>2. \A e \in AddrEvents : e.event \in {"ADDR_ADD", "ADDR_DEL"}
    BY DEF AddrEvents
<1>3. \A e \in NlEvents(b) : /\ e.event \in {"NEW_NEIGH", "DEL_NEIGH"}
                             /\ e.event = "NEW_NEIGH" => e.name # NO_NAME
    BY NamesApart DEF NlEvents, Events, EventTuples
<1>4. DelOf(p, m).event = "CLIENT_DEL"
    BY EventFields DEF DelOf
<1>5. ASSUME NEW e \in V4Events(m)
      PROVE  e.event \in {"NEW_NEIGH", "DEL_NEIGH"} /\ e.addr # ZERO
    BY NamesApart DEF V4Events, Addrs
<1>6. ASSUME NEW e \in PortEvents(m)
      PROVE  e.event \in {"NEW_NEIGH", "DEL_NEIGH"} /\ (e.event = "NEW_NEIGH" => e.name # NO_NAME)
    BY DEF PortEvents, BareEvents
<1>7. ASSUME NEW e \in AssociationEvents(p, m)
      PROVE  \/ e.event \in {"CLIENT_ADD_EX", "CLIENT_DEL"}
             \/ e.event = "NEW_NEIGH" /\ e.name = NO_NAME
    BY <1>4 DEF AssociationEvents, AddEvents, PortEvents, BareEvents
<1>8. ASSUME NEW e \in Telling(m)
      PROVE  e.event \in {"NEW_NEIGH", "DEL_NEIGH", "CLIENT_ADD_EX"}
    BY DEF Telling, V4Events, BareEvents, AddEvents
<1>9. V4Events(m) \cap (DrvEvents \cup AddrEvents) = {}
    BY <1>1, <1>2, <1>5
<1>10. PortEvents(m) \cap (DrvEvents \cup AddrEvents) = {}
    BY <1>1, <1>2, <1>6
<1>11. AssociationEvents(p, m) \cap (NlEvents(b) \cup AddrEvents) = {}
    BY <1>2, <1>3, <1>7
<1>12. {DelOf(p, m)} \cap (NlEvents(b) \cup AddrEvents) = {}
    BY <1>2, <1>3, <1>4
<1>13. Telling(m) \cap AddrEvents = {}
    BY <1>2, <1>8
<1> QED
    BY <1>9, <1>10, <1>11, <1>12, <1>13

(* What the changes of the world add to the two queues *)

LEMMA ReachFacts ==
    ASSUME NeighborTypeOK, ReachTypeOK
    PROVE  /\ world \in Worlds /\ world.bridged \in BOOLEAN
           /\ \A m \in Macs : world.port[m] \in Ports \cup {NONE} /\ world.fdb[m] \in Ports \cup {NONE}
           /\ world.arp \subseteq Devs \X Macs \X Addrs
           /\ ~world.bridged => \A m \in Macs : world.fdb[m] = NONE
           /\ PlacesOK(world.port, world.fdb, world.arp, world.bridged)
           /\ nl \in Seq(Messages) /\ AsEvents(nl) \in Seq(NlEvents(world.bridged))
           /\ drv \in Seq(DrvEvents) /\ drv \in Seq(Associations)
           /\ queue \in Seq(QueueEvents(world.bridged))
           /\ CacheOK(cache)
    BY TypeFacts DEF ReachTypeOK, Worlds

LEMMA JoinReach ==
    ASSUME NeighborTypeOK, ReachTypeOK, NEW m \in Macs, NEW p \in Ports, Join(m, p)
    PROVE  /\ world'.bridged = world.bridged /\ world'.arp = world.arp
           /\ world'.port = [world.port EXCEPT ![m] = p]
           /\ world'.fdb = [world.fdb EXCEPT ![m] = IF world.bridged THEN p ELSE world.fdb[m]]
           /\ UNCHANGED <<queue, cache, told, clients, lost>>
           /\ world.port[m] = NONE /\ (m \in Wired) = (p \in LanPorts)
           /\ AsEvents(nl') = IF world.bridged /\ world.fdb[m] # p
                              THEN Append(AsEvents(nl), PortOf(p, m)) ELSE AsEvents(nl)
           /\ world.bridged => PortOf(p, m) \in NlEvents(world.bridged)
           /\ p \in WlanPorts => /\ drv' = Append(Append(drv, AddOf(p, m)), HereOf(p, m))
                                 /\ AddOf(p, m) \in DrvEvents /\ HereOf(p, m) \in DrvEvents
           /\ p \notin WlanPorts => drv' = drv
<1>1. /\ world'.bridged = world.bridged /\ world'.arp = world.arp
      /\ world'.port = [world.port EXCEPT ![m] = p]
      /\ world'.fdb = [world.fdb EXCEPT ![m] = IF world.bridged THEN p ELSE world.fdb[m]]
      /\ UNCHANGED <<queue, cache, told, clients>>
    BY JoinWorld
<1>2. /\ UNCHANGED lost /\ world.port[m] = NONE /\ (m \in Wired) = (p \in LanPorts)
      /\ nl' = IF world.bridged /\ world.fdb[m] # p THEN Append(nl, NewMsg(p, m, ZERO)) ELSE nl
      /\ p \notin WlanPorts => drv' = drv
      /\ p \in WlanPorts => drv' = drv \o CONNECT_EX(m, p)
    BY DEF Join, Change, NewMsg
<1>3. NewMsg(p, m, ZERO) \in Messages
    BY MessageMade DEF NewMsg, Devs
<1>4. AsEvents(Append(nl, NewMsg(p, m, ZERO))) = Append(AsEvents(nl), PortOf(p, m))
    BY <1>3, ReachFacts, AsEventsJoined, DecodedOf DEF PortOf
<1>5. world.bridged => PortOf(p, m) \in NlEvents(world.bridged)
  <2>1. p \in Devs /\ ZERO \notin Addrs /\ world.bridged \in BOOLEAN
      BY NamesApart, ReachFacts DEF Devs
  <2> QED
      BY <2>1, NlEventMade DEF PortOf
<1>6. ASSUME p \in WlanPorts
      PROVE  /\ drv' = Append(Append(drv, AddOf(p, m)), HereOf(p, m))
             /\ AddOf(p, m) \in DrvEvents /\ HereOf(p, m) \in DrvEvents
  <2>1. m \notin Wired
      BY <1>2, <1>6, NeighborAssumption
  <2>2. drv \o CONNECT_EX(m, p) = Append(Append(drv, AddOf(p, m)), HereOf(p, m))
      BY <1>6, ReachFacts, Posted DEF AddOf, HereOf
  <2> QED
      BY <1>2, <1>6, <2>1, <2>2, DrvEventMade
<1> QED
    BY <1>1, <1>2, <1>4, <1>5, <1>6

LEMMA LeaveReach ==
    ASSUME NeighborTypeOK, ReachTypeOK, NEW m \in Macs, Leave(m), NEW p, p = world.port[m]
    PROVE  /\ world'.bridged = world.bridged /\ world'.arp = world.arp /\ world'.fdb = world.fdb
           /\ world'.port = [world.port EXCEPT ![m] = NONE]
           /\ UNCHANGED <<queue, cache, told, clients, lost, nl>>
           /\ p \in Ports
           /\ p \in WlanPorts => drv' = Append(drv, DelOf(p, m)) /\ DelOf(p, m) \in DrvEvents
           /\ p \notin WlanPorts => drv' = drv
<1>1. /\ world'.bridged = world.bridged /\ world'.arp = world.arp /\ world'.fdb = world.fdb
      /\ world'.port = [world.port EXCEPT ![m] = NONE]
      /\ UNCHANGED <<queue, cache, told, clients>>
    BY LeaveWorld
<1>2. /\ UNCHANGED <<lost, nl>> /\ p # NONE
      /\ p \notin WlanPorts => drv' = drv
      /\ p \in WlanPorts => drv' = drv \o CLIENT_DISCONNECT(m, p)
    BY DEF Leave, Change
<1>3. p \in Ports
    BY <1>2, ReachFacts
<1>4. ASSUME p \in WlanPorts
      PROVE  drv' = Append(drv, DelOf(p, m)) /\ DelOf(p, m) \in DrvEvents
  <2>1. m \notin Wired
      BY <1>2, <1>4, ReachFacts, NeighborAssumption DEF PlacesOK
  <2>2. drv \o CLIENT_DISCONNECT(m, p) = Append(drv, DelOf(p, m))
      BY <1>4, ReachFacts, Posted DEF DelOf
  <2> QED
      BY <1>2, <1>4, <2>1, <2>2, DrvEventMade
<1> QED
    BY <1>1, <1>2, <1>3, <1>4

LEMMA AgeReach ==
    ASSUME NeighborTypeOK, ReachTypeOK, NEW m \in Macs, Age(m), NEW e, e = EndOf(world.fdb[m], m, ZERO)
    PROVE  /\ world'.bridged = world.bridged /\ world'.arp = world.arp /\ world'.port = world.port
           /\ world'.fdb = [world.fdb EXCEPT ![m] = NONE]
           /\ UNCHANGED <<queue, cache, told, clients, lost, drv>>
           /\ AsEvents(nl') = Append(AsEvents(nl), e) /\ e \in NlEvents(world.bridged)
           /\ e \in PortEvents(m) /\ e.event = "DEL_NEIGH"
<1>1. /\ world'.bridged = world.bridged /\ world'.arp = world.arp /\ world'.port = world.port
      /\ world'.fdb = [world.fdb EXCEPT ![m] = NONE]
      /\ UNCHANGED <<queue, cache, told, clients>> /\ world.bridged /\ world.fdb[m] \in Ports
    BY AgeWorld
<1>2. UNCHANGED <<lost, drv>> /\ nl' = Append(nl, EndMsg(world.fdb[m], m, ZERO))
    BY DEF Age, Change, EndMsg
<1>3. EndMsg(world.fdb[m], m, ZERO) \in Messages
    BY <1>1, MessageMade DEF EndMsg, Devs
<1>4. AsEvents(nl') = Append(AsEvents(nl), e)
    BY <1>2, <1>3, ReachFacts, AsEventsJoined, DecodedOf
<1>5. e \in NlEvents(world.bridged)
  <2>1. world.fdb[m] \in Devs /\ ZERO \notin Addrs
      BY <1>1, NamesApart DEF Devs
  <2> QED
      BY <1>1, <2>1, ReachFacts, NlEventMade
<1>6. e.event = "DEL_NEIGH" /\ e.mac = m /\ e.addr = ZERO
    BY EventFields DEF EndOf
<1>7. e \in PortEvents(m)
    BY <1>5, <1>6 DEF PortEvents, BareEvents, NlEvents
<1> QED
    BY <1>1, <1>2, <1>4, <1>5, <1>6, <1>7

LEMMA LearnReach ==
    ASSUME NeighborTypeOK, ReachTypeOK, ~SecondAddress, NEW m \in Macs, NEW a \in Addrs, Learn(m, a),
           NEW i, i = Dev(world.port[m])
    PROVE  /\ world'.bridged = world.bridged /\ world'.arp = world.arp \cup {<<i, m, a>>}
           /\ world'.port = world.port /\ world'.fdb = world.fdb
           /\ UNCHANGED <<queue, cache, told, clients, lost, drv>>
           /\ AsEvents(nl') = Append(AsEvents(nl), NewOf(i, m, a)) /\ NewOf(i, m, a) \in NlEvents(world.bridged)
           /\ i \in Devs /\ i \in (IF world.bridged THEN {Bridge} ELSE Ports)
           /\ a \in V4 => \A e \in world.arp : e[2] = m => e[3] \notin V4
<1>1. PICK A : A = world.arp \cup {<<i, m, a>>}
    OBVIOUS
<1>2. /\ i \in Devs /\ A \in SUBSET (Devs \X Macs \X Addrs) /\ Change([world EXCEPT !.arp = A])
      /\ nl' = Append(nl, NewMsg(i, m, a)) /\ drv' = drv
    BY <1>1, LearnFacts DEF NewMsg
<1>3. /\ world'.bridged = world.bridged /\ world'.arp = A
      /\ world'.port = world.port /\ world'.fdb = world.fdb
      /\ UNCHANGED <<queue, cache, told, clients>>
    BY <1>2, ArpWorld
<1>4. UNCHANGED lost /\ world.port[m] # NONE
    BY DEF Learn, Change
<1>5. a \in V4 => \A e \in world.arp : e[2] = m => e[3] \notin V4
    BY NeighborAssumption DEF Learn
<1>6. i \in (IF world.bridged THEN {Bridge} ELSE Ports)
    BY <1>4, ReachFacts DEF Dev
<1>7. NewMsg(i, m, a) \in Messages
    BY <1>2, MessageMade DEF NewMsg
<1>8. AsEvents(nl') = Append(AsEvents(nl), NewOf(i, m, a))
    BY <1>2, <1>7, ReachFacts, AsEventsJoined, DecodedOf
<1>9. NewOf(i, m, a) \in NlEvents(world.bridged)
    BY <1>2, <1>6, ReachFacts, NlEventMade
<1> QED
    BY <1>1, <1>2, <1>3, <1>4, <1>5, <1>6, <1>8, <1>9

LEMMA ExpireReach ==
    ASSUME NeighborTypeOK, ReachTypeOK, NEW e \in world.arp, Expire(e), NEW d, d = EndOf(e[1], e[2], e[3])
    PROVE  /\ world'.bridged = world.bridged /\ world'.arp = world.arp \ {e}
           /\ world'.port = world.port /\ world'.fdb = world.fdb
           /\ UNCHANGED <<queue, cache, told, clients, lost, drv>>
           /\ AsEvents(nl') = Append(AsEvents(nl), d) /\ d \in NlEvents(world.bridged)
           /\ e[2] \in Macs /\ e[3] \in Addrs
           /\ d.event = "DEL_NEIGH" /\ d.mac = e[2] /\ d.addr = e[3]
<1>1. PICK A : A = world.arp \ {e}
    OBVIOUS
<1>2. /\ e[1] \in Devs /\ e[2] \in Macs /\ e[3] \in Addrs
      /\ A \in SUBSET (Devs \X Macs \X Addrs) /\ Change([world EXCEPT !.arp = A])
      /\ nl' = Append(nl, EndMsg(e[1], e[2], e[3])) /\ drv' = drv
    BY <1>1, ExpireFacts DEF EndMsg
<1>3. /\ world'.bridged = world.bridged /\ world'.arp = A
      /\ world'.port = world.port /\ world'.fdb = world.fdb
      /\ UNCHANGED <<queue, cache, told, clients>>
    BY <1>2, ArpWorld
<1>4. UNCHANGED lost
    BY DEF Expire, Change
<1>5. EndMsg(e[1], e[2], e[3]) \in Messages
    BY <1>2, MessageMade DEF EndMsg
<1>6. AsEvents(nl') = Append(AsEvents(nl), d)
    BY <1>2, <1>5, ReachFacts, AsEventsJoined, DecodedOf
<1>7. e[1] \in (IF world.bridged THEN {Bridge} ELSE Ports)
    BY ReachFacts DEF PlacesOK
<1>8. d \in NlEvents(world.bridged)
    BY <1>2, <1>7, ReachFacts, NlEventMade
<1>9. d.event = "DEL_NEIGH" /\ d.mac = e[2] /\ d.addr = e[3]
    BY EventFields DEF EndOf
<1> QED
    BY <1>1, <1>2, <1>3, <1>4, <1>6, <1>8, <1>9

LEMMA JoinReachType ==
    ASSUME NeighborTypeOK, ReachTypeOK, NEW m \in Macs, NEW p \in Ports, Join(m, p)
    PROVE  ReachTypeOK'
<1> DEFINE P == [world.port EXCEPT ![m] = p]
           F == [world.fdb EXCEPT ![m] = IF world.bridged THEN p ELSE world.fdb[m]]
<1>1. /\ world'.bridged = world.bridged /\ world'.arp = world.arp /\ world'.port = P /\ world'.fdb = F
      /\ queue' = queue /\ (m \in Wired) = (p \in LanPorts)
      /\ AsEvents(nl') \in {AsEvents(nl), Append(AsEvents(nl), PortOf(p, m))}
      /\ AsEvents(nl') = AsEvents(nl) \/ PortOf(p, m) \in NlEvents(world.bridged)
      /\ drv' = drv \/ (drv' = Append(Append(drv, AddOf(p, m)), HereOf(p, m))
                        /\ AddOf(p, m) \in DrvEvents /\ HereOf(p, m) \in DrvEvents)
    BY JoinReach
<1>2. AsEvents(nl') \in Seq(NlEvents(world.bridged))
  <2>1. CASE AsEvents(nl') = AsEvents(nl)
      BY <2>1, ReachFacts
  <2>2. CASE AsEvents(nl') # AsEvents(nl)
    <3>1. AsEvents(nl') = Append(AsEvents(nl), PortOf(p, m)) /\ PortOf(p, m) \in NlEvents(world.bridged)
        BY <1>1, <2>2
    <3> QED
        BY <3>1, ReachFacts, Joined
  <2> QED
      BY <2>1, <2>2
<1>3. drv' \in Seq(DrvEvents)
  <2>1. CASE drv' = drv
      BY <2>1, ReachFacts
  <2>2. CASE drv' # drv
    <3>1. /\ drv' = Append(Append(drv, AddOf(p, m)), HereOf(p, m))
          /\ AddOf(p, m) \in DrvEvents /\ HereOf(p, m) \in DrvEvents
        BY <1>1, <2>2
    <3>2. Append(drv, AddOf(p, m)) \in Seq(DrvEvents)
        BY <3>1, ReachFacts, Joined
    <3> QED
        BY <3>1, <3>2, Joined
  <2> QED
      BY <2>1, <2>2
<1>4. PlacesOK(P, F, world.arp, world.bridged)
  <2>1. /\ \A x \in Macs : P[x] = IF x = m THEN p ELSE world.port[x]
        /\ \A x \in Macs : F[x] = IF x = m /\ world.bridged THEN p ELSE world.fdb[x]
      BY ReachFacts DEF Worlds
  <2> HIDE DEF P, F
  <2> QED
      BY <1>1, <2>1, ReachFacts DEF PlacesOK
<1> HIDE DEF P, F
<1> QED
    BY <1>1, <1>2, <1>3, <1>4, ReachFacts DEF ReachTypeOK

LEMMA LeaveReachType ==
    ASSUME NeighborTypeOK, ReachTypeOK, NEW m \in Macs, Leave(m)
    PROVE  ReachTypeOK'
<1> DEFINE P == [world.port EXCEPT ![m] = NONE]
<1>1. PICK p : p = world.port[m]
    OBVIOUS
<1>2. /\ world'.bridged = world.bridged /\ world'.arp = world.arp /\ world'.port = P /\ world'.fdb = world.fdb
      /\ UNCHANGED <<queue, nl>>
      /\ drv' = drv \/ (drv' = Append(drv, DelOf(p, m)) /\ DelOf(p, m) \in DrvEvents)
    BY <1>1, LeaveReach
<1>3. drv' \in Seq(DrvEvents)
    BY <1>2, ReachFacts, Joined
<1>4. PlacesOK(P, world.fdb, world.arp, world.bridged)
  <2>1. \A x \in Macs : P[x] = IF x = m THEN NONE ELSE world.port[x]
      BY ReachFacts DEF Worlds
  <2> HIDE DEF P
  <2> QED
      BY <2>1, ReachFacts DEF PlacesOK
<1> HIDE DEF P
<1> QED
    BY <1>2, <1>3, <1>4, ReachFacts DEF ReachTypeOK

LEMMA AgeReachType ==
    ASSUME NeighborTypeOK, ReachTypeOK, NEW m \in Macs, Age(m)
    PROVE  ReachTypeOK'
<1> DEFINE F == [world.fdb EXCEPT ![m] = NONE]
<1>1. PICK e : e = EndOf(world.fdb[m], m, ZERO)
    OBVIOUS
<1>2. /\ world'.bridged = world.bridged /\ world'.arp = world.arp /\ world'.port = world.port /\ world'.fdb = F
      /\ UNCHANGED <<queue, drv>>
      /\ AsEvents(nl') = Append(AsEvents(nl), e) /\ e \in NlEvents(world.bridged)
    BY <1>1, AgeReach
<1>3. AsEvents(nl') \in Seq(NlEvents(world.bridged))
    BY <1>2, ReachFacts, Joined
<1>4. PlacesOK(world.port, F, world.arp, world.bridged)
  <2>1. \A x \in Macs : F[x] = IF x = m THEN NONE ELSE world.fdb[x]
      BY ReachFacts DEF Worlds
  <2> HIDE DEF F
  <2> QED
      BY <2>1, ReachFacts DEF PlacesOK
<1> HIDE DEF F
<1> QED
    BY <1>2, <1>3, <1>4, ReachFacts DEF ReachTypeOK

LEMMA LearnReachType ==
    ASSUME NeighborTypeOK, ReachTypeOK, ~SecondAddress, NEW m \in Macs, NEW a \in Addrs, Learn(m, a)
    PROVE  ReachTypeOK'
<1>1. PICK i : i = Dev(world.port[m])
    OBVIOUS
<1>2. /\ world'.bridged = world.bridged /\ world'.arp = world.arp \cup {<<i, m, a>>}
      /\ world'.port = world.port /\ world'.fdb = world.fdb /\ UNCHANGED <<queue, drv>>
      /\ AsEvents(nl') = Append(AsEvents(nl), NewOf(i, m, a)) /\ NewOf(i, m, a) \in NlEvents(world.bridged)
      /\ i \in (IF world.bridged THEN {Bridge} ELSE Ports)
      /\ a \in V4 => \A e \in world.arp : e[2] = m => e[3] \notin V4
    BY <1>1, LearnReach
<1>3. AsEvents(nl') \in Seq(NlEvents(world.bridged))
    BY <1>2, ReachFacts, Joined
<1>4. PlacesOK(world.port, world.fdb, world.arp \cup {<<i, m, a>>}, world.bridged)
  <2>1. PICK t : t = <<i, m, a>>
      OBVIOUS
  <2>2. t[1] = i /\ t[2] = m /\ t[3] = a
      BY <2>1
  <2>3. PICK A : A = world.arp
      OBVIOUS
  <2>4. /\ \A e, f \in A : e[2] = f[2] /\ e[3] \in V4 /\ f[3] \in V4 => e = f
        /\ \A e \in A : e[1] \in (IF world.bridged THEN {Bridge} ELSE Ports)
        /\ a \in V4 => \A e \in A : e[2] = m => e[3] \notin V4
      BY <1>2, <2>3, ReachFacts DEF PlacesOK
  <2>5. \A e \in A \cup {t} : e[1] \in (IF world.bridged THEN {Bridge} ELSE Ports)
      BY <1>2, <2>2, <2>4
  <2>6. \A e, f \in A \cup {t} : e[2] = f[2] /\ e[3] \in V4 /\ f[3] \in V4 => e = f
      BY <2>2, <2>4
  <2> QED
      BY <2>1, <2>3, <2>5, <2>6, ReachFacts DEF PlacesOK
<1> QED
    BY <1>2, <1>3, <1>4, ReachFacts DEF ReachTypeOK

LEMMA ExpireReachType ==
    ASSUME NeighborTypeOK, ReachTypeOK, NEW e \in world.arp, Expire(e)
    PROVE  ReachTypeOK'
<1>1. PICK d : d = EndOf(e[1], e[2], e[3])
    OBVIOUS
<1>2. /\ world'.bridged = world.bridged /\ world'.arp = world.arp \ {e}
      /\ world'.port = world.port /\ world'.fdb = world.fdb /\ UNCHANGED <<queue, drv>>
      /\ AsEvents(nl') = Append(AsEvents(nl), d) /\ d \in NlEvents(world.bridged)
    BY <1>1, ExpireReach
<1>3. AsEvents(nl') \in Seq(NlEvents(world.bridged))
    BY <1>2, ReachFacts, Joined
<1>4. PlacesOK(world.port, world.fdb, world.arp \ {e}, world.bridged)
    BY ReachFacts DEF PlacesOK
<1> QED
    BY <1>2, <1>3, <1>4, ReachFacts DEF ReachTypeOK

(* The threads post *)

LEMMA PassReach ==
    ASSUME NeighborTypeOK, ReachTypeOK, ipa_nl_recv_msg \/ ipa_driver_msg_notifier
    PROVE  /\ UNCHANGED <<world, cache, told, clients, lost>>
           /\ \/ /\ AsEvents(nl) # << >> /\ AsEvents(nl') = Tail(AsEvents(nl)) /\ drv' = drv
                 /\ queue' = Append(queue, Head(AsEvents(nl)))
              \/ /\ drv # << >> /\ drv' = Tail(drv) /\ AsEvents(nl') = AsEvents(nl)
                 /\ queue' = Append(queue, Head(drv))
           /\ ReachTypeOK'
<1>1. UNCHANGED <<world, cache, told, clients, lost>>
    BY DEF ipa_nl_recv_msg, ipa_driver_msg_notifier
<1>2. CASE ipa_nl_recv_msg
  <2>1. /\ nl # << >> /\ nl' = Tail(nl) /\ drv' = drv /\ queue' = Append(queue, ipa_nl_decode_nlmsg(Head(nl)))
      BY <1>2 DEF ipa_nl_recv_msg
  <2>2. /\ AsEvents(nl) # << >> /\ AsEvents(nl') = Tail(AsEvents(nl))
        /\ queue' = Append(queue, Head(AsEvents(nl)))
      BY <2>1, ReachFacts, AsEventsLeft
  <2>3. AsEvents(nl') \in Seq(NlEvents(world.bridged)) /\ Head(AsEvents(nl)) \in NlEvents(world.bridged)
      BY <2>2, ReachFacts, Left
  <2>4. queue' \in Seq(QueueEvents(world.bridged))
      BY <2>2, <2>3, ReachFacts, Joined DEF QueueEvents
  <2> QED
      BY <1>1, <2>1, <2>2, <2>3, <2>4, ReachFacts DEF ReachTypeOK
<1>3. CASE ipa_driver_msg_notifier
  <2>1. /\ drv # << >> /\ drv' = Tail(drv) /\ nl' = nl /\ queue' = Append(queue, Head(drv))
      BY <1>3 DEF ipa_driver_msg_notifier
  <2>2. drv' \in Seq(DrvEvents) /\ Head(drv) \in DrvEvents
      BY <2>1, ReachFacts, Left
  <2>3. queue' \in Seq(QueueEvents(world.bridged))
      BY <2>1, <2>2, ReachFacts, Joined DEF QueueEvents
  <2> QED
      BY <1>1, <2>1, <2>2, <2>3, ReachFacts DEF ReachTypeOK
<1> QED
    BY <1>1, <1>2, <1>3

(* What is last stays last when the world changes *)

LEMMA AddressesLastGrown ==
    ASSUME NEW S, NEW x \in Seq(S), NEW e \in S, NEW q, NEW H, NEW l, NEW A, NEW A2,
           AddressesLast(A, x, q, H, l),
           \A f \in A2 : f[3] \in V4 \ LinkLocal =>
               (f \in A /\ e \notin V4Events(f[2])) \/ e = NewOf(f[1], f[2], f[3])
    PROVE  AddressesLast(A2, Append(x, e), q, H, l)
<1> SUFFICES ASSUME NEW f \in A2, f[3] \in V4 \ LinkLocal
             PROVE  AddressLast(Append(x, e), q, H, l, f)
    BY DEF AddressesLast
<1> DEFINE n == NewOf(f[1], f[2], f[3])
           B == V4Events(f[2])
<1>1. (f \in A /\ e \notin B) \/ e = n
    OBVIOUS
<1>2. f \in A => Chain(x, q, B, {n}) /\ (Pending(x, q, {n}) \/ Kept(H, l, f[2], f[3]))
    BY DEF AddressesLast, AddressLast
<1> HIDE DEF n, B
<1>3. Chain(Append(x, e), q, B, {n})
    BY <1>1, <1>2, ChainPosted
<1>4. HasAny(Append(x, e), {n}) <=> HasAny(x, {n}) \/ e = n
    BY AnyJoined
<1>5. Pending(Append(x, e), q, {n}) \/ Kept(H, l, f[2], f[3])
    BY <1>1, <1>2, <1>4 DEF Pending
<1> QED
    BY <1>3, <1>5 DEF AddressLast, n, B

LEMMA PortsLastGrown ==
    ASSUME NEW S, NEW x \in Seq(S), NEW e \in S, NEW q, NEW F, NEW F2, PortsLast(F, x, q),
           \A m \in Macs : (F2[m] = F[m] /\ e \notin PortEvents(m)) \/ e \in PortKnown(F2[m], m)
    PROVE  PortsLast(F2, Append(x, e), q)
<1> SUFFICES ASSUME NEW m \in Macs
             PROVE  Chain(Append(x, e), q, PortEvents(m), PortKnown(F2[m], m))
    BY DEF PortsLast
<1>1. Chain(x, q, PortEvents(m), PortKnown(F[m], m))
    BY DEF PortsLast
<1>2. e \in PortKnown(F2[m], m)
      \/ (e \notin PortEvents(m) /\ Chain(x, q, PortEvents(m), PortKnown(F2[m], m)))
    BY <1>1
<1> QED
    BY <1>2, ChainPosted

LEMMA BehindGrown ==
    ASSUME NEW x, NEW y, NEW u, NEW v, NEW q, NEW H, NEW b, NEW P, NEW F, NEW P2, NEW F2,
           EntriesBehind(P, F, b, x, y, q, H),
           \A B : HasAny(x, B) \/ HasAny(y, B) => HasAny(u, B) \/ HasAny(v, B),
           \A m \in Macs : Calm(u, v, q, BareEvents(m)) =>
               \A i : BehindPort(P, F, m, i) => BehindPort(P2, F2, m, i)
    PROVE  EntriesBehind(P2, F2, b, u, v, q, H)
<1>1. \A B : Calm(u, v, q, B) => Calm(x, y, q, B)
    BY DEF Calm
<1> QED
    BY <1>1 DEF EntriesBehind

LEMMA ToldGrown ==
    ASSUME NEW x, NEW y, NEW u, NEW v, NEW q, NEW T, NEW l, NEW b, NEW P, NEW F, NEW A, NEW P2, NEW F2, NEW A2,
           AddressesTold(P, F, A, b, x, y, q, T, l),
           \A B : HasAny(x, B) \/ HasAny(y, B) => HasAny(u, B) \/ HasAny(v, B),
           \A m \in Macs : Calm(u, v, q, Telling(m)) =>
               /\ \A p \in Ports : Placed(P2, F2, b, p, m) => Placed(P, F, b, p, m)
               /\ \A p \in Ports, a \in V4 \ LinkLocal :
                     <<IF b THEN Bridge ELSE p, m, a>> \in A2 => <<IF b THEN Bridge ELSE p, m, a>> \in A
    PROVE  AddressesTold(P2, F2, A2, b, u, v, q, T, l)
<1>1. \A B : Calm(u, v, q, B) => Calm(x, y, q, B)
    BY DEF Calm
<1> SUFFICES ASSUME NEW m \in Macs, NEW p \in Ports, NEW a \in V4 \ LinkLocal,
                    Placed(P2, F2, b, p, m), <<IF b THEN Bridge ELSE p, m, a>> \in A2,
                    Calm(u, v, q, Telling(m))
             PROVE  m \in l \/ ToldLast(q, T, p, m, a)
    BY DEF AddressesTold
<1>2. Placed(P, F, b, p, m) /\ <<IF b THEN Bridge ELSE p, m, a>> \in A /\ Calm(x, y, q, Telling(m))
    BY <1>1
<1> QED
    BY <1>2 DEF AddressesTold

\* The driver posts of the client n.
LEMMA AssociationGrown ==
    ASSUME NEW S, NEW y \in Seq(S), NEW e \in S, NEW q, NEW T, NEW p, NEW m, AssociationLast(y, q, T, p, m), e.mac # m
    PROVE  AssociationLast(Append(y, e), q, T, p, m)
<1>1. DelOf(p, m).mac = m
    BY EventFields DEF DelOf
<1>2. e \notin AssociationEvents(p, m) /\ e \notin {DelOf(p, m)}
    BY <1>1 DEF AssociationEvents, AddEvents, BareEvents
<1>3. HasAny(y, {AddOf(p, m)}) => HasAny(Append(y, e), {AddOf(p, m)})
    BY AnyJoined
<1>4. /\ Chain(Append(y, e), q, {DelOf(p, m)}, {AddOf(p, m)})
      /\ Chain(Append(y, e), q, AssociationEvents(p, m), {HereOf(p, m)})
    BY <1>2, ChainPosted DEF AssociationLast
<1> QED
    BY <1>3, <1>4 DEF AssociationLast, Pending

LEMMA AssociationBegun ==
    ASSUME NEW S, NEW y \in Seq(S), NEW q, NEW T, NEW p \in WlanPorts, NEW m \in Macs, m \notin Wired,
           AddOf(p, m) \in S, HereOf(p, m) \in S
    PROVE  AssociationLast(Append(Append(y, AddOf(p, m)), HereOf(p, m)), q, T, p, m)
<1> DEFINE u == Append(y, AddOf(p, m))
           v == Append(u, HereOf(p, m))
<1>1. u \in Seq(S)
    BY Joined
<1>2. HereOf(p, m) \notin {DelOf(p, m)}
    BY DrvEventMade
<1>3. Chain(u, q, {DelOf(p, m)}, {AddOf(p, m)})
    BY ChainPosted
<1>4. HasAny(u, {AddOf(p, m)})
    BY AnyJoined
<1> HIDE DEF u
<1>5. Chain(v, q, {DelOf(p, m)}, {AddOf(p, m)}) /\ Chain(v, q, AssociationEvents(p, m), {HereOf(p, m)})
    BY <1>1, <1>2, <1>3, ChainPosted
<1>6. HasAny(v, {AddOf(p, m)})
    BY <1>1, <1>4, AnyJoined
<1> HIDE DEF v
<1>7. AssociationLast(v, q, T, p, m)
    BY <1>5, <1>6 DEF AssociationLast, Pending
<1> QED
    BY <1>7 DEF v, u

LEMMA BareElsewhere ==
    ASSUME NEW m, NEW e, e.addr = ZERO
    PROVE  e \notin V4Events(m) /\ (e.mac # m => e \notin PortEvents(m))
    BY NeighborAssumption DEF V4Events, PortEvents, BareEvents

LEMMA AddressElsewhere ==
    ASSUME NEW m, NEW e, e.addr \in Addrs
    PROVE  e \notin BareEvents(m) /\ e \notin PortEvents(m) /\ (e.mac # m => e \notin V4Events(m))
    BY NeighborAssumption DEF V4Events, PortEvents, BareEvents, Addrs

LEMMA AnyTwice ==
    ASSUME NEW S, NEW s \in Seq(S), NEW d \in S, NEW e \in S, NEW C
    PROVE  HasAny(Append(Append(s, d), e), C) <=> HasAny(s, C) \/ d \in C \/ e \in C
<1>1. Append(s, d) \in Seq(S)
    BY Joined
<1> QED
    BY <1>1, AnyJoined

LEMMA JoinReachInv ==
    ASSUME NeighborTypeOK, ReachTypeOK, ReachInv, NEW m \in Macs, NEW p \in Ports, Join(m, p)
    PROVE  ReachInv'
<1> DEFINE b == world.bridged
           x == AsEvents(nl)
           e == PortOf(p, m)
           S == NlEvents(b)
<1>1. PICK P2 : P2 = world'.port
    OBVIOUS
<1>2. PICK F2 : F2 = world'.fdb
    OBVIOUS
<1>3. PICK u : u = AsEvents(nl')
    OBVIOUS
<1>4. PICK v : v = drv'
    OBVIOUS
<1>5. /\ world'.bridged = b /\ world'.arp = world.arp
      /\ UNCHANGED <<queue, cache, told, clients, lost>>
      /\ (m \in Wired) = (p \in LanPorts) /\ world.port[m] = NONE
      /\ u = IF b /\ world.fdb[m] # p THEN Append(x, e) ELSE x
      /\ b => e \in S
      /\ p \in WlanPorts => /\ v = Append(Append(drv, AddOf(p, m)), HereOf(p, m))
                            /\ AddOf(p, m) \in DrvEvents /\ HereOf(p, m) \in DrvEvents
      /\ p \notin WlanPorts => v = drv
    BY <1>1, <1>2, <1>3, <1>4, JoinReach
<1>6. /\ \A n \in Macs : P2[n] = IF n = m THEN p ELSE world.port[n]
      /\ \A n \in Macs : F2[n] = IF n = m /\ b THEN p ELSE world.fdb[n]
  <2>1. /\ P2 = [world.port EXCEPT ![m] = p]
        /\ F2 = [world.fdb EXCEPT ![m] = IF world.bridged THEN p ELSE world.fdb[m]]
      BY <1>1, <1>2, JoinReach
  <2>2. DOMAIN world.port = Macs /\ DOMAIN world.fdb = Macs
      BY ReachFacts DEF Worlds
  <2>3. \A n \in Macs : P2[n] = IF n = m THEN p ELSE world.port[n]
      BY <2>1, <2>2
  <2>4. \A n \in Macs : F2[n] = IF n = m /\ b THEN p ELSE world.fdb[n]
      BY <2>1, <2>2
  <2> QED
      BY <2>3, <2>4
<1>7. x \in Seq(S) /\ drv \in Seq(DrvEvents)
    BY ReachFacts
<1>8. e.event = "NEW_NEIGH" /\ e.name = p /\ e.mac = m /\ e.addr = ZERO /\ p # NO_NAME
    BY EventFields, NeighborAssumption DEF PortOf, NewOf
<1> HIDE DEF e, x
<1>9. b => e \in BareEvents(m) /\ e \in PortEvents(m)
    BY <1>5, <1>8 DEF BareEvents, PortEvents, NlEvents
<1>10. p \in WlanPorts => HereOf(p, m) \in BareEvents(m)
  <2>1. HereOf(p, m).event = "NEW_NEIGH" /\ HereOf(p, m).addr = ZERO /\ HereOf(p, m).mac = m
      BY EventFields DEF HereOf
  <2> QED
      BY <1>5, <2>1 DEF BareEvents, DrvEvents, Associations
<1> HIDE DEF S
<1>11. \A B : HasAny(x, B) => HasAny(u, B)
  <2>1. CASE u = x
      BY <2>1
  <2>2. CASE u # x
      BY <1>5, <1>7, <2>2, AnyJoined
  <2> QED
      BY <2>1, <2>2
<1>19. ASSUME p \in WlanPorts, NEW B
       PROVE  HasAny(v, B) <=> HasAny(drv, B) \/ AddOf(p, m) \in B \/ HereOf(p, m) \in B
  <2>1. PICK d : d = AddOf(p, m)
      OBVIOUS
  <2>2. PICK k : k = HereOf(p, m)
      OBVIOUS
  <2>3. v = Append(Append(drv, d), k) /\ d \in DrvEvents /\ k \in DrvEvents
      BY <1>5, <1>19, <2>1, <2>2
  <2>4. HasAny(v, B) <=> HasAny(drv, B) \/ d \in B \/ k \in B
      BY <1>7, <2>3, AnyTwice
  <2> QED
      BY <2>1, <2>2, <2>4
<1>12. \A B : HasAny(drv, B) => HasAny(v, B)
  <2>1. CASE p \in WlanPorts
      BY <1>19, <2>1
  <2>2. CASE p \notin WlanPorts
      BY <1>5, <2>2
  <2> QED
      BY <2>1, <2>2
<1>13. Calm(u, v, queue, BareEvents(m)) => p \notin WlanPorts /\ (b => world.fdb[m] = p)
  <2>1. p \in WlanPorts => HasAny(v, BareEvents(m))
      BY <1>10, <1>19
  <2>2. b /\ world.fdb[m] # p => HasAny(u, BareEvents(m))
      BY <1>5, <1>7, <1>9, AnyJoined
  <2> QED
      BY <2>1, <2>2 DEF Calm
<1>14. AddressesLast(world.arp, u, queue, Held(cache), lost)
  <2>1. AddressesLast(world.arp, x, queue, Held(cache), lost)
      BY DEF ReachInv, x
  <2>2. CASE u = x
      BY <2>1, <2>2
  <2>3. CASE u # x
    <3>1. u = Append(x, e) /\ e \in S
        BY <1>5, <2>3
    <3>2. \A f \in world.arp : e \notin V4Events(f[2])
        BY <1>8, BareElsewhere
    <3> QED
        BY <1>7, <2>1, <3>1, <3>2, AddressesLastGrown
  <2> QED
      BY <2>2, <2>3
<1>15. AssociationsLast(P2, v, queue, clients)
  <2> SUFFICES ASSUME NEW n \in Macs, P2[n] \in WlanPorts
               PROVE  AssociationLast(v, queue, clients, P2[n], n)
      BY DEF AssociationsLast
  <2>1. CASE n = m
    <3>1. P2[n] = p /\ p \in WlanPorts /\ m \notin Wired
        BY <1>5, <1>6, <2>1, NeighborAssumption
    <3> QED
        BY <1>5, <1>7, <2>1, <3>1, AssociationBegun
  <2>2. CASE n # m
    <3>1. AssociationLast(drv, queue, clients, P2[n], n)
        BY <1>6, <2>2 DEF ReachInv, AssociationsLast
    <3>2. CASE p \in WlanPorts
      <4>1. Append(drv, AddOf(p, m)) \in Seq(DrvEvents)
          BY <1>5, <1>7, <3>2, Joined
      <4>2. AddOf(p, m).mac # n /\ HereOf(p, m).mac # n
          BY <2>2, EventFields DEF AddOf, HereOf
      <4>3. AssociationLast(Append(drv, AddOf(p, m)), queue, clients, P2[n], n)
          BY <1>5, <1>7, <3>1, <3>2, <4>2, AssociationGrown
      <4> QED
          BY <1>5, <3>2, <4>1, <4>2, <4>3, AssociationGrown
    <3>3. CASE p \notin WlanPorts
        BY <1>5, <3>1, <3>3
    <3> QED
        BY <3>2, <3>3
  <2> QED
      BY <2>1, <2>2
<1>16. PortsLast(F2, u, queue)
  <2>1. PortsLast(world.fdb, x, queue)
      BY DEF ReachInv, x
  <2>2. CASE u = x
    <3>1. \A n \in Macs : F2[n] = world.fdb[n]
      <4>1. ~b \/ world.fdb[m] = p \/ x = Append(x, e)
          BY <1>5, <2>2
      <4>2. x = Append(x, e) => x \notin Seq(S) \/ e \notin S
        <5>1. ASSUME x \in Seq(S), e \in S, x = Append(x, e)
              PROVE  FALSE
          <6>1. Len(Append(x, e)) = Len(x) + 1 /\ Len(x) \in Nat
              BY <5>1, Joined
          <6> QED
              BY <5>1, <6>1
        <5> QED
            BY <5>1
      <4> QED
          BY <1>5, <1>6, <1>7, <4>1, <4>2
    <3> QED
        BY <2>1, <2>2, <3>1 DEF PortsLast
  <2>3. CASE u # x
    <3>1. u = Append(x, e) /\ e \in S /\ b
        BY <1>5, <2>3
    <3>2. F2[m] = p /\ e \in PortKnown(F2[m], m)
        BY <1>6, <3>1, NamesApart DEF PortKnown, e
    <3>3. \A n \in Macs : n # m => F2[n] = world.fdb[n] /\ e \notin PortEvents(n)
        BY <1>6, <1>8, BareElsewhere
    <3> QED
        BY <1>7, <2>1, <3>1, <3>2, <3>3, PortsLastGrown
  <2> QED
      BY <2>2, <2>3
<1>17. EntriesBehind(P2, F2, b, u, v, queue, Held(cache))
  <2>1. EntriesBehind(world.port, world.fdb, b, x, drv, queue, Held(cache))
      BY DEF ReachInv, x
  <2>2. ASSUME NEW n \in Macs, Calm(u, v, queue, BareEvents(n)), NEW i, BehindPort(world.port, world.fdb, n, i)
        PROVE  BehindPort(P2, F2, n, i)
      BY <1>5, <1>6, <1>13, <2>2, NeighborAssumption DEF BehindPort, Ports
  <2> QED
      BY <1>11, <1>12, <2>1, <2>2, BehindGrown
<1>18. AddressesTold(P2, F2, world.arp, b, u, v, queue, told, lost)
  <2>1. AddressesTold(world.port, world.fdb, world.arp, b, x, drv, queue, told, lost)
      BY DEF ReachInv, x
  <2>2. ASSUME NEW n \in Macs, Calm(u, v, queue, Telling(n)), NEW r \in Ports, Placed(P2, F2, b, r, n)
        PROVE  Placed(world.port, world.fdb, b, r, n)
    <3>1. Calm(u, v, queue, BareEvents(n))
        BY <2>2 DEF Calm, Telling, HasAny
    <3> QED
        BY <1>5, <1>6, <1>13, <2>2, <3>1 DEF Placed, Ports
  <2> QED
      BY <1>11, <1>12, <2>1, <2>2, ToldGrown
<1> QED
    BY <1>1, <1>2, <1>3, <1>4, <1>5, <1>14, <1>15, <1>16, <1>17, <1>18 DEF ReachInv

LEMMA LeaveReachInv ==
    ASSUME NeighborTypeOK, ReachTypeOK, ReachInv, NEW m \in Macs, Leave(m)
    PROVE  ReachInv'
<1> DEFINE b == world.bridged
           x == AsEvents(nl)
<1>1. PICK P2 : P2 = world'.port
    OBVIOUS
<1>2. PICK v : v = drv'
    OBVIOUS
<1>3. PICK p : p = world.port[m]
    OBVIOUS
<1>4. /\ world'.bridged = b /\ world'.arp = world.arp /\ world'.fdb = world.fdb
      /\ UNCHANGED <<queue, cache, told, clients, lost, nl>>
      /\ P2 = [world.port EXCEPT ![m] = NONE]
      /\ p \in WlanPorts => v = Append(drv, DelOf(p, m)) /\ DelOf(p, m) \in DrvEvents
      /\ p \notin WlanPorts => v = drv
    BY <1>1, <1>2, <1>3, LeaveReach
<1>5. \A n \in Macs : P2[n] = IF n = m THEN NONE ELSE world.port[n]
  <2>1. DOMAIN world.port = Macs
      BY ReachFacts DEF Worlds
  <2> QED
      BY <1>4, <2>1
<1>6. drv \in Seq(DrvEvents) /\ NONE \notin WlanPorts
    BY ReachFacts, NamesApart DEF Ports
<1>7. \A B : HasAny(drv, B) => HasAny(v, B)
  <2>1. CASE p \in WlanPorts
    <3>1. PICK d : d = DelOf(p, m)
        OBVIOUS
    <3>2. v = Append(drv, d) /\ d \in DrvEvents
        BY <1>4, <2>1, <3>1
    <3> QED
        BY <1>6, <3>2, AnyJoined
  <2>2. CASE p \notin WlanPorts
      BY <1>4, <2>2
  <2> QED
      BY <2>1, <2>2
<1>8. AssociationsLast(P2, v, queue, clients)
  <2> SUFFICES ASSUME NEW n \in Macs, P2[n] \in WlanPorts
               PROVE  AssociationLast(v, queue, clients, P2[n], n)
      BY DEF AssociationsLast
  <2>1. n # m /\ P2[n] = world.port[n]
      BY <1>5, <1>6
  <2>2. AssociationLast(drv, queue, clients, P2[n], n)
      BY <2>1 DEF ReachInv, AssociationsLast
  <2>3. DelOf(p, m).mac # n
      BY <2>1, EventFields DEF DelOf
  <2>4. CASE p \in WlanPorts
      BY <1>4, <1>6, <2>2, <2>3, <2>4, AssociationGrown
  <2>5. CASE p \notin WlanPorts
      BY <1>4, <2>2, <2>5
  <2> QED
      BY <2>4, <2>5
<1>9. EntriesBehind(P2, world.fdb, b, x, v, queue, Held(cache))
  <2>1. EntriesBehind(world.port, world.fdb, b, x, drv, queue, Held(cache))
      BY DEF ReachInv
  <2>2. \A n \in Macs : \A i : BehindPort(world.port, world.fdb, n, i) => BehindPort(P2, world.fdb, n, i)
      BY <1>5 DEF BehindPort
  <2> HIDE DEF x
  <2> QED
      BY <1>7, <2>1, <2>2, BehindGrown
<1>10. AddressesTold(P2, world.fdb, world.arp, b, x, v, queue, told, lost)
  <2>1. AddressesTold(world.port, world.fdb, world.arp, b, x, drv, queue, told, lost)
      BY DEF ReachInv
  <2>2. \A n \in Macs, r \in Ports : Placed(P2, world.fdb, b, r, n) => Placed(world.port, world.fdb, b, r, n)
      BY <1>5, <1>6 DEF Placed
  <2> HIDE DEF x
  <2> QED
      BY <1>7, <2>1, <2>2, ToldGrown
<1>11. PortsLast(world.fdb, x, queue) /\ AddressesLast(world.arp, x, queue, Held(cache), lost)
    BY DEF ReachInv
<1>12. AsEvents(nl') = x
    BY <1>4
<1> HIDE DEF x
<1> QED
    BY <1>1, <1>2, <1>4, <1>8, <1>9, <1>10, <1>11, <1>12 DEF ReachInv

LEMMA AgeReachInv ==
    ASSUME NeighborTypeOK, ReachTypeOK, ReachInv, NEW m \in Macs, Age(m)
    PROVE  ReachInv'
<1> DEFINE b == world.bridged
           x == AsEvents(nl)
<1>1. PICK F2 : F2 = world'.fdb
    OBVIOUS
<1>2. PICK u : u = AsEvents(nl')
    OBVIOUS
<1>3. PICK e : e = EndOf(world.fdb[m], m, ZERO)
    OBVIOUS
<1>4. /\ world'.bridged = b /\ world'.arp = world.arp /\ world'.port = world.port
      /\ F2 = [world.fdb EXCEPT ![m] = NONE]
      /\ UNCHANGED <<queue, cache, told, clients, lost, drv>>
      /\ u = Append(x, e) /\ e \in NlEvents(b)
      /\ e \in PortEvents(m) /\ e.event = "DEL_NEIGH"
    BY <1>1, <1>2, <1>3, AgeReach
<1>5. \A n \in Macs : F2[n] = IF n = m THEN NONE ELSE world.fdb[n]
  <2>1. DOMAIN world.fdb = Macs
      BY ReachFacts DEF Worlds
  <2> QED
      BY <1>4, <2>1
<1>6. x \in Seq(NlEvents(b))
    BY ReachFacts
<1>7. e.mac = m /\ e.addr = ZERO /\ e \in BareEvents(m)
    BY <1>4 DEF PortEvents, BareEvents
<1>8. /\ AddressesLast(world.arp, x, queue, Held(cache), lost) /\ PortsLast(world.fdb, x, queue)
      /\ EntriesBehind(world.port, world.fdb, b, x, drv, queue, Held(cache))
      /\ AddressesTold(world.port, world.fdb, world.arp, b, x, drv, queue, told, lost)
      /\ AssociationsLast(world.port, drv, queue, clients)
    BY DEF ReachInv
<1> HIDE DEF x, b
<1>9. \A B : HasAny(x, B) => HasAny(u, B)
    BY <1>4, <1>6, AnyJoined
<1>10. ~Calm(u, drv, queue, BareEvents(m)) /\ ~Calm(u, drv, queue, Telling(m))
  <2>1. HasAny(u, BareEvents(m))
      BY <1>4, <1>6, <1>7, AnyJoined
  <2> QED
      BY <2>1 DEF Calm, Telling, HasAny
<1>11. AddressesLast(world.arp, u, queue, Held(cache), lost)
  <2>1. \A f \in world.arp : e \notin V4Events(f[2])
      BY <1>7, BareElsewhere
  <2> QED
      BY <1>4, <1>6, <1>8, <2>1, AddressesLastGrown
<1>12. PortsLast(F2, u, queue)
  <2>1. e \in PortKnown(F2[m], m)
      BY <1>4, <1>5 DEF PortKnown
  <2>2. \A n \in Macs : n # m => F2[n] = world.fdb[n] /\ e \notin PortEvents(n)
      BY <1>5, <1>7, BareElsewhere
  <2> QED
      BY <1>4, <1>6, <1>8, <2>1, <2>2, PortsLastGrown
<1>13. EntriesBehind(world.port, F2, b, u, drv, queue, Held(cache))
  <2>1. \A n \in Macs : Calm(u, drv, queue, BareEvents(n)) =>
            \A i : BehindPort(world.port, world.fdb, n, i) => BehindPort(world.port, F2, n, i)
      BY <1>5, <1>10 DEF BehindPort
  <2> QED
      BY <1>8, <1>9, <2>1, BehindGrown
<1>14. AddressesTold(world.port, F2, world.arp, b, u, drv, queue, told, lost)
  <2>1. \A n \in Macs : Calm(u, drv, queue, Telling(n)) =>
            \A r \in Ports : Placed(world.port, F2, b, r, n) => Placed(world.port, world.fdb, b, r, n)
      BY <1>5, <1>10 DEF Placed
  <2> QED
      BY <1>8, <1>9, <2>1, ToldGrown
<1> QED
    BY <1>1, <1>2, <1>4, <1>8, <1>11, <1>12, <1>13, <1>14 DEF ReachInv, b

LEMMA LearnReachInv ==
    ASSUME NeighborTypeOK, ReachTypeOK, ReachInv, ~SecondAddress, NEW m \in Macs, NEW a \in Addrs, Learn(m, a)
    PROVE  ReachInv'
<1> DEFINE b == world.bridged
           x == AsEvents(nl)
<1>1. PICK i : i = Dev(world.port[m])
    OBVIOUS
<1>2. PICK u : u = AsEvents(nl')
    OBVIOUS
<1>3. PICK e : e = NewOf(i, m, a)
    OBVIOUS
<1>4. PICK t : t = <<i, m, a>>
    OBVIOUS
<1>5. PICK A2 : A2 = world'.arp
    OBVIOUS
<1>6. /\ world'.bridged = b /\ A2 = world.arp \cup {t}
      /\ world'.port = world.port /\ world'.fdb = world.fdb
      /\ UNCHANGED <<queue, cache, told, clients, lost, drv>>
      /\ u = Append(x, e) /\ e \in NlEvents(b)
      /\ a \in V4 => \A f \in world.arp : f[2] = m => f[3] \notin V4
    BY <1>1, <1>2, <1>3, <1>4, <1>5, LearnReach
<1>7. x \in Seq(NlEvents(b))
    BY ReachFacts
<1>8. e.event = "NEW_NEIGH" /\ e.mac = m /\ e.addr = a /\ e \in Events
    BY <1>3, <1>6, EventFields DEF NewOf, NlEvents
<1>9. /\ AddressesLast(world.arp, x, queue, Held(cache), lost) /\ PortsLast(world.fdb, x, queue)
      /\ EntriesBehind(world.port, world.fdb, b, x, drv, queue, Held(cache))
      /\ AddressesTold(world.port, world.fdb, world.arp, b, x, drv, queue, told, lost)
      /\ AssociationsLast(world.port, drv, queue, clients)
    BY DEF ReachInv
<1>10. t[1] = i /\ t[2] = m /\ t[3] = a
    BY <1>4
<1> HIDE DEF x, b
<1>11. \A B : HasAny(x, B) => HasAny(u, B)
    BY <1>6, <1>7, AnyJoined
<1>12. AddressesLast(A2, u, queue, Held(cache), lost)
  <2>1. ASSUME NEW f \in A2, f[3] \in V4 \ LinkLocal
        PROVE  (f \in world.arp /\ e \notin V4Events(f[2])) \/ e = NewOf(f[1], f[2], f[3])
    <3>1. CASE f = t
        BY <1>3, <1>10, <3>1
    <3>2. CASE f # t
      <4>1. f \in world.arp
          BY <1>6, <3>2
      <4>2. e \notin V4Events(f[2])
          BY <1>6, <1>8, <2>1, <4>1 DEF V4Events
      <4> QED
          BY <4>1, <4>2
    <3> QED
        BY <3>1, <3>2
  <2> QED
      BY <1>6, <1>7, <1>9, <2>1, AddressesLastGrown
<1>13. PortsLast(world.fdb, u, queue)
  <2>1. \A n \in Macs : e \notin PortEvents(n)
      BY <1>8, AddressElsewhere
  <2> QED
      BY <1>6, <1>7, <1>9, <2>1, PortsLastGrown
<1>14. EntriesBehind(world.port, world.fdb, b, u, drv, queue, Held(cache))
    BY <1>9, <1>11, BehindGrown
<1>15. AddressesTold(world.port, world.fdb, A2, b, u, drv, queue, told, lost)
  <2>1. ASSUME NEW n \in Macs, Calm(u, drv, queue, Telling(n)), NEW r \in Ports, NEW c \in V4 \ LinkLocal,
               <<IF b THEN Bridge ELSE r, n, c>> \in A2
        PROVE  <<IF b THEN Bridge ELSE r, n, c>> \in world.arp
    <3>1. CASE <<IF b THEN Bridge ELSE r, n, c>> = t
      <4>1. n = m /\ c = a
          BY <1>4, <3>1
      <4>2. e \in Telling(n)
          BY <1>8, <2>1, <4>1 DEF Telling, V4Events
      <4>3. HasAny(u, Telling(n))
          BY <1>6, <1>7, <4>2, AnyJoined
      <4> QED
          BY <2>1, <4>3 DEF Calm
    <3>2. CASE <<IF b THEN Bridge ELSE r, n, c>> # t
        BY <1>6, <2>1, <3>2
    <3> QED
        BY <3>1, <3>2
  <2> QED
      BY <1>9, <1>11, <2>1, ToldGrown
<1> QED
    BY <1>2, <1>5, <1>6, <1>9, <1>12, <1>13, <1>14, <1>15 DEF ReachInv, b

LEMMA ExpireReachInv ==
    ASSUME NeighborTypeOK, ReachTypeOK, ReachInv, NEW e \in world.arp, Expire(e)
    PROVE  ReachInv'
<1> DEFINE b == world.bridged
           x == AsEvents(nl)
<1>1. PICK d : d = EndOf(e[1], e[2], e[3])
    OBVIOUS
<1>2. PICK u : u = AsEvents(nl')
    OBVIOUS
<1>3. PICK A2 : A2 = world'.arp
    OBVIOUS
<1>4. /\ world'.bridged = b /\ A2 = world.arp \ {e}
      /\ world'.port = world.port /\ world'.fdb = world.fdb
      /\ UNCHANGED <<queue, cache, told, clients, lost, drv>>
      /\ u = Append(x, d) /\ d \in NlEvents(b)
      /\ d.mac = e[2] /\ d.addr = e[3] /\ e[3] \in Addrs
    BY <1>1, <1>2, <1>3, ExpireReach
<1>5. x \in Seq(NlEvents(b))
    BY ReachFacts
<1>6. /\ AddressesLast(world.arp, x, queue, Held(cache), lost) /\ PortsLast(world.fdb, x, queue)
      /\ EntriesBehind(world.port, world.fdb, b, x, drv, queue, Held(cache))
      /\ AddressesTold(world.port, world.fdb, world.arp, b, x, drv, queue, told, lost)
      /\ AssociationsLast(world.port, drv, queue, clients)
    BY DEF ReachInv
<1> HIDE DEF x, b
<1>7. \A B : HasAny(x, B) => HasAny(u, B)
    BY <1>4, <1>5, AnyJoined
<1>8. AddressesLast(A2, u, queue, Held(cache), lost)
  <2>1. ASSUME NEW f \in A2, f[3] \in V4 \ LinkLocal
        PROVE  f \in world.arp /\ d \notin V4Events(f[2])
      BY <1>4, <2>1, ReachFacts DEF V4Events, PlacesOK
  <2> QED
      BY <1>4, <1>5, <1>6, <2>1, AddressesLastGrown
<1>9. PortsLast(world.fdb, u, queue)
  <2>1. \A n \in Macs : d \notin PortEvents(n)
      BY <1>4, AddressElsewhere
  <2> QED
      BY <1>4, <1>5, <1>6, <2>1, PortsLastGrown
<1>10. EntriesBehind(world.port, world.fdb, b, u, drv, queue, Held(cache))
    BY <1>6, <1>7, BehindGrown
<1>11. AddressesTold(world.port, world.fdb, A2, b, u, drv, queue, told, lost)
    BY <1>4, <1>6, <1>7, ToldGrown
<1> QED
    BY <1>2, <1>3, <1>4, <1>6, <1>8, <1>9, <1>10, <1>11 DEF ReachInv, b

(* What is last stays last when it is handed to the command queue *)

LEMMA Passed ==
    ASSUME NEW S, NEW x \in Seq(S), NEW y, NEW q \in Seq(S), x # << >>,
           NEW u, u = Tail(x), NEW w, w = Append(q, Head(x))
    PROVE  /\ \A B, C : /\ Chain(x, q, B, C) => Chain(u, w, B, C)
                        /\ Head(x) \notin B /\ Chain(y, q, B, C) => Chain(y, w, B, C)
                        /\ Head(x) \notin B /\ FollowedBy(q, B, C) => FollowedBy(w, B, C)
           /\ \A C : /\ Pending(x, q, C) => Pending(u, w, C)
                     /\ Pending(y, q, C) => Pending(y, w, C)
                     /\ HasAny(q, C) => HasAny(w, C)
                     /\ Calm(u, y, w, C) => Calm(x, y, q, C)
                     /\ Calm(y, u, w, C) => Calm(y, x, q, C)
<1>1. Head(x) \in S
    BY Left
<1>2. ASSUME NEW B, NEW C
      PROVE  /\ Chain(x, q, B, C) => Chain(u, w, B, C)
             /\ Head(x) \notin B /\ Chain(y, q, B, C) => Chain(y, w, B, C)
             /\ Head(x) \notin B /\ FollowedBy(q, B, C) => FollowedBy(w, B, C)
    BY <1>1, ChainHanded, ChainOther, FollowedByJoined
<1>3. ASSUME NEW C
      PROVE  /\ Pending(x, q, C) => Pending(u, w, C)
             /\ Pending(y, q, C) => Pending(y, w, C)
             /\ HasAny(q, C) => HasAny(w, C)
             /\ Calm(u, y, w, C) => Calm(x, y, q, C)
             /\ Calm(y, u, w, C) => Calm(y, x, q, C)
  <2>1. HasAny(w, C) <=> HasAny(q, C) \/ Head(x) \in C
      BY <1>1, AnyJoined
  <2>2. HasAny(x, C) <=> Head(x) \in C \/ HasAny(u, C)
      BY AnyLeft
  <2> QED
      BY <2>1, <2>2 DEF Pending, Calm
<1> QED
    BY <1>2, <1>3

LEMMA PassReachInv ==
    ASSUME NeighborTypeOK, ReachTypeOK, ReachInv, ipa_nl_recv_msg \/ ipa_driver_msg_notifier
    PROVE  ReachInv'
<1> DEFINE b == world.bridged
           S == QueueEvents(b)
<1>1. PICK x : x = AsEvents(nl)
    OBVIOUS
<1>2. PICK u : u = AsEvents(nl')
    OBVIOUS
<1>3. PICK w : w = queue'
    OBVIOUS
<1>4. /\ UNCHANGED <<world, cache, told, clients, lost>>
      /\ \/ x # << >> /\ u = Tail(x) /\ drv' = drv /\ w = Append(queue, Head(x))
         \/ drv # << >> /\ drv' = Tail(drv) /\ u = x /\ w = Append(queue, Head(drv))
    BY <1>1, <1>2, <1>3, PassReach
<1>5. /\ x \in Seq(NlEvents(b)) /\ drv \in Seq(DrvEvents) /\ queue \in Seq(S) /\ b \in BOOLEAN
      /\ world.arp \subseteq Devs \X Macs \X Addrs
    BY <1>1, ReachFacts
<1>6. x \in Seq(S) /\ drv \in Seq(S)
    BY <1>5 DEF QueueEvents
<1>7. /\ AddressesLast(world.arp, x, queue, Held(cache), lost) /\ PortsLast(world.fdb, x, queue)
      /\ EntriesBehind(world.port, world.fdb, b, x, drv, queue, Held(cache))
      /\ AddressesTold(world.port, world.fdb, world.arp, b, x, drv, queue, told, lost)
      /\ AssociationsLast(world.port, drv, queue, clients)
    BY <1>1 DEF ReachInv
<1>8. \A e \in world.arp : e[2] \in Macs
    BY <1>5
<1> HIDE DEF b, S
<1>9. PICK v : v = drv'
    OBVIOUS
<1>10. ASSUME NEW m \in Macs, NEW p
       PROVE  /\ \A e \in NlEvents(b) : e \notin AssociationEvents(p, m) /\ e \notin {DelOf(p, m)}
              /\ \A e \in DrvEvents : e \notin V4Events(m) /\ e \notin PortEvents(m)
    BY <1>5, PostersApart
<1>11. ASSUME NEW p, NEW m, NEW a
       PROVE  /\ \A e \in NlEvents(b) : e \notin Contrary(p, m, a)
              /\ \A e \in DrvEvents : e \notin Contrary(p, m, a)
    BY DEF Contrary, AddrEvents, NlEvents, DrvEvents, Associations
<1>12. /\ \A m \in Macs : \A C : /\ Chain(x, queue, V4Events(m), C) => Chain(u, w, V4Events(m), C)
                                 /\ Chain(x, queue, PortEvents(m), C) => Chain(u, w, PortEvents(m), C)
       /\ \A m \in Macs : \A p, C :
             /\ Chain(drv, queue, AssociationEvents(p, m), C) => Chain(v, w, AssociationEvents(p, m), C)
             /\ Chain(drv, queue, {DelOf(p, m)}, C) => Chain(v, w, {DelOf(p, m)}, C)
       /\ \A p, m, a, C : FollowedBy(queue, Contrary(p, m, a), C) => FollowedBy(w, Contrary(p, m, a), C)
       /\ \A C : /\ Pending(x, queue, C) => Pending(u, w, C)
                 /\ Pending(drv, queue, C) => Pending(v, w, C)
                 /\ HasAny(queue, C) => HasAny(w, C)
                 /\ Calm(u, v, w, C) => Calm(x, drv, queue, C)
  <2>1. CASE x # << >> /\ u = Tail(x) /\ drv' = drv /\ w = Append(queue, Head(x))
    <3>1. PICK h : h = Head(x)
        OBVIOUS
    <3>2. h \in NlEvents(b)
        BY <1>5, <2>1, <3>1, Left
    <3>3. /\ \A B, C : /\ Chain(x, queue, B, C) => Chain(u, w, B, C)
                       /\ h \notin B /\ Chain(drv, queue, B, C) => Chain(v, w, B, C)
                       /\ h \notin B /\ FollowedBy(queue, B, C) => FollowedBy(w, B, C)
          /\ \A C : /\ Pending(x, queue, C) => Pending(u, w, C)
                    /\ Pending(drv, queue, C) => Pending(v, w, C)
                    /\ HasAny(queue, C) => HasAny(w, C)
                    /\ Calm(u, v, w, C) => Calm(x, drv, queue, C)
        BY <1>5, <1>6, <1>9, <2>1, <3>1, Passed
    <3>4. ASSUME NEW m \in Macs, NEW p
          PROVE  h \notin AssociationEvents(p, m) /\ h \notin {DelOf(p, m)}
        BY <1>10, <3>2
    <3>5. \A p, m, a : h \notin Contrary(p, m, a)
        BY <1>11, <3>2
    <3> QED
        BY <3>3, <3>4, <3>5
  <2>2. CASE drv # << >> /\ drv' = Tail(drv) /\ u = x /\ w = Append(queue, Head(drv))
    <3>1. PICK h : h = Head(drv)
        OBVIOUS
    <3>2. h \in DrvEvents
        BY <1>5, <2>2, <3>1, Left
    <3>3. /\ \A B, C : /\ Chain(drv, queue, B, C) => Chain(v, w, B, C)
                       /\ h \notin B /\ Chain(x, queue, B, C) => Chain(u, w, B, C)
                       /\ h \notin B /\ FollowedBy(queue, B, C) => FollowedBy(w, B, C)
          /\ \A C : /\ Pending(x, queue, C) => Pending(u, w, C)
                    /\ Pending(drv, queue, C) => Pending(v, w, C)
                    /\ HasAny(queue, C) => HasAny(w, C)
                    /\ Calm(u, v, w, C) => Calm(x, drv, queue, C)
        BY <1>5, <1>6, <1>9, <2>2, <3>1, Passed
    <3>4. ASSUME NEW m \in Macs
          PROVE  h \notin V4Events(m) /\ h \notin PortEvents(m)
        BY <1>10, <3>2
    <3>5. \A p, m, a : h \notin Contrary(p, m, a)
        BY <1>11, <3>2
    <3> QED
        BY <3>3, <3>4, <3>5
  <2> QED
      BY <1>4, <2>1, <2>2
<1>13. AddressesLast(world.arp, u, w, Held(cache), lost)
    BY <1>7, <1>8, <1>12 DEF AddressesLast, AddressLast
<1>14. AssociationsLast(world.port, v, w, clients)
    BY <1>7, <1>12 DEF AssociationsLast, AssociationLast
<1>15. PortsLast(world.fdb, u, w)
    BY <1>7, <1>12 DEF PortsLast
<1>16. EntriesBehind(world.port, world.fdb, b, u, v, w, Held(cache))
    BY <1>7, <1>12 DEF EntriesBehind
<1>17. AddressesTold(world.port, world.fdb, world.arp, b, u, v, w, told, lost)
    BY <1>7, <1>12 DEF AddressesTold, ToldLast
<1> QED
    BY <1>2, <1>3, <1>4, <1>9, <1>13, <1>14, <1>15, <1>16, <1>17 DEF ReachInv, b

(* What an event does to the entries of the cache *)

LEMMA HeldFacts ==
    ASSUME NEW c, CacheOK(c)
    PROVE  /\ Held(c) \subseteq Entries
           /\ \A f, g \in Held(c) : f.mac = g.mac => f = g
    BY DEF Held, CacheOK, Slots

LEMMA HeldKnown ==
    ASSUME NEW c, CacheOK(c), NEW m
    PROVE  /\ Known(c, m) => /\ c.neighbor_client[Slot(c, m)] \in Held(c)
                             /\ c.neighbor_client[Slot(c, m)].mac = m
           /\ ~Known(c, m) => \A f \in Held(c) : f.mac # m
    BY SlotFacts, Unknown DEF Held

LEMMA HeldWritten ==
    ASSUME NEW c, CacheOK(c), NEW i \in Slots(c), NEW e \in Entries, NEW u, u = [c EXCEPT !.neighbor_client[i] = e]
    PROVE  Held(u) = (Held(c) \ {c.neighbor_client[i]}) \cup {e}
<1> DEFINE s == c.neighbor_client
           t == [s EXCEPT ![i] = e]
<1>1. s \in Seq(Entries) /\ Slots(c) = 1..Len(s) /\ \A j, k \in Slots(c) : s[j].mac = s[k].mac => j = k
    BY DEF CacheOK, Slots
<1>2. u.neighbor_client = t
    BY DEF CacheOK
<1>3. Held(c) = {s[j] : j \in Slots(c)}
    BY DEF Held
<1> HIDE DEF s
<1>4. Len(t) = Len(s) /\ t[i] = e /\ \A j \in 1..Len(s) : j # i => t[j] = s[j]
    BY <1>1
<1> HIDE DEF t
<1>5. Held(u) = {t[j] : j \in 1..Len(s)}
    BY <1>2, <1>4 DEF Held, Slots
<1>6. \A j \in 1..Len(s) : j # i => s[j] # s[i]
    BY <1>1
<1>7. \A g : g \in Held(u) <=> g = e \/ (g \in Held(c) /\ g # s[i])
    BY <1>1, <1>3, <1>4, <1>5, <1>6
<1> QED
    BY <1>7 DEF s

LEMMA HeldAdded ==
    ASSUME NEW c, CacheOK(c), NEW e \in Entries, NEW u, u = [c EXCEPT !.neighbor_client = Append(@, e)]
    PROVE  Held(u) = Held(c) \cup {e}
<1> DEFINE s == c.neighbor_client
           t == Append(s, e)
<1>1. s \in Seq(Entries) /\ Slots(c) = 1..Len(s)
    BY DEF CacheOK, Slots
<1>2. u.neighbor_client = t
    BY DEF CacheOK
<1>3. Held(c) = {s[j] : j \in Slots(c)}
    BY DEF Held
<1> HIDE DEF s
<1>4. Len(t) = Len(s) + 1 /\ t[Len(s) + 1] = e /\ (\A j \in 1..Len(s) : t[j] = s[j]) /\ Len(s) \in Nat
    BY <1>1, Joined
<1> HIDE DEF t
<1>5. Held(u) = {t[j] : j \in 1..(Len(s) + 1)}
    BY <1>2, <1>4 DEF Held, Slots
<1>6. \A j \in 1..(Len(s) + 1) : j = Len(s) + 1 \/ j \in 1..Len(s)
    BY <1>4
<1>7. Len(s) + 1 \in 1..(Len(s) + 1) /\ \A j \in 1..Len(s) : j \in 1..(Len(s) + 1)
    BY <1>4
<1>8. \A g : g \in Held(u) <=> g = e \/ g \in Held(c)
    BY <1>1, <1>3, <1>4, <1>5, <1>6, <1>7
<1> QED
    BY <1>8

\* The entries of other clients stay, or are dropped.
Others(H, H2, drops, m) ==
    /\ \A f \in H2 : f.mac # m => f \in H
    /\ \A f \in H : f.mac # m => f \in H2 \/ f.mac \in drops

LEMMA OwnWritten ==
    ASSUME NEW c, CacheOK(c), NEW m, Known(c, m), NEW e \in Entries, e.mac = m,
           NEW f, f = c.neighbor_client[Slot(c, m)],
           NEW u, u = [c EXCEPT !.neighbor_client[Slot(c, m)] = e]
    PROVE  /\ f \in Held(c) /\ f \in Entries /\ f.mac = m /\ e \in Held(u)
           /\ \A g \in Held(c) : g.mac = m => g = f
           /\ \A g \in Held(u) : g.mac = m => g = e
           /\ \A D : Others(Held(c), Held(u), D, m)
<1>1. Slot(c, m) \in Slots(c) /\ f \in Held(c) /\ f.mac = m
    BY SlotFacts, HeldKnown
<1>2. Held(u) = (Held(c) \ {f}) \cup {e}
    BY <1>1, HeldWritten
<1> QED
    BY <1>1, <1>2, HeldFacts DEF Others

LEMMA InsertEffect ==
    ASSUME NEW c, CacheOK(c), NEW m \in Macs, ~Known(c, m), NEW i \in Devs,
           NEW a \in (V4 \ LinkLocal) \cup {NONE}, NEW r, r = Insert(c, m, i, a)
    PROVE  /\ Others(Held(c), Held(r.cache), r.drops, m)
           /\ \A g \in Held(r.cache) : g.mac = m => g.iface = i /\ g.v4 \in {a, NONE}
           /\ Kept(Held(r.cache), r.drops, m, a)
           /\ DOMAIN r = {"cache", "posts", "drops"}
<1>1. \A f \in Held(c) : f.mac # m
    BY HeldKnown
<1>2. ASSUME NEW v \in (V4 \ LinkLocal) \cup {NONE}
      PROVE  Entry(m, i, v) \in Entries /\ Entry(m, i, v).mac = m /\ Entry(m, i, v).iface = i /\ Entry(m, i, v).v4 = v
    BY EntryMade DEF Entry
<1>3. CASE ~Full(c)
  <2>1. PICK e : e = Entry(m, i, a)
      OBVIOUS
  <2>2. PICK u : u = [c EXCEPT !.neighbor_client = Append(@, e)]
      OBVIOUS
  <2>3. r = Result(u, << >>, {})
      BY <1>3, <2>1, <2>2 DEF Insert
  <2>4. r.cache = u /\ r.drops = {} /\ DOMAIN r = {"cache", "posts", "drops"}
      BY <2>3 DEF Result
  <2>5. e \in Entries /\ e.mac = m /\ e.iface = i /\ e.v4 = a
      BY <1>2, <2>1
  <2>6. Held(u) = Held(c) \cup {e}
      BY <2>2, <2>5, HeldAdded
  <2> QED
      BY <1>1, <2>4, <2>5, <2>6 DEF Others, Kept
<1>4. CASE Full(c)
  <2>1. PICK e : e = Entry(m, i, NONE)
      OBVIOUS
  <2>2. PICK n : n = c.circular_index
      OBVIOUS
  <2>3. PICK u : u = [c EXCEPT !.neighbor_client[n] = e]
      OBVIOUS
  <2>4. n \in Slots(c)
      BY <1>4, <2>2 DEF CacheOK, Slots, Full
  <2>5. e \in Entries /\ e.mac = m /\ e.iface = i /\ e.v4 = NONE
      BY <1>2, <2>1
  <2>6. PICK g : g = c.neighbor_client[n]
      OBVIOUS
  <2>7. g \in Held(c) /\ Held(u) = (Held(c) \ {g}) \cup {e}
    <3>1. g \in Held(c)
        BY <2>4, <2>6 DEF Held
    <3>2. Held(u) = (Held(c) \ {g}) \cup {e}
        BY <2>3, <2>4, <2>5, <2>6, HeldWritten
    <3> QED
        BY <3>1, <3>2
  <2>8. /\ r.cache = [c EXCEPT !.neighbor_client[n] = e,
                              !.circular_index = (@ % IPA_MAX_NUM_NEIGHBOR_CLIENTS) + 1]
        /\ r.drops = {m, g.mac} /\ DOMAIN r = {"cache", "posts", "drops"}
      BY <1>4, <2>1, <2>2, <2>6 DEF Insert, Result
  <2>9. r.cache.neighbor_client = u.neighbor_client
      BY <2>3, <2>8 DEF CacheOK
  <2>10. Held(r.cache) = Held(u)
      BY <2>9 DEF Held, Slots
  <2>11. \A f \in Held(r.cache) : f.mac = m => f = e
      BY <1>1, <2>7, <2>10
  <2>12. Others(Held(c), Held(r.cache), r.drops, m)
      BY <2>5, <2>7, <2>8, <2>10 DEF Others
  <2> QED
      BY <2>5, <2>8, <2>11, <2>12 DEF Kept
<1> QED
    BY <1>3, <1>4


\* An address the cache does not keep.
LEMMA SilentEffect ==
    ASSUME NEW c, CacheOK(c), NEW d \in Events, d.event \in {"NEW_NEIGH", "DEL_NEIGH"},
           d.addr \in Addrs, d.addr \notin V4 \ LinkLocal, NEW r, r = event_callback(c, d)
    PROVE  /\ r.cache = c /\ r.drops = {}
           /\ r.posts = << >> \/ \E e \in AddrEvents : r.posts = <<e>> /\ e.mac = d.mac /\ e.addr \notin V4
<1>1. d.mac \in Macs /\ d.iface \in Devs
    BY DEF Events, EventTuples
<1>2. CASE d.addr \in LinkLocal
  <2>1. r = Result(c, << >>, {})
      BY <1>2 DEF event_callback
  <2> QED
      BY <2>1 DEF Result
<1>3. CASE d.addr \notin LinkLocal
  <2>1. d.addr \in V6 /\ d.addr \notin V4 /\ d.addr \in Addrs \ LinkLocal
      BY <1>3 DEF Addrs
  <2>2. r = NeighV6(c, d)
      BY <1>3, <2>1 DEF event_callback
  <2>3. ASSUME NEW i \in Devs, r = Result(c, <<Announce(d, i, d.addr)>>, {})
        PROVE  r.cache = c /\ r.drops = {} /\ \E e \in AddrEvents : r.posts = <<e>> /\ e.mac = d.mac /\ e.addr \notin V4
    <3>1. PICK e : e = Announce(d, i, d.addr)
        OBVIOUS
    <3>2. e \in AddrEvents /\ e.mac = d.mac /\ e.addr = d.addr
        BY <2>1, <3>1, Announced
    <3> QED
        BY <2>1, <2>3, <3>1, <3>2 DEF Result
  <2>4. CASE d.name # Bridge
      BY <1>1, <2>2, <2>3, <2>4 DEF NeighV6
  <2>5. CASE d.name = Bridge /\ ~Known(c, d.mac)
    <3>1. r = Result(c, << >>, {})
        BY <2>2, <2>5 DEF NeighV6
    <3> QED
        BY <3>1 DEF Result
  <2>6. CASE d.name = Bridge /\ Known(c, d.mac)
    <3>1. PICK i : i = c.neighbor_client[Slot(c, d.mac)].iface
        OBVIOUS
    <3>2. i \in Devs
        BY <2>6, <3>1, SlotFacts DEF Entries
    <3>3. r = Result(c, <<Announce(d, i, d.addr)>>, {})
        BY <2>2, <2>6, <3>1 DEF NeighV6
    <3> QED
        BY <2>3, <3>2, <3>3
  <2> QED
      BY <2>4, <2>5, <2>6
<1> QED
    BY <1>2, <1>3

\* The end of an IPv4 address, or of the client itself: the cache forgets the client.
LEMMA EndEffect ==
    ASSUME NEW c, CacheOK(c), NEW d \in Events, d.event = "DEL_NEIGH",
           d.addr \in (V4 \ LinkLocal) \cup {ZERO}, NEW r, r = event_callback(c, d)
    PROVE  /\ Others(Held(c), Held(r.cache), r.drops, d.mac)
           /\ \A f \in Held(r.cache) : f.mac # d.mac
           /\ d.mac \in r.drops \/ \A f \in Held(c) : f.mac # d.mac
           /\ r.posts = << >> \/ \E e \in AddrEvents : r.posts = <<e>> /\ e.mac = d.mac /\ e.event = "ADDR_DEL"
<1>1. d.mac \in Macs /\ d.iface \in Devs /\ d.name # Bridge
    BY NeighborAssumption DEF Events, EventTuples, EventOK
<1>2. ASSUME NEW a \in Addrs \ LinkLocal
      PROVE  \E e \in AddrEvents : /\ <<Announce(d, d.iface, a)>> = <<e>>
                                   /\ e.mac = d.mac /\ e.event = "ADDR_DEL"
  <2>1. PICK e : e = Announce(d, d.iface, a)
      OBVIOUS
  <2>2. e \in AddrEvents /\ e.mac = d.mac /\ e.event = "ADDR_DEL"
      BY <1>1, <2>1, Announced
  <2> QED
      BY <2>1, <2>2
<1>3. CASE d.addr \in V4 \ LinkLocal
  <2>1. r = NeighV4(c, d) /\ d.addr \in Addrs \ LinkLocal
      BY <1>1, <1>3 DEF event_callback, Addrs
  <2>2. PICK u : u = IF Known(c, d.mac) THEN Erase(c, d.mac) ELSE c
      OBVIOUS
  <2>3. PICK p : p = <<Announce(d, d.iface, d.addr)>>
      OBVIOUS
  <2>4. r = [Result(u, << >>, {d.mac}) EXCEPT !.posts = p]
      BY <2>1, <2>2, <2>3 DEF NeighV4
  <2>5. r.cache = u /\ r.drops = {d.mac} /\ r.posts = p
      BY <2>4 DEF Result
  <2>6. Held(u) = {f \in Held(c) : f.mac # d.mac}
      BY <2>2, SlotErased, HeldKnown
  <2> QED
      BY <1>2, <2>1, <2>3, <2>5, <2>6 DEF Others
<1>4. CASE d.addr = ZERO
  <2>1. r = NeighNoAddr(c, d)
      BY <1>4, NeighborAssumption DEF event_callback
  <2>2. CASE Known(c, d.mac)
    <3>1. PICK old : old = c.neighbor_client[Slot(c, d.mac)]
        OBVIOUS
    <3>2. PICK seen : seen = [c EXCEPT !.neighbor_client[Slot(c, d.mac)].iface = d.iface]
        OBVIOUS
    <3>3. PICK p : p = IF old.v4 # NONE THEN <<Announce(d, d.iface, old.v4)>> ELSE << >>
        OBVIOUS
    <3>4. r = Result(Erase(seen, d.mac), p, {d.mac})
        BY <1>1, <2>1, <2>2, <3>1, <3>2, <3>3 DEF NeighNoAddr
    <3>5. /\ CacheOK(seen) /\ Slots(seen) = Slots(c)
          /\ \A j \in Slots(c) : seen.neighbor_client[j].mac = c.neighbor_client[j].mac
        BY <1>1, <2>2, <3>2, IfaceWritten
    <3>6. Known(seen, d.mac)
        BY <2>2, <3>5 DEF Known, SlotsOf
    <3>7. Held(Erase(seen, d.mac)) = {f \in Held(seen) : f.mac # d.mac}
        BY <3>5, <3>6, SlotErased
    <3>8. PICK e : e = [old EXCEPT !.iface = d.iface]
        OBVIOUS
    <3>9. old \in Entries /\ old.mac = d.mac
        BY <2>2, <3>1, SlotFacts
    <3>10. e \in Entries /\ e.mac = d.mac
        BY <1>1, <3>8, <3>9 DEF Entries
    <3>11. seen = [c EXCEPT !.neighbor_client[Slot(c, d.mac)] = e]
        BY <3>1, <3>2, <3>8, Zenon
    <3>12. \A D : Others(Held(c), Held(seen), D, d.mac)
        BY <2>2, <3>10, <3>11, OwnWritten
    <3>13. r.posts = p /\ r.drops = {d.mac} /\ r.cache = Erase(seen, d.mac)
        BY <3>4 DEF Result
    <3>14. p = << >> \/ \E k \in AddrEvents : p = <<k>> /\ k.mac = d.mac /\ k.event = "ADDR_DEL"
      <4>1. CASE old.v4 # NONE
        <5>1. old.v4 \in Addrs \ LinkLocal
            BY <3>9, <4>1 DEF Entries, Addrs
        <5> QED
            BY <1>2, <3>3, <4>1, <5>1
      <4> QED
          BY <3>3, <4>1
    <3> QED
        BY <3>7, <3>12, <3>13, <3>14 DEF Others
  <2>3. CASE ~Known(c, d.mac)
    <3>1. r = Result(c, << >>, {})
        BY <1>1, <2>1, <2>3 DEF NeighNoAddr
    <3>2. r.cache = c /\ r.drops = {} /\ r.posts = << >>
        BY <3>1 DEF Result
    <3> QED
        BY <2>3, <3>2, HeldKnown DEF Others
  <2> QED
      BY <2>2, <2>3
<1> QED
    BY <1>3, <1>4

\* An association: the client is behind another port, with the address it had.
LEMMA AddExEffect ==
    ASSUME NEW c, CacheOK(c), NEW d \in Events, d.event = "CLIENT_ADD_EX", NEW r, r = event_callback(c, d)
    PROVE  /\ r.drops = {} /\ Others(Held(c), Held(r.cache), {}, d.mac)
           /\ \A f \in Held(c) : f.mac = d.mac => \E g \in Held(r.cache) : g.mac = d.mac /\ g.v4 = f.v4
           /\ \A g \in Held(r.cache) : g.mac = d.mac => \E f \in Held(c) : f.mac = d.mac /\ f.v4 = g.v4
           /\ \/ r.posts = << >>
              \/ \E e \in AddrEvents, f \in Held(c) :
                    r.posts = <<e>> /\ e.mac = d.mac /\ f.mac = d.mac /\ f.v4 # NONE
<1>1. d.mac \in Macs /\ d.iface \in Devs /\ r = ClientAddEx(c, d)
    BY DEF Events, EventTuples, event_callback
<1>2. CASE ~Known(c, d.mac)
  <2>1. r = Result(c, << >>, {})
      BY <1>1, <1>2 DEF ClientAddEx
  <2>2. r.cache = c /\ r.drops = {} /\ r.posts = << >>
      BY <2>1 DEF Result
  <2> QED
      BY <2>2 DEF Others
<1>3. CASE Known(c, d.mac)
  <2>1. PICK old : old = c.neighbor_client[Slot(c, d.mac)]
      OBVIOUS
  <2>2. PICK moved : moved = [c EXCEPT !.neighbor_client[Slot(c, d.mac)].iface = d.iface]
      OBVIOUS
  <2>3. PICK e : e = [old EXCEPT !.iface = d.iface]
      OBVIOUS
  <2>4. PICK p : p = ADDR_ADD(d.iface, d.mac, old.v4)
      OBVIOUS
  <2>5. r = IF old.ipa_if_num # d.iface \/ old.v4 = NONE THEN Result(moved, << >>, {})
            ELSE Result(moved, <<p>>, {})
      BY <1>1, <1>3, <2>1, <2>2, <2>4 DEF ClientAddEx
  <2>6. old \in Entries
      BY <1>3, <2>1, SlotFacts
  <2>7. moved = [c EXCEPT !.neighbor_client[Slot(c, d.mac)] = e]
      BY <2>1, <2>2, <2>3, Zenon
  <2>8. old.mac = d.mac /\ e \in Entries /\ e.mac = old.mac /\ e.v4 = old.v4
      BY <1>1, <1>3, <2>1, <2>3, <2>6, SlotFacts DEF Entries
  <2>9. /\ old \in Held(c) /\ old.mac = d.mac /\ e \in Held(moved)
        /\ \A g \in Held(c) : g.mac = d.mac => g = old
        /\ \A g \in Held(moved) : g.mac = d.mac => g = e
        /\ \A D : Others(Held(c), Held(moved), D, d.mac)
      BY <1>3, <2>1, <2>7, <2>8, OwnWritten
  <2>10. r.cache = moved /\ r.drops = {}
      BY <2>5 DEF Result
  <2>11. r.posts = << >> \/ (r.posts = <<p>> /\ old.v4 # NONE)
      BY <2>5 DEF Result
  <2>12. old.v4 # NONE => p \in AddrEvents /\ p.mac = d.mac
    <3>1. old.v4 # NONE => old.v4 \in Addrs \ LinkLocal
        BY <2>6 DEF Entries, Addrs
    <3> QED
        BY <1>1, <2>4, <3>1, AddrEventMade, EventFields DEF ADDR_ADD
  <2>13. \A f \in Held(c) : f.mac = d.mac => \E g \in Held(r.cache) : g.mac = d.mac /\ g.v4 = f.v4
      BY <2>8, <2>9, <2>10
  <2>14. \A g \in Held(r.cache) : g.mac = d.mac => \E f \in Held(c) : f.mac = d.mac /\ f.v4 = g.v4
      BY <2>8, <2>9, <2>10
  <2>15. \/ r.posts = << >>
         \/ \E k \in AddrEvents, f \in Held(c) :
               r.posts = <<k>> /\ k.mac = d.mac /\ f.mac = d.mac /\ f.v4 # NONE
      BY <2>9, <2>11, <2>12
  <2> QED
      BY <2>9, <2>10, <2>13, <2>14, <2>15
<1> QED
    BY <1>2, <1>3

\* A port the client is at: the address it had is announced there.
LEMMA BareEffect ==
    ASSUME NEW c, CacheOK(c), NEW d \in Events, d.event = "NEW_NEIGH", d.addr = ZERO, d.name # Bridge,
           NEW r, r = event_callback(c, d)
    PROVE  /\ Others(Held(c), Held(r.cache), r.drops, d.mac)
           /\ \A g \in Held(r.cache) : g.mac = d.mac => g.iface = d.iface
           /\ \A f \in Held(c) : f.mac = d.mac =>
                 /\ \E g \in Held(r.cache) : g.mac = d.mac /\ g.v4 = f.v4
                 /\ \A g \in Held(r.cache) : g.mac = d.mac => g.v4 = f.v4
                 /\ r.posts = IF f.v4 = NONE THEN << >> ELSE <<ADDR_ADD(d.iface, d.mac, f.v4)>>
           /\ (\A f \in Held(c) : f.mac # d.mac) =>
                 r.posts = << >> /\ \A g \in Held(r.cache) : g.mac = d.mac => g.v4 = NONE
<1>1. d.mac \in Macs /\ d.iface \in Devs
    BY DEF Events, EventTuples
<1>2. r = NeighNoAddr(c, d)
    BY NeighborAssumption DEF event_callback
<1>3. CASE Known(c, d.mac)
  <2>1. PICK old : old = c.neighbor_client[Slot(c, d.mac)]
      OBVIOUS
  <2>2. PICK moved : moved = [c EXCEPT !.neighbor_client[Slot(c, d.mac)].iface = d.iface]
      OBVIOUS
  <2>3. PICK e : e = [old EXCEPT !.iface = d.iface]
      OBVIOUS
  <2>4. PICK p : p = IF old.v4 = NONE THEN << >> ELSE <<ADDR_ADD(d.iface, d.mac, old.v4)>>
      OBVIOUS
  <2>5. r = Result(moved, p, {})
      BY <1>2, <1>3, <2>1, <2>2, <2>4 DEF NeighNoAddr, Announce
  <2>6. old \in Entries
      BY <1>3, <2>1, SlotFacts
  <2>7. moved = [c EXCEPT !.neighbor_client[Slot(c, d.mac)] = e]
      BY <2>1, <2>2, <2>3, Zenon
  <2>8. e \in Entries /\ e.mac = d.mac /\ e.v4 = old.v4 /\ e.iface = d.iface
      BY <1>1, <1>3, <2>1, <2>3, <2>6, SlotFacts DEF Entries
  <2>9. /\ old \in Held(c) /\ old.mac = d.mac /\ e \in Held(moved)
        /\ \A g \in Held(c) : g.mac = d.mac => g = old
        /\ \A g \in Held(moved) : g.mac = d.mac => g = e
        /\ \A D : Others(Held(c), Held(moved), D, d.mac)
      BY <1>3, <2>1, <2>7, <2>8, OwnWritten
  <2>10. r.cache = moved /\ r.posts = p
      BY <2>5 DEF Result
  <2>11. /\ \A g \in Held(r.cache) : g.mac = d.mac => g.iface = d.iface
         /\ \A f \in Held(c) : f.mac = d.mac =>
               /\ \E g \in Held(r.cache) : g.mac = d.mac /\ g.v4 = f.v4
               /\ \A g \in Held(r.cache) : g.mac = d.mac => g.v4 = f.v4
      BY <2>8, <2>9, <2>10
  <2>12. \A f \in Held(c) : f.mac = d.mac =>
            r.posts = IF f.v4 = NONE THEN << >> ELSE <<ADDR_ADD(d.iface, d.mac, f.v4)>>
      BY <2>4, <2>9, <2>10
  <2> QED
      BY <2>9, <2>10, <2>11, <2>12
<1>4. CASE ~Known(c, d.mac)
  <2>1. r = Insert(c, d.mac, d.iface, NONE)
      BY <1>2, <1>4 DEF NeighNoAddr
  <2>2. r.posts = << >>
      BY <1>1, <1>4, <2>1, InsertHandled
  <2>3. /\ Others(Held(c), Held(r.cache), r.drops, d.mac)
        /\ \A g \in Held(r.cache) : g.mac = d.mac => g.iface = d.iface /\ g.v4 \in {NONE, NONE}
      BY <1>1, <1>4, <2>1, InsertEffect
  <2> QED
      BY <1>4, <2>2, <2>3, HeldKnown
<1> QED
    BY <1>3, <1>4

\* An IPv4 address of the client: it is kept, and announced where the client is.
LEMMA AddressEffect ==
    ASSUME NEW c, CacheOK(c), NEW d \in Events, d.event = "NEW_NEIGH", d.addr \in V4 \ LinkLocal,
           NEW r, r = event_callback(c, d)
    PROVE  /\ Others(Held(c), Held(r.cache), r.drops, d.mac)
           /\ Kept(Held(r.cache), r.drops, d.mac, d.addr)
           /\ d.name # Bridge => r.posts = <<ADDR_ADD(d.iface, d.mac, d.addr)>>
           /\ d.name = Bridge =>
                 /\ \A g \in Held(r.cache) : g.mac = d.mac => \E f \in Held(c) : f.mac = d.mac /\ f.iface = g.iface
                 /\ \/ d.mac \in r.drops /\ r.posts = << >>
                    \/ \E f \in Held(c) : f.mac = d.mac /\ r.posts = <<ADDR_ADD(f.iface, d.mac, d.addr)>>
<1>1. d.mac \in Macs /\ d.iface \in Devs /\ d.addr \in (V4 \ LinkLocal) \cup {NONE}
    BY DEF Events, EventTuples
<1>2. r = IF d.name = Bridge THEN NeighV4OnBridge(c, d) ELSE NeighV4(c, d)
    BY DEF event_callback
<1>3. CASE d.name = Bridge /\ ~Known(c, d.mac)
  <2>1. r = Result(c, << >>, {d.mac})
      BY <1>2, <1>3 DEF NeighV4OnBridge
  <2>2. r.cache = c /\ r.posts = << >> /\ r.drops = {d.mac}
      BY <2>1 DEF Result
  <2> QED
      BY <1>3, <2>2, HeldKnown DEF Others, Kept
<1>4. CASE d.name = Bridge /\ Known(c, d.mac)
  <2>1. PICK old : old = c.neighbor_client[Slot(c, d.mac)]
      OBVIOUS
  <2>2. PICK u : u = [c EXCEPT !.neighbor_client[Slot(c, d.mac)].v4 = d.addr]
      OBVIOUS
  <2>3. PICK e : e = [old EXCEPT !.v4 = d.addr]
      OBVIOUS
  <2>4. PICK p : p = <<ADDR_ADD(old.iface, d.mac, d.addr)>>
      OBVIOUS
  <2>5. r = Result(u, p, {})
      BY <1>2, <1>4, <2>1, <2>2, <2>4 DEF NeighV4OnBridge, Announce
  <2>6. old \in Entries
      BY <1>4, <2>1, SlotFacts
  <2>7. u = [c EXCEPT !.neighbor_client[Slot(c, d.mac)] = e]
      BY <2>1, <2>2, <2>3, Zenon
  <2>8. e \in Entries /\ e.mac = d.mac /\ e.v4 = d.addr /\ e.iface = old.iface
      BY <1>1, <1>4, <2>1, <2>3, <2>6, SlotFacts DEF Entries
  <2>9. /\ old \in Held(c) /\ old.mac = d.mac /\ e \in Held(u)
        /\ \A g \in Held(u) : g.mac = d.mac => g = e
        /\ \A D : Others(Held(c), Held(u), D, d.mac)
      BY <1>4, <2>1, <2>7, <2>8, OwnWritten
  <2>10. r.cache = u /\ r.posts = p
      BY <2>5 DEF Result
  <2>11. Kept(Held(r.cache), r.drops, d.mac, d.addr)
      BY <2>8, <2>9, <2>10 DEF Kept
  <2>12. /\ \A g \in Held(r.cache) : g.mac = d.mac => \E f \in Held(c) : f.mac = d.mac /\ f.iface = g.iface
         /\ \E f \in Held(c) : f.mac = d.mac /\ r.posts = <<ADDR_ADD(f.iface, d.mac, d.addr)>>
      BY <2>4, <2>8, <2>9, <2>10
  <2> QED
      BY <1>4, <2>9, <2>10, <2>11, <2>12
<1>5. CASE d.name # Bridge
  <2>1. PICK e : e = Entry(d.mac, d.iface, d.addr)
      OBVIOUS
  <2>2. PICK u : u = [c EXCEPT !.neighbor_client[Slot(c, d.mac)] = e]
      OBVIOUS
  <2>3. PICK k : k = IF Known(c, d.mac) THEN Result(u, << >>, {}) ELSE Insert(c, d.mac, d.iface, d.addr)
      OBVIOUS
  <2>4. PICK p : p = <<ADDR_ADD(d.iface, d.mac, d.addr)>>
      OBVIOUS
  <2>5. r = [k EXCEPT !.posts = p]
      BY <1>2, <1>5, <2>1, <2>2, <2>3, <2>4 DEF NeighV4, Announce
  <2>6. /\ DOMAIN k = {"cache", "posts", "drops"}
        /\ Others(Held(c), Held(k.cache), k.drops, d.mac) /\ Kept(Held(k.cache), k.drops, d.mac, d.addr)
    <3>1. CASE Known(c, d.mac)
      <4>1. e \in Entries /\ e.mac = d.mac /\ e.v4 = d.addr
          BY <1>1, <2>1, EntryMade DEF Entry
      <4>2. k.cache = u /\ DOMAIN k = {"cache", "posts", "drops"}
          BY <2>3, <3>1 DEF Result
      <4>3. e \in Held(u) /\ \A D : Others(Held(c), Held(u), D, d.mac)
          BY <2>2, <3>1, <4>1, OwnWritten
      <4> QED
          BY <4>1, <4>2, <4>3 DEF Kept
    <3>2. CASE ~Known(c, d.mac)
      <4>1. k = Insert(c, d.mac, d.iface, d.addr)
          BY <2>3, <3>2
      <4> QED
          BY <1>1, <3>2, <4>1, InsertEffect
    <3> QED
        BY <3>1, <3>2
  <2>7. r.cache = k.cache /\ r.drops = k.drops /\ r.posts = p
      BY <2>5, <2>6
  <2> QED
      BY <1>5, <2>4, <2>6, <2>7
<1> QED
    BY <1>3, <1>4, <1>5

(* What the command thread takes from the queue *)

LEMMA StepTaken ==
    ASSUME NEW S, AddrEvents \subseteq S, NEW q \in Seq(S), q # << >>, NEW h, h = Head(q),
           NEW w, w = Tail(q) \/ \E e \in AddrEvents : w = Append(Tail(q), e)
    PROVE  /\ \A x, B, C : B \cap AddrEvents = {} /\ Chain(x, q, B, C) =>
                 Chain(x, w, B, C) /\ (h \in B \ C => Pending(x, w, C))
           /\ \A x, C : Pending(x, q, C) => h \in C \/ Pending(x, w, C)
           /\ \A x, y, C : Calm(x, y, w, C) /\ h \notin C => Calm(x, y, q, C)
<1>1. PICK t : t = Tail(q)
    OBVIOUS
<1>2. t \in Seq(S)
    BY <1>1, Left
<1>3. w = t \/ \E e \in AddrEvents : w = Append(t, e)
    BY <1>1
<1>4. \A C : HasAny(t, C) => HasAny(w, C)
    BY <1>2, <1>3, AnyJoined
<1>5. \A C : HasAny(q, C) <=> h \in C \/ HasAny(t, C)
    BY <1>1, AnyLeft
<1>6. ASSUME NEW x, NEW B, NEW C, B \cap AddrEvents = {}, Chain(x, q, B, C)
      PROVE  Chain(x, w, B, C) /\ (h \in B \ C => Pending(x, w, C))
  <2>1. Chain(x, t, B, C) /\ (h \in B \ C => Pending(x, t, C))
      BY <1>1, <1>6, ChainTaken
  <2>2. Chain(x, w, B, C)
      BY <1>2, <1>3, <1>6, <2>1, ChainOther
  <2> QED
      BY <1>4, <2>1, <2>2 DEF Pending
<1> QED
    BY <1>4, <1>5, <1>6 DEF Pending, Calm

LEMMA ProcessReach ==
    ASSUME NeighborTypeOK, ReachTypeOK, ProcessEvt, NEW d, d = Head(queue)
    PROVE  /\ queue # << >> /\ d \in QueueEvents(world.bridged) /\ d \in Events
           /\ UNCHANGED <<world, nl, drv>>
           /\ queue' = Tail(queue) \/ \E e \in AddrEvents : queue' = Append(Tail(queue), e)
           /\ ReachTypeOK'
<1>1. /\ queue # << >> /\ UNCHANGED <<world, nl, drv>>
      /\ \/ NeighborEvent(d)
         \/ (AddrAdd(d) \/ AddrDel(d) \/ ClientDel(d)) /\ queue' = Tail(queue) /\ UNCHANGED cache
    BY ProcessCases
<1>2. queue' = Tail(queue) \/ \E e \in AddrEvents : queue' = Append(Tail(queue), e)
    BY <1>1, NeighborSteps
<1>3. PICK t : t = Tail(queue)
    OBVIOUS
<1>4. d \in QueueEvents(world.bridged) /\ t \in Seq(QueueEvents(world.bridged))
    BY <1>1, <1>3, ReachFacts, Left
<1>5. AddrEvents \subseteq QueueEvents(world.bridged)
    BY DEF QueueEvents
<1>6. queue' \in Seq(QueueEvents(world.bridged))
    BY <1>2, <1>3, <1>4, <1>5, Joined
<1>7. d \in Events
    BY <1>1, Taken
<1>8. AsEvents(nl') = AsEvents(nl)
    BY <1>1 DEF AsEvents
<1> QED
    BY <1>1, <1>2, <1>4, <1>6, <1>7, <1>8, ReachFacts DEF ReachTypeOK

\* What a neighbour event changes besides the cache.
LEMMA NeighborLost ==
    ASSUME NeighborTypeOK, ReachTypeOK, ProcessEvt, NEW d, d = Head(queue), NeighborEvent(d),
           NEW r, r = event_callback(cache, d)
    PROVE  /\ d \in NlEvents(world.bridged) \cup DrvEvents
           /\ d.event \in {"CLIENT_ADD_EX", "NEW_NEIGH", "DEL_NEIGH"}
           /\ cache' = r.cache /\ told' = told /\ clients \subseteq clients'
           /\ d.event = "CLIENT_ADD_EX" => <<d.iface, d.mac>> \in clients'
           /\ r.drops \subseteq lost'
           /\ \A e : r.posts = <<e>> /\ e \in AddrEvents => queue' = Append(Tail(queue), e)
           /\ r.posts = << >> => queue' = Tail(queue) /\ lost \subseteq lost'
           /\ \A e : r.posts = <<e>> /\ ~(e.event = "ADDR_ADD" /\ e.addr \in V4) => lost \subseteq lost'
           /\ \A e, m : r.posts = <<e>> /\ e.mac # m => (m \in lost => m \in lost')
<1>1. /\ d.event \in {"CLIENT_ADD_EX", "NEW_NEIGH", "DEL_NEIGH"}
      /\ cache' = r.cache /\ told' = told
      /\ queue' = Tail(queue) \o r.posts
      /\ lost' = (lost \ {p.mac : p \in {q \in Range(r.posts) : q.event = "ADDR_ADD" /\ q.addr \in V4}}) \cup r.drops
      /\ clients' = IF d.event = "CLIENT_ADD_EX" THEN clients \cup {<<d.iface, d.mac>>} ELSE clients
    BY DEF NeighborEvent
<1>2. d \in NlEvents(world.bridged) \cup DrvEvents
    BY <1>1, ProcessReach DEF QueueEvents, AddrEvents
<1>3. PICK t : t = Tail(queue)
    OBVIOUS
<1>4. t \in Seq(QueueEvents(world.bridged)) /\ AddrEvents \subseteq QueueEvents(world.bridged)
    BY <1>3, ProcessReach, ReachFacts, Left DEF QueueEvents
<1>5. t \o << >> = t /\ \A e \in AddrEvents : t \o <<e>> = Append(t, e)
    BY <1>4
<1>6. Range(<< >>) = {}
    BY DEF Range
<1>7. ASSUME NEW e
      PROVE  Range(<<e>>) = {e}
    BY DEF Range
<1>8. r.posts = << >> => queue' = Tail(queue) /\ lost \subseteq lost'
    BY <1>1, <1>3, <1>5, <1>6
<1>9. ASSUME NEW e, r.posts = <<e>>
      PROVE  /\ e \in AddrEvents => queue' = Append(Tail(queue), e)
             /\ ~(e.event = "ADDR_ADD" /\ e.addr \in V4) => lost \subseteq lost'
             /\ \A m : e.mac # m /\ m \in lost => m \in lost'
  <2>1. queue' = t \o <<e>>
      BY <1>1, <1>3, <1>9
  <2>2. \A z \in {p.mac : p \in {q \in Range(r.posts) : q.event = "ADDR_ADD" /\ q.addr \in V4}} :
           z = e.mac /\ e.event = "ADDR_ADD" /\ e.addr \in V4
      BY <1>7, <1>9
  <2> QED
      BY <1>1, <1>3, <1>5, <2>1, <2>2
<1> QED
    BY <1>1, <1>2, <1>8, <1>9

LEMMA EventKinds ==
    ASSUME NEW b \in BOOLEAN, NEW d \in NlEvents(b) \cup DrvEvents, d.event \in {"CLIENT_ADD_EX", "NEW_NEIGH", "DEL_NEIGH"}
    PROVE  /\ d \in Events /\ d.mac \in Macs /\ d.iface \in Devs
           /\ \/ d.event = "CLIENT_ADD_EX"
              \/ d.event \in {"NEW_NEIGH", "DEL_NEIGH"} /\ d.addr \in Addrs /\ d.addr \notin V4 \ LinkLocal
              \/ d.event = "DEL_NEIGH" /\ d.addr \in (V4 \ LinkLocal) \cup {ZERO}
              \/ d.event = "NEW_NEIGH" /\ d.addr = ZERO /\ d.name # Bridge
              \/ d.event = "NEW_NEIGH" /\ d.addr \in V4 \ LinkLocal
<1>1. d \in Events
    BY DEF NlEvents, DrvEvents, Associations
<1>2. d.mac \in Macs /\ d.iface \in Devs /\ d.addr \in Addrs \cup {ZERO}
    BY <1>1 DEF Events, EventTuples
<1>3. d.event = "NEW_NEIGH" /\ d.addr = ZERO => d.name # Bridge
    BY NeighborAssumption DEF NlEvents, DrvEvents, Associations, Addrs
<1> QED
    BY <1>1, <1>2, <1>3 DEF Addrs

\* An event of one client leaves the others what they have, or loses their addresses.
LEMMA EventOthers ==
    ASSUME NeighborTypeOK, ReachTypeOK, ProcessEvt, NEW d, d = Head(queue), NeighborEvent(d)
    PROVE  /\ Others(Held(cache), Held(cache'), lost', d.mac)
           /\ \A m : m # d.mac /\ m \in lost => m \in lost'
           /\ \/ queue' = Tail(queue)
              \/ \E e \in AddrEvents : queue' = Append(Tail(queue), e) /\ e.mac = d.mac
<1>1. PICK r : r = event_callback(cache, d)
    OBVIOUS
<1>2. PICK c : c = cache
    OBVIOUS
<1>3. /\ d \in NlEvents(world.bridged) \cup DrvEvents
      /\ d.event \in {"CLIENT_ADD_EX", "NEW_NEIGH", "DEL_NEIGH"}
      /\ cache' = r.cache /\ r.drops \subseteq lost'
      /\ r.posts = << >> => queue' = Tail(queue) /\ lost \subseteq lost'
      /\ \A e : r.posts = <<e>> /\ e \in AddrEvents => queue' = Append(Tail(queue), e)
      /\ \A e, m : r.posts = <<e>> /\ e.mac # m => (m \in lost => m \in lost')
    BY <1>1, NeighborLost
<1>4. CacheOK(c) /\ world.bridged \in BOOLEAN
    BY <1>2, ReachFacts
<1>5. d \in Events
    BY <1>3, <1>4, EventKinds
<1>6. /\ Others(Held(c), Held(r.cache), r.drops, d.mac)
      /\ r.posts = << >> \/ \E e : r.posts = <<e>> /\ e.mac = d.mac
  <2>1. CASE d.event = "CLIENT_ADD_EX"
    <3>1. /\ r.drops = {} /\ Others(Held(c), Held(r.cache), {}, d.mac)
          /\ \/ r.posts = << >>
             \/ \E e \in AddrEvents, f \in Held(c) :
                   r.posts = <<e>> /\ e.mac = d.mac /\ f.mac = d.mac /\ f.v4 # NONE
        BY <1>1, <1>2, <1>4, <1>5, <2>1, AddExEffect
    <3> QED
        BY <3>1
  <2>2. CASE d.event \in {"NEW_NEIGH", "DEL_NEIGH"} /\ d.addr \in Addrs /\ d.addr \notin V4 \ LinkLocal
    <3>1. /\ r.cache = c /\ r.drops = {}
          /\ r.posts = << >> \/ \E e \in AddrEvents : r.posts = <<e>> /\ e.mac = d.mac /\ e.addr \notin V4
        BY <1>1, <1>2, <1>4, <1>5, <2>2, SilentEffect
    <3> QED
        BY <3>1 DEF Others
  <2>3. CASE d.event = "DEL_NEIGH" /\ d.addr \in (V4 \ LinkLocal) \cup {ZERO}
    <3>1. /\ Others(Held(c), Held(r.cache), r.drops, d.mac)
          /\ r.posts = << >> \/ \E e \in AddrEvents : r.posts = <<e>> /\ e.mac = d.mac /\ e.event = "ADDR_DEL"
        BY <1>1, <1>2, <1>4, <1>5, <2>3, EndEffect
    <3> QED
        BY <3>1
  <2>4. CASE d.event = "NEW_NEIGH" /\ d.addr = ZERO /\ d.name # Bridge
    <3>1. /\ Others(Held(c), Held(r.cache), r.drops, d.mac)
          /\ r.posts = << >> \/ \E a : r.posts = <<ADDR_ADD(d.iface, d.mac, a)>>
      <4>1. PICK H : H = Held(c)
          OBVIOUS
      <4>2. /\ Others(Held(c), Held(r.cache), r.drops, d.mac)
            /\ \A f \in H : f.mac = d.mac =>
                  r.posts = IF f.v4 = NONE THEN << >> ELSE <<ADDR_ADD(d.iface, d.mac, f.v4)>>
            /\ (\A f \in H : f.mac # d.mac) => r.posts = << >>
          BY <1>1, <1>2, <1>4, <1>5, <2>4, <4>1, BareEffect
      <4>3. CASE \A f \in H : f.mac # d.mac
          BY <4>2, <4>3
      <4>4. CASE ~\A f \in H : f.mac # d.mac
        <5>1. PICK f \in H : f.mac = d.mac
            BY <4>4
        <5> QED
            BY <4>2, <5>1
      <4> QED
          BY <4>3, <4>4
    <3> QED
        BY <3>1, EventFields DEF ADDR_ADD
  <2>5. CASE d.event = "NEW_NEIGH" /\ d.addr \in V4 \ LinkLocal
    <3>1. /\ Others(Held(c), Held(r.cache), r.drops, d.mac)
          /\ r.posts = << >> \/ \E i, a : r.posts = <<ADDR_ADD(i, d.mac, a)>>
        BY <1>1, <1>2, <1>4, <1>5, <2>5, AddressEffect
    <3> QED
        BY <3>1, EventFields DEF ADDR_ADD
  <2> QED
      BY <1>3, <1>4, <2>1, <2>2, <2>3, <2>4, <2>5, EventKinds
<1>7. Others(Held(cache), Held(cache'), lost', d.mac)
    BY <1>2, <1>3, <1>6 DEF Others
<1>8. ASSUME NEW m, m # d.mac, m \in lost
      PROVE  m \in lost'
    BY <1>3, <1>6, <1>8
<1>9. r.posts = << >> \/ \E e \in AddrEvents : r.posts = <<e>>
    BY <1>1, <1>2, <1>3, <1>4, <1>5, EventHandled DEF Handles
<1>10. \/ queue' = Tail(queue)
       \/ \E e \in AddrEvents : queue' = Append(Tail(queue), e) /\ e.mac = d.mac
  <2>1. r.posts # << >> => \E e \in AddrEvents : r.posts = <<e>> /\ e.mac = d.mac
      BY <1>6, <1>9
  <2> QED
      BY <1>3, <2>1
<1> QED
    BY <1>7, <1>8, <1>10

LEMMA KeptElsewhere ==
    ASSUME NEW c, CacheOK(c), NEW H2, NEW l, NEW l2, NEW n, NEW m, m # n, NEW a,
           Others(Held(c), H2, l2, n), m \in l => m \in l2, Kept(Held(c), l, m, a)
    PROVE  Kept(H2, l2, m, a)
<1>1. \A f, g \in Held(c) : f.mac = g.mac => f = g
    BY HeldFacts
<1> QED
    BY <1>1 DEF Kept, Others

\* An address that is kept, or lost, stays so until something is said of it.
LEMMA KeptHandled ==
    ASSUME NeighborTypeOK, ReachTypeOK, ProcessEvt, NEW d, d = Head(queue), NeighborEvent(d),
           NEW m \in Macs, NEW a \in V4 \ LinkLocal, Kept(Held(cache), lost, m, a), d \notin V4Events(m)
    PROVE  Kept(Held(cache'), lost', m, a)
<1>1. PICK r : r = event_callback(cache, d)
    OBVIOUS
<1>2. PICK c : c = cache
    OBVIOUS
<1>3. /\ d \in NlEvents(world.bridged) \cup DrvEvents
      /\ d.event \in {"CLIENT_ADD_EX", "NEW_NEIGH", "DEL_NEIGH"}
      /\ cache' = r.cache /\ r.drops \subseteq lost'
      /\ r.posts = << >> => lost \subseteq lost'
      /\ \A e : r.posts = <<e>> /\ ~(e.event = "ADDR_ADD" /\ e.addr \in V4) => lost \subseteq lost'
    BY <1>1, NeighborLost
<1>4. CacheOK(c) /\ world.bridged \in BOOLEAN
    BY <1>2, ReachFacts
<1>5. d \in Events
    BY <1>3, <1>4, EventKinds
<1>6. PICK H : H = Held(c)
    OBVIOUS
<1>7. (\E f \in H : f.mac = m /\ f.v4 = a) \/ (m \in lost /\ \A f \in H : f.mac = m => f.v4 = NONE)
    BY <1>2, <1>6 DEF Kept
<1>8. (\A f \in H : f \in Entries) /\ \A f, g \in H : f.mac = g.mac => f = g
    BY <1>4, <1>6, HeldFacts
<1>9. a # NONE
    BY NeighborAssumption
<1>10. CASE m # d.mac
  <2>1. Others(Held(c), Held(cache'), lost', d.mac) /\ (m \in lost => m \in lost')
      BY <1>2, <1>10, EventOthers
  <2> QED
      BY <1>2, <1>4, <1>10, <2>1, KeptElsewhere
<1>11. CASE m = d.mac
  <2>1. CASE d.event = "CLIENT_ADD_EX"
    <3>1. /\ \A f \in H : f.mac = m => \E g \in Held(r.cache) : g.mac = m /\ g.v4 = f.v4
          /\ \A g \in Held(r.cache) : g.mac = m => \E f \in H : f.mac = m /\ f.v4 = g.v4
          /\ r.posts = << >> \/ \E f \in H : f.mac = m /\ f.v4 # NONE
        BY <1>1, <1>2, <1>4, <1>5, <1>6, <1>11, <2>1, AddExEffect
    <3> QED
        BY <1>3, <1>7, <3>1 DEF Kept
  <2>2. CASE d.event \in {"NEW_NEIGH", "DEL_NEIGH"} /\ d.addr \in Addrs /\ d.addr \notin V4 \ LinkLocal
    <3>1. /\ r.cache = c
          /\ r.posts = << >> \/ \E e \in AddrEvents : r.posts = <<e>> /\ e.mac = d.mac /\ e.addr \notin V4
        BY <1>1, <1>2, <1>4, <1>5, <2>2, SilentEffect
    <3>2. lost \subseteq lost'
        BY <1>3, <3>1
    <3> QED
        BY <1>2, <1>3, <3>1, <3>2 DEF Kept
  <2>3. CASE d.event = "DEL_NEIGH" /\ d.addr \in (V4 \ LinkLocal) \cup {ZERO}
    <3>1. /\ \A f \in Held(r.cache) : f.mac # m
          /\ m \in r.drops \/ \A f \in H : f.mac # m
          /\ r.posts = << >> \/ \E e \in AddrEvents : r.posts = <<e>> /\ e.mac = d.mac /\ e.event = "ADDR_DEL"
        BY <1>1, <1>2, <1>4, <1>5, <1>6, <1>11, <2>3, EndEffect
    <3>2. lost \subseteq lost'
        BY <1>3, <3>1
    <3> QED
        BY <1>3, <1>7, <3>1, <3>2 DEF Kept
  <2>4. CASE d.event = "NEW_NEIGH" /\ d.addr = ZERO /\ d.name # Bridge
    <3>1. /\ \A f \in H : f.mac = m =>
                /\ \E g \in Held(r.cache) : g.mac = m /\ g.v4 = f.v4
                /\ \A g \in Held(r.cache) : g.mac = m => g.v4 = f.v4
                /\ r.posts = IF f.v4 = NONE THEN << >> ELSE <<ADDR_ADD(d.iface, d.mac, f.v4)>>
          /\ (\A f \in H : f.mac # m) =>
                r.posts = << >> /\ \A g \in Held(r.cache) : g.mac = m => g.v4 = NONE
        BY <1>1, <1>2, <1>4, <1>5, <1>6, <1>11, <2>4, BareEffect
    <3>2. CASE \E f \in H : f.mac = m /\ f.v4 = a
        BY <1>3, <3>1, <3>2 DEF Kept
    <3>3. CASE m \in lost /\ \A f \in H : f.mac = m => f.v4 = NONE
      <4>1. r.posts = << >> /\ \A g \in Held(r.cache) : g.mac = m => g.v4 = NONE
        <5>1. CASE \A f \in H : f.mac # m
            BY <3>1, <5>1
        <5>2. CASE \E f \in H : f.mac = m
            BY <3>1, <3>3, <5>2
        <5> QED
            BY <5>1, <5>2
      <4> QED
          BY <1>3, <3>3, <4>1 DEF Kept
    <3> QED
        BY <1>7, <3>2, <3>3
  <2>5. CASE d.event = "NEW_NEIGH" /\ d.addr \in V4 \ LinkLocal
      BY <1>5, <1>11, <2>5 DEF V4Events
  <2> QED
      BY <1>3, <1>4, <2>1, <2>2, <2>3, <2>4, <2>5, EventKinds
<1> QED
    BY <1>10, <1>11

\* The address the kernel knows the client by, when it is reported.
LEMMA KeptNew ==
    ASSUME NeighborTypeOK, ReachTypeOK, ProcessEvt, NEW d, d = Head(queue), NeighborEvent(d),
           NEW i, NEW m \in Macs, NEW a \in V4 \ LinkLocal, d = NewOf(i, m, a)
    PROVE  Kept(Held(cache'), lost', m, a)
<1>1. PICK r : r = event_callback(cache, d)
    OBVIOUS
<1>2. cache' = r.cache /\ r.drops \subseteq lost' /\ d \in Events /\ CacheOK(cache)
    BY <1>1, NeighborLost, ProcessReach, ReachFacts
<1>3. d.event = "NEW_NEIGH" /\ d.mac = m /\ d.addr = a
    BY EventFields DEF NewOf
<1>4. Kept(Held(r.cache), r.drops, m, a)
    BY <1>1, <1>2, <1>3, AddressEffect
<1> QED
    BY <1>2, <1>4 DEF Kept

(* The last word stays the last when an event is handled *)

LEMMA ProcessOthers ==
    ASSUME ProcessEvt, NEW d, d = Head(queue), ~NeighborEvent(d)
    PROVE  /\ AddrAdd(d) \/ AddrDel(d) \/ ClientDel(d)
           /\ queue' = Tail(queue) /\ UNCHANGED <<cache, lost>>
    BY DEF ProcessEvt

LEMMA ProcessAddressesLast ==
    ASSUME NeighborTypeOK, ReachTypeOK, ProcessEvt, AddressesLast(world.arp, AsEvents(nl), queue, Held(cache), lost)
    PROVE  AddressesLast(world.arp, AsEvents(nl), queue', Held(cache'), lost')
<1>1. PICK d : d = Head(queue)
    OBVIOUS
<1>2. PICK x : x = AsEvents(nl)
    OBVIOUS
<1>3. PICK w : w = queue'
    OBVIOUS
<1>4. PICK S : S = QueueEvents(world.bridged)
    OBVIOUS
<1>5. /\ queue \in Seq(S) /\ queue # << >> /\ AddrEvents \subseteq S
      /\ w = Tail(queue) \/ \E e \in AddrEvents : w = Append(Tail(queue), e)
      /\ world.arp \subseteq Devs \X Macs \X Addrs
    BY <1>1, <1>3, <1>4, ProcessReach, ReachFacts DEF QueueEvents
<1>6. /\ \A B, C : B \cap AddrEvents = {} /\ Chain(x, queue, B, C) =>
                      Chain(x, w, B, C) /\ (d \in B \ C => Pending(x, w, C))
      /\ \A C : Pending(x, queue, C) => d \in C \/ Pending(x, w, C)
    BY <1>1, <1>5, StepTaken
<1> SUFFICES ASSUME NEW f \in world.arp, f[3] \in V4 \ LinkLocal
             PROVE  AddressLast(x, w, Held(cache'), lost', f)
    BY <1>2, <1>3 DEF AddressesLast
<1>7. f[2] \in Macs
    BY <1>5
<1>8. PICK n : n = NewOf(f[1], f[2], f[3])
    OBVIOUS
<1>9. PICK B : B = V4Events(f[2])
    OBVIOUS
<1>10. B \cap AddrEvents = {}
    BY <1>7, <1>9, PostersApart
<1>11. /\ Chain(x, queue, B, {n})
       /\ Pending(x, queue, {n}) \/ Kept(Held(cache), lost, f[2], f[3])
    BY <1>2, <1>8, <1>9 DEF AddressesLast, AddressLast
<1>12. Chain(x, w, B, {n}) /\ (d \in B \ {n} => Pending(x, w, {n}))
    BY <1>6, <1>10, <1>11
<1>13. Pending(x, w, {n}) \/ Kept(Held(cache'), lost', f[2], f[3])
  <2>1. CASE d = n
    <3>1. d.event = "NEW_NEIGH"
        BY <1>8, <2>1, EventFields DEF NewOf
    <3>2. NeighborEvent(d)
        BY <1>1, <3>1, ProcessOthers DEF AddrAdd, AddrDel, ClientDel
    <3> QED
        BY <1>1, <1>7, <1>8, <2>1, <3>2, KeptNew
  <2>2. CASE d # n /\ d \in B
      BY <1>12, <2>2
  <2>3. CASE d # n /\ d \notin B
    <3>1. CASE Pending(x, queue, {n})
        BY <1>6, <2>3, <3>1
    <3>2. CASE Kept(Held(cache), lost, f[2], f[3]) /\ NeighborEvent(d)
        BY <1>1, <1>7, <1>9, <2>3, <3>2, KeptHandled
    <3>3. CASE Kept(Held(cache), lost, f[2], f[3]) /\ ~NeighborEvent(d)
      <4>1. UNCHANGED <<cache, lost>>
          BY <1>1, <3>3, ProcessOthers
      <4> QED
          BY <3>3, <4>1
    <3> QED
        BY <1>11, <3>1, <3>2, <3>3
  <2> QED
      BY <2>1, <2>2, <2>3
<1> QED
    BY <1>8, <1>9, <1>12, <1>13 DEF AddressLast

\* An end of an association is that of the port's association.
LEMMA AssociationEnded ==
    ASSUME NEW d \in Events, d.event = "CLIENT_DEL"
    PROVE  d = DelOf(d.iface, d.mac) /\ d.iface \in WlanPorts
    BY EventWhole DEF EventOK, DelOf

LEMMA ProcessAssociationsLast ==
    ASSUME NeighborTypeOK, ReachTypeOK, ProcessEvt, AssociationsLast(world.port, drv, queue, clients)
    PROVE  AssociationsLast(world.port, drv, queue', clients')
<1>1. PICK d : d = Head(queue)
    OBVIOUS
<1>2. PICK w : w = queue'
    OBVIOUS
<1>3. PICK S : S = QueueEvents(world.bridged)
    OBVIOUS
<1>4. /\ queue \in Seq(S) /\ queue # << >> /\ AddrEvents \subseteq S
      /\ w = Tail(queue) \/ \E e \in AddrEvents : w = Append(Tail(queue), e)
      /\ d \in Events
    BY <1>1, <1>2, <1>3, ProcessReach, ReachFacts DEF QueueEvents
<1>5. /\ \A B, C : B \cap AddrEvents = {} /\ Chain(drv, queue, B, C) =>
                      Chain(drv, w, B, C) /\ (d \in B \ C => Pending(drv, w, C))
      /\ \A C : Pending(drv, queue, C) => d \in C \/ Pending(drv, w, C)
    BY <1>1, <1>4, StepTaken
<1> SUFFICES ASSUME NEW m \in Macs, world.port[m] \in WlanPorts
             PROVE  AssociationLast(drv, w, clients', world.port[m], m)
    BY <1>2 DEF AssociationsLast
<1>6. PICK p : p = world.port[m]
    OBVIOUS
<1>7. AssociationLast(drv, queue, clients, p, m)
    BY <1>6 DEF AssociationsLast
<1>8. AssociationEvents(p, m) \cap AddrEvents = {} /\ {DelOf(p, m)} \cap AddrEvents = {}
    BY PostersApart
<1>9. /\ Chain(drv, w, {DelOf(p, m)}, {AddOf(p, m)}) /\ Chain(drv, w, AssociationEvents(p, m), {HereOf(p, m)})
      /\ d = DelOf(p, m) => Pending(drv, w, {AddOf(p, m)})
    BY <1>5, <1>7, <1>8, AddNotDel DEF AssociationLast
<1>10. AddOf(p, m).event = "CLIENT_ADD_EX" /\ AddOf(p, m).iface = p /\ AddOf(p, m).mac = m
    BY EventFields DEF AddOf
<1>11. <<p, m>> \in clients' \/ Pending(drv, w, {AddOf(p, m)})
  <2>1. CASE NeighborEvent(d)
    <3>1. clients \subseteq clients' /\ (d.event = "CLIENT_ADD_EX" => <<d.iface, d.mac>> \in clients')
        BY <1>1, <2>1, NeighborLost
    <3> QED
        BY <1>5, <1>7, <1>10, <3>1 DEF AssociationLast
  <2>2. CASE ~NeighborEvent(d)
    <3>1. AddrAdd(d) \/ AddrDel(d) \/ ClientDel(d)
        BY <1>1, <2>2, ProcessOthers
    <3>2. d # AddOf(p, m)
        BY <1>10, <3>1 DEF AddrAdd, AddrDel, ClientDel
    <3>3. Pending(drv, queue, {AddOf(p, m)}) => Pending(drv, w, {AddOf(p, m)})
        BY <1>5, <3>2
    <3>4. CASE <<p, m>> \in clients /\ <<p, m>> \notin clients'
      <4>1. d.event = "CLIENT_DEL" /\ <<p, m>> = <<d.iface, d.mac>>
          BY <3>1, <3>4 DEF AddrAdd, AddrDel, ClientDel
      <4>2. d = DelOf(p, m)
          BY <1>4, <4>1, AssociationEnded
      <4> QED
          BY <1>9, <4>2
    <3> QED
        BY <1>7, <3>3, <3>4 DEF AssociationLast
  <2> QED
      BY <2>1, <2>2
<1> QED
    BY <1>6, <1>9, <1>11 DEF AssociationLast

LEMMA ProcessPortsLast ==
    ASSUME NeighborTypeOK, ReachTypeOK, ProcessEvt, PortsLast(world.fdb, AsEvents(nl), queue)
    PROVE  PortsLast(world.fdb, AsEvents(nl), queue')
<1>1. PICK d : d = Head(queue)
    OBVIOUS
<1>2. PICK x : x = AsEvents(nl)
    OBVIOUS
<1>3. PICK w : w = queue'
    OBVIOUS
<1>4. PICK S : S = QueueEvents(world.bridged)
    OBVIOUS
<1>5. /\ queue \in Seq(S) /\ queue # << >> /\ AddrEvents \subseteq S
      /\ w = Tail(queue) \/ \E e \in AddrEvents : w = Append(Tail(queue), e)
    BY <1>1, <1>3, <1>4, ProcessReach, ReachFacts DEF QueueEvents
<1>6. \A B, C : B \cap AddrEvents = {} /\ Chain(x, queue, B, C) => Chain(x, w, B, C)
    BY <1>1, <1>5, StepTaken
<1>7. \A m \in Macs : PortEvents(m) \cap AddrEvents = {}
    BY PostersApart
<1>8. \A m \in Macs : Chain(x, w, PortEvents(m), PortKnown(world.fdb[m], m))
    BY <1>2, <1>6, <1>7 DEF PortsLast
<1> QED
    BY <1>2, <1>3, <1>8 DEF PortsLast

LEMMA Wirelessly ==
    ASSUME NeighborTypeOK, ReachTypeOK, NEW m \in Macs
    PROVE  /\ world.port[m] \in WlanPorts => m \notin Wired
           /\ m \notin Wired => world.port[m] \in WlanPorts \cup {NONE}
           /\ m \in Wired => world.port[m] \in LanPorts \cup {NONE}
           /\ world.bridged => world.port[m] = NONE \/ world.fdb[m] \in {world.port[m], NONE}
<1>1. /\ world.port[m] \in Ports \cup {NONE}
      /\ PlacesOK(world.port, world.fdb, world.arp, world.bridged)
    BY ReachFacts
<1> QED
    BY <1>1, NeighborAssumption DEF PlacesOK, Ports

\* The last report of an association, when no other waits, is that the client is
\* at its port.
LEMMA LastReport ==
    ASSUME NeighborTypeOK, ReachTypeOK, ProcessEvt, AssociationsLast(world.port, drv, queue, clients),
           NEW d, d = Head(queue), NEW m \in Macs, world.port[m] \in WlanPorts,
           NEW x, Calm(x, drv, queue', BareEvents(m)), d \in AssociationEvents(world.port[m], m)
    PROVE  d = HereOf(world.port[m], m)
<1>1. PICK p : p = world.port[m]
    OBVIOUS
<1>2. PICK w : w = queue'
    OBVIOUS
<1>3. PICK S : S = QueueEvents(world.bridged)
    OBVIOUS
<1>4. /\ queue \in Seq(S) /\ queue # << >> /\ AddrEvents \subseteq S
      /\ w = Tail(queue) \/ \E e \in AddrEvents : w = Append(Tail(queue), e)
    BY <1>2, <1>3, ProcessReach, ReachFacts DEF QueueEvents
<1>5. \A B, C : B \cap AddrEvents = {} /\ Chain(drv, queue, B, C) => (d \in B \ C => Pending(drv, w, C))
    BY <1>4, StepTaken
<1>6. Chain(drv, queue, AssociationEvents(p, m), {HereOf(p, m)}) /\ AssociationEvents(p, m) \cap AddrEvents = {}
    BY <1>1, PostersApart DEF AssociationsLast, AssociationLast
<1>7. HereOf(p, m) \in BareEvents(m)
  <2>1. HereOf(p, m) \in DrvEvents /\ HereOf(p, m).mac = m /\ HereOf(p, m).event = "NEW_NEIGH"
      BY <1>1, Wirelessly, DrvEventMade
  <2> HIDE DEF HereOf
  <2> QED
      BY <2>1 DEF DrvEvents, Associations, BareEvents
<1>8. ~Pending(drv, w, {HereOf(p, m)})
    BY <1>2, <1>7 DEF Calm, Pending, HasAny
<1> QED
    BY <1>1, <1>5, <1>6, <1>8

\* The last report of a port, when no other waits, is where the client is.
LEMMA LastPort ==
    ASSUME NeighborTypeOK, ReachTypeOK, ProcessEvt, PortsLast(world.fdb, AsEvents(nl), queue),
           NEW d, d = Head(queue), NEW m \in Macs,
           NEW y, Calm(AsEvents(nl), y, queue', BareEvents(m)), d \in PortEvents(m)
    PROVE  d \in PortKnown(world.fdb[m], m)
<1>1. PICK f : f = world.fdb[m]
    OBVIOUS
<1>2. PICK w : w = queue'
    OBVIOUS
<1>3. PICK x : x = AsEvents(nl)
    OBVIOUS
<1>4. PICK S : S = QueueEvents(world.bridged)
    OBVIOUS
<1>5. /\ queue \in Seq(S) /\ queue # << >> /\ AddrEvents \subseteq S
      /\ w = Tail(queue) \/ \E e \in AddrEvents : w = Append(Tail(queue), e)
      /\ f \in Ports \cup {NONE}
    BY <1>1, <1>2, <1>4, ProcessReach, ReachFacts DEF QueueEvents
<1>6. \A B, C : B \cap AddrEvents = {} /\ Chain(x, queue, B, C) => (d \in B \ C => Pending(x, w, C))
    BY <1>5, StepTaken
<1>7. Chain(x, queue, PortEvents(m), PortKnown(f, m)) /\ PortEvents(m) \cap AddrEvents = {}
    BY <1>1, <1>3, PostersApart DEF PortsLast
<1>8. PortKnown(f, m) \subseteq BareEvents(m)
  <2>1. f # NONE => PortOf(f, m) \in NlEvents(TRUE)
      BY <1>5, NamesApart, NlEventMade DEF PortOf, Devs
  <2>2. PortOf(f, m).event = "NEW_NEIGH" /\ PortOf(f, m).mac = m /\ PortOf(f, m).addr = ZERO
      BY EventFields DEF PortOf, NewOf
  <2> HIDE DEF PortOf
  <2> QED
      BY <2>1, <2>2 DEF PortKnown, PortEvents, BareEvents, NlEvents
<1>9. ~Pending(x, w, PortKnown(f, m))
    BY <1>2, <1>3, <1>8 DEF Calm, Pending, HasAny
<1> QED
    BY <1>1, <1>6, <1>7, <1>9

\* The port that is told last of a client is the one it is behind.
LEMMA LastBare ==
    ASSUME NeighborTypeOK, ReachTypeOK, ProcessEvt, AssociationsLast(world.port, drv, queue, clients),
           PortsLast(world.fdb, AsEvents(nl), queue), NEW d, d = Head(queue), NEW m \in Macs,
           Calm(AsEvents(nl), drv, queue', BareEvents(m)),
           d \in BareEvents(m), d.event = "NEW_NEIGH"
    PROVE  BehindPort(world.port, world.fdb, m, d.iface) /\ (m \in Wired => world.bridged)
<1>1. d \in NlEvents(world.bridged) \cup DrvEvents
    BY ProcessReach DEF QueueEvents, AddrEvents
<1>2. d.mac = m /\ d.addr = ZERO /\ d \in Events
    BY DEF BareEvents
<1>3. CASE d \in DrvEvents
  <2>1. m \notin Wired /\ d.name = NO_NAME
      BY <1>2, <1>3 DEF DrvEvents, Associations
  <2>2. \A p : d \in AssociationEvents(p, m)
      BY <2>1 DEF AssociationEvents, PortEvents
  <2>3. world.port[m] \in WlanPorts => d.iface = world.port[m]
    <3>1. ASSUME world.port[m] \in WlanPorts
          PROVE  d = HereOf(world.port[m], m)
        BY <2>2, <3>1, LastReport
    <3> QED
        BY <3>1, EventFields DEF HereOf
  <2> QED
      BY <2>1, <2>3, Wirelessly DEF BehindPort
<1>4. CASE d \in NlEvents(world.bridged)
  <2>1. world.bridged /\ d.name # NO_NAME
      BY <1>2, <1>4, NamesApart, ReachFacts DEF NlEvents, Ports, Devs
  <2>2. d \in PortEvents(m)
      BY <2>1 DEF PortEvents
  <2>3. d \in PortKnown(world.fdb[m], m)
      BY <2>2, LastPort
  <2>4. world.fdb[m] # NONE /\ d = PortOf(world.fdb[m], m)
      BY <2>3 DEF PortKnown
  <2>5. d.iface = world.fdb[m]
      BY <2>4, EventFields DEF PortOf, NewOf
  <2> QED
      BY <2>1, <2>4, <2>5, Wirelessly DEF BehindPort
<1> QED
    BY <1>1, <1>3, <1>4

\* No association is handled last, without the report that follows it.
LEMMA LastAssociation ==
    ASSUME NeighborTypeOK, ReachTypeOK, ProcessEvt, AssociationsLast(world.port, drv, queue, clients),
           NEW d, d = Head(queue), d.event = "CLIENT_ADD_EX", d.mac \in Macs,
           NEW x, Calm(x, drv, queue', BareEvents(d.mac))
    PROVE  d.mac \notin Wired /\ world.port[d.mac] = NONE
<1>1. d \in DrvEvents /\ d \in Events
    BY ProcessReach DEF QueueEvents, AddrEvents, NlEvents
<1>2. d.mac \notin Wired
    BY <1>1 DEF DrvEvents
<1>3. \A p : d \in AssociationEvents(p, d.mac)
    BY <1>1 DEF AssociationEvents, AddEvents
<1>4. \A p : HereOf(p, d.mac).event = "NEW_NEIGH"
    BY EventFields DEF HereOf
<1>5. world.port[d.mac] \notin WlanPorts
    BY <1>3, <1>4, LastReport
<1> QED
    BY <1>2, <1>5, Wirelessly

LEMMA ProcessBehind ==
    ASSUME NeighborTypeOK, ReachTypeOK, ReachInv, ProcessEvt
    PROVE  EntriesBehind(world.port, world.fdb, world.bridged, AsEvents(nl), drv, queue', Held(cache'))
<1>1. PICK d : d = Head(queue)
    OBVIOUS
<1>2. PICK x : x = AsEvents(nl)
    OBVIOUS
<1>3. PICK w : w = queue'
    OBVIOUS
<1>4. PICK c : c = cache
    OBVIOUS
<1>5. /\ AssociationsLast(world.port, drv, queue, clients) /\ PortsLast(world.fdb, x, queue)
      /\ EntriesBehind(world.port, world.fdb, world.bridged, x, drv, queue, Held(c))
    BY <1>2, <1>4 DEF ReachInv
<1>6. \A C : Calm(x, drv, w, C) /\ d \notin C => Calm(x, drv, queue, C)
  <2>1. PICK S : S = QueueEvents(world.bridged)
      OBVIOUS
  <2>2. /\ queue \in Seq(S) /\ queue # << >> /\ AddrEvents \subseteq S
        /\ w = Tail(queue) \/ \E e \in AddrEvents : w = Append(Tail(queue), e)
      BY <1>3, <2>1, ProcessReach, ReachFacts DEF QueueEvents
  <2> QED
      BY <1>1, <2>2, StepTaken
<1> SUFFICES ASSUME world.bridged, NEW m \in Macs, Calm(x, drv, w, BareEvents(m)),
                    NEW g \in Held(cache'), g.mac = m
             PROVE  BehindPort(world.port, world.fdb, m, g.iface)
    BY <1>2, <1>3 DEF EntriesBehind
<1>7. d \notin BareEvents(m) =>
         \A f \in Held(c) : f.mac = m => BehindPort(world.port, world.fdb, m, f.iface)
    BY <1>5, <1>6 DEF EntriesBehind
<1>8. CASE ~NeighborEvent(d)
  <2>1. cache' = c /\ d \notin BareEvents(m)
      BY <1>1, <1>4, <1>8, ProcessOthers DEF AddrAdd, AddrDel, ClientDel, BareEvents
  <2> QED
      BY <1>7, <2>1
<1>9. CASE NeighborEvent(d) /\ d.mac # m
  <2>1. Others(Held(c), Held(cache'), lost', d.mac)
      BY <1>1, <1>4, <1>9, EventOthers
  <2>2. d \notin BareEvents(m) /\ g \in Held(c)
      BY <1>9, <2>1 DEF Others, BareEvents
  <2> QED
      BY <1>7, <2>2
<1>10. CASE NeighborEvent(d) /\ d.mac = m
  <2>1. PICK r : r = event_callback(c, d)
      OBVIOUS
  <2>2. /\ d \in NlEvents(world.bridged) \cup DrvEvents
        /\ d.event \in {"CLIENT_ADD_EX", "NEW_NEIGH", "DEL_NEIGH"}
        /\ cache' = r.cache
      BY <1>1, <1>4, <1>10, <2>1, NeighborLost
  <2>3. CacheOK(c) /\ world.bridged \in BOOLEAN
      BY <1>4, ReachFacts
  <2>4. d \in Events
      BY <2>2, <2>3, EventKinds
  <2>5. CASE d.event = "CLIENT_ADD_EX"
    <3>1. d.mac \notin Wired /\ world.port[d.mac] = NONE
        BY <1>1, <1>3, <1>5, <1>10, <2>5, LastAssociation
    <3> QED
        BY <1>10, <3>1 DEF BehindPort
  <2>6. CASE d.event \in {"NEW_NEIGH", "DEL_NEIGH"} /\ d.addr \in Addrs /\ d.addr \notin V4 \ LinkLocal
    <3>1. r.cache = c /\ d \notin BareEvents(m)
        BY <2>1, <2>3, <2>4, <2>6, SilentEffect, AddressElsewhere
    <3> QED
        BY <1>7, <2>2, <3>1
  <2>7. CASE d.event = "DEL_NEIGH" /\ d.addr \in (V4 \ LinkLocal) \cup {ZERO}
    <3>1. \A f \in Held(r.cache) : f.mac # d.mac
        BY <2>1, <2>3, <2>4, <2>7, EndEffect
    <3> QED
        BY <1>10, <2>2, <3>1
  <2>8. CASE d.event = "NEW_NEIGH" /\ d.addr = ZERO /\ d.name # Bridge
    <3>1. g.iface = d.iface
        BY <1>10, <2>1, <2>2, <2>3, <2>4, <2>8, BareEffect
    <3>2. d \in BareEvents(m)
        BY <1>10, <2>4, <2>8 DEF BareEvents
    <3> QED
        BY <1>1, <1>2, <1>3, <1>5, <2>8, <3>1, <3>2, LastBare
  <2>9. CASE d.event = "NEW_NEIGH" /\ d.addr \in V4 \ LinkLocal
    <3>1. d.iface = Bridge /\ d.name = Bridge /\ d \notin BareEvents(m)
      <4>1. d.addr \in Addrs
          BY <2>9 DEF Addrs
      <4>2. d \in NlEvents(world.bridged)
          BY <2>2, <4>1, NamesApart DEF DrvEvents
      <4> QED
          BY <2>9, <4>1, <4>2, AddressElsewhere DEF NlEvents
    <3>2. \E f \in Held(c) : f.mac = m /\ f.iface = g.iface
        BY <1>10, <2>1, <2>2, <2>3, <2>4, <2>9, <3>1, AddressEffect
    <3> QED
        BY <1>7, <3>1, <3>2
  <2> QED
      BY <2>2, <2>3, <2>5, <2>6, <2>7, <2>8, <2>9, EventKinds
<1> QED
    BY <1>8, <1>9, <1>10

(* The address is announced where the client is *)

LEMMA BehindPlaced ==
    ASSUME NEW P, NEW F, NEW b, NEW m, NEW i, NEW p \in Ports,
           BehindPort(P, F, m, i), Placed(P, F, b, p, m), m \in Wired => b
    PROVE  i = p
    BY NamesApart DEF BehindPort, Placed

LEMMA ToldPosted ==
    ASSUME NEW S, AddrEvents \subseteq S, NEW t \in Seq(S), NEW T,
           NEW p \in Ports, NEW m \in Macs, NEW a \in V4 \ LinkLocal, NEW e, e = ADDR_ADD(p, m, a)
    PROVE  e \in AddrEvents /\ ToldLast(Append(t, e), T, p, m, a)
<1>1. e \in AddrEvents
    BY AddrEventMade DEF ADDR_ADD, Devs, Addrs
<1>2. HasAny(Append(t, e), {e})
    BY <1>1, AnyJoined
<1>3. FollowedBy(Append(t, e), Contrary(p, m, a), {e})
    BY <1>1, FollowedByJoined
<1> QED
    BY <1>1, <1>2, <1>3 DEF ToldLast

LEMMA ToldKept ==
    ASSUME NEW S, NEW q \in Seq(S), q # << >>, NEW h, h = Head(q), h \notin AddrEvents,
           NEW p \in Ports, NEW m \in Macs, NEW a \in V4 \ LinkLocal, NEW T, ToldLast(q, T, p, m, a),
           NEW w, w = Tail(q) \/ \E e \in S : w = Append(Tail(q), e) /\ (e.mac # m \/ e.addr \notin V4)
    PROVE  ToldLast(w, T, p, m, a)
<1>1. PICK t : t = Tail(q)
    OBVIOUS
<1>2. PICK n : n = ADDR_ADD(p, m, a)
    OBVIOUS
<1>3. t \in Seq(S) /\ n \in AddrEvents
    BY <1>1, <1>2, Left, AddrEventMade DEF ADDR_ADD, Devs, Addrs
<1>4. /\ FollowedBy(q, Contrary(p, m, a), {n}) /\ (<<p, m, a>> \in T \/ HasAny(q, {n}))
    BY <1>2 DEF ToldLast
<1>5. FollowedBy(t, Contrary(p, m, a), {n}) /\ (HasAny(q, {n}) => HasAny(t, {n}))
    BY <1>1, <1>3, <1>4, FollowedByLeft, AnyLeft
<1>6. CASE w = t
    BY <1>2, <1>4, <1>5, <1>6 DEF ToldLast
<1>7. CASE w # t
  <2>1. PICK e \in S : w = Append(t, e) /\ (e.mac # m \/ e.addr \notin V4)
      BY <1>1, <1>7
  <2>2. e \notin Contrary(p, m, a)
      BY <2>1 DEF Contrary
  <2>3. FollowedBy(w, Contrary(p, m, a), {n}) /\ (HasAny(t, {n}) => HasAny(w, {n}))
      BY <1>3, <1>5, <2>1, <2>2, FollowedByJoined, AnyJoined
  <2> QED
      BY <1>2, <1>4, <1>5, <2>3 DEF ToldLast
<1> QED
    BY <1>6, <1>7

\* An event that says nothing of where the client is, or of its IPv4 address.
LEMMA NothingTold ==
    ASSUME NeighborTypeOK, ReachTypeOK, ProcessEvt, NEW d, d = Head(queue), NeighborEvent(d),
           NEW m \in Macs, d \notin Telling(m)
    PROVE  /\ m \in lost => m \in lost'
           /\ \/ queue' = Tail(queue)
              \/ \E e \in AddrEvents : queue' = Append(Tail(queue), e) /\ (e.mac # m \/ e.addr \notin V4)
<1>1. PICK r : r = event_callback(cache, d)
    OBVIOUS
<1>2. PICK c : c = cache
    OBVIOUS
<1>3. /\ d \in NlEvents(world.bridged) \cup DrvEvents
      /\ d.event \in {"CLIENT_ADD_EX", "NEW_NEIGH", "DEL_NEIGH"}
      /\ \A e : r.posts = <<e>> /\ e \in AddrEvents => queue' = Append(Tail(queue), e)
      /\ r.posts = << >> => queue' = Tail(queue) /\ lost \subseteq lost'
      /\ \A e : r.posts = <<e>> /\ ~(e.event = "ADDR_ADD" /\ e.addr \in V4) => lost \subseteq lost'
    BY <1>1, NeighborLost
<1>4. CacheOK(c) /\ world.bridged \in BOOLEAN
    BY <1>2, ReachFacts
<1>5. d \in Events
    BY <1>3, <1>4, EventKinds
<1>6. CASE d.mac = m
  <2>1. d.event # "CLIENT_ADD_EX" /\ d.addr \notin (V4 \ LinkLocal) \cup {ZERO}
      BY <1>3, <1>5, <1>6 DEF Telling, AddEvents, V4Events, BareEvents
  <2>2. d.event \in {"NEW_NEIGH", "DEL_NEIGH"} /\ d.addr \in Addrs /\ d.addr \notin V4 \ LinkLocal
      BY <1>3, <1>4, <2>1, EventKinds
  <2>3. r.posts = << >> \/ \E e \in AddrEvents : r.posts = <<e>> /\ e.mac = d.mac /\ e.addr \notin V4
      BY <1>1, <1>2, <1>4, <1>5, <2>2, SilentEffect
  <2> QED
      BY <1>3, <2>3
<1>7. CASE d.mac # m
  <2>1. m \in lost => m \in lost'
      BY <1>7, EventOthers
  <2>2. \/ queue' = Tail(queue)
        \/ \E e \in AddrEvents : queue' = Append(Tail(queue), e) /\ e.mac = d.mac
      BY EventOthers
  <2> QED
      BY <1>7, <2>1, <2>2
<1> QED
    BY <1>6, <1>7

\* The last event about a client with an address announces it where the client is,
\* unless it is lost.
LEMMA AnnouncedLast ==
    ASSUME NeighborTypeOK, ReachTypeOK, ReachInv, ProcessEvt, NEW d, d = Head(queue), NeighborEvent(d),
           NEW p \in Ports, NEW m \in Macs, NEW a \in V4 \ LinkLocal,
           Placed(world.port, world.fdb, world.bridged, p, m),
           <<IF world.bridged THEN Bridge ELSE p, m, a>> \in world.arp,
           Calm(AsEvents(nl), drv, queue', Telling(m)), d \in Telling(m), m \notin lost'
    PROVE  queue' = Append(Tail(queue), ADDR_ADD(p, m, a))
<1>1. PICK r : r = event_callback(cache, d)
    OBVIOUS
<1>2. PICK c : c = cache
    OBVIOUS
<1>3. PICK x : x = AsEvents(nl)
    OBVIOUS
<1>4. PICK w : w = queue'
    OBVIOUS
<1>5. PICK i : i = IF world.bridged THEN Bridge ELSE p
    OBVIOUS
<1>6. PICK n : n = NewOf(i, m, a)
    OBVIOUS
<1>7. /\ d \in NlEvents(world.bridged) \cup DrvEvents
      /\ d.event \in {"CLIENT_ADD_EX", "NEW_NEIGH", "DEL_NEIGH"}
      /\ cache' = r.cache /\ r.drops \subseteq lost'
      /\ \A e : r.posts = <<e>> /\ e \in AddrEvents => w = Append(Tail(queue), e)
    BY <1>1, <1>4, NeighborLost
<1>8. CacheOK(c) /\ world.bridged \in BOOLEAN
    BY <1>2, ReachFacts
<1>9. d \in Events /\ d.mac = m
    BY <1>7, <1>8, EventKinds DEF Telling, V4Events, BareEvents, AddEvents
<1>10. /\ AddressesLast(world.arp, x, queue, Held(c), lost)
       /\ AssociationsLast(world.port, drv, queue, clients) /\ PortsLast(world.fdb, x, queue)
       /\ EntriesBehind(world.port, world.fdb, world.bridged, x, drv, queue, Held(c))
    BY <1>2, <1>3 DEF ReachInv
<1>11. Calm(x, drv, w, BareEvents(m)) /\ Calm(x, drv, w, V4Events(m))
    BY <1>3, <1>4 DEF Calm, HasAny, Telling
<1>12. /\ queue \in Seq(QueueEvents(world.bridged)) /\ queue # << >>
       /\ AddrEvents \subseteq QueueEvents(world.bridged)
       /\ w = Tail(queue) \/ \E e \in AddrEvents : w = Append(Tail(queue), e)
    BY <1>4, ProcessReach, ReachFacts DEF QueueEvents
<1>13. <<i, m, a>> \in world.arp /\ i \in Devs
    BY <1>5 DEF Devs
<1>14. n.event = "NEW_NEIGH" /\ n.iface = i /\ n.name = i /\ n.mac = m /\ n.addr = a
    BY <1>6, EventFields DEF NewOf
<1>15. n \in V4Events(m)
  <2>1. i \in (IF world.bridged THEN {Bridge} ELSE Ports) /\ a \in Addrs
      BY <1>5 DEF Addrs
  <2>2. n \in NlEvents(world.bridged)
      BY <1>6, <1>8, <1>13, <2>1, NlEventMade
  <2> QED
      BY <1>14, <2>2 DEF V4Events, NlEvents
<1>16. ~Pending(x, w, {n})
    BY <1>11, <1>15 DEF Calm, HasAny, Pending
<1>17. PICK g \in Held(cache') : g.mac = m /\ g.v4 = a
  <2>1. AddressesLast(world.arp, x, w, Held(cache'), lost')
      BY <1>2, <1>3, <1>4, <1>10, ProcessAddressesLast
  <2>2. AddressLast(x, w, Held(cache'), lost', <<i, m, a>>)
      BY <1>13, <2>1 DEF AddressesLast
  <2>3. Kept(Held(cache'), lost', m, a)
      BY <1>6, <1>16, <2>2 DEF AddressLast
  <2> QED
      BY <2>3 DEF Kept
<1>18. ADDR_ADD(p, m, a) \in AddrEvents
    BY AddrEventMade DEF ADDR_ADD, Devs, Addrs
<1>19. SUFFICES r.posts = <<ADDR_ADD(p, m, a)>>
    BY <1>4, <1>7, <1>18
<1>20. CASE d.event = "CLIENT_ADD_EX"
  <2>1. m \notin Wired /\ world.port[m] = NONE
      BY <1>3, <1>4, <1>9, <1>10, <1>11, <1>20, LastAssociation
  <2> QED
      BY <2>1, NamesApart DEF Placed
<1>21. CASE d.event \in {"NEW_NEIGH", "DEL_NEIGH"} /\ d.addr \in Addrs /\ d.addr \notin V4 \ LinkLocal
    BY <1>21, NamesApart DEF Telling, V4Events, BareEvents, AddEvents
<1>22. CASE d.event = "DEL_NEIGH" /\ d.addr \in (V4 \ LinkLocal) \cup {ZERO}
  <2>1. \A f \in Held(r.cache) : f.mac # d.mac
      BY <1>1, <1>2, <1>8, <1>9, <1>22, EndEffect
  <2> QED
      BY <1>7, <1>9, <1>17, <2>1
<1>23. CASE d.event = "NEW_NEIGH" /\ d.addr = ZERO /\ d.name # Bridge
  <2>1. d \in BareEvents(m)
      BY <1>9, <1>23 DEF BareEvents
  <2>2. BehindPort(world.port, world.fdb, m, d.iface) /\ (m \in Wired => world.bridged)
      BY <1>3, <1>4, <1>10, <1>11, <1>23, <2>1, LastBare
  <2>3. d.iface = p
      BY <2>2, BehindPlaced
  <2>4. PICK H : H = Held(c)
      OBVIOUS
  <2>5. /\ \A f \in H : f.mac = d.mac =>
              /\ \E k \in Held(r.cache) : k.mac = d.mac /\ k.v4 = f.v4
              /\ \A k \in Held(r.cache) : k.mac = d.mac => k.v4 = f.v4
              /\ r.posts = IF f.v4 = NONE THEN << >> ELSE <<ADDR_ADD(d.iface, d.mac, f.v4)>>
        /\ (\A f \in H : f.mac # d.mac) =>
              r.posts = << >> /\ \A k \in Held(r.cache) : k.mac = d.mac => k.v4 = NONE
      BY <1>1, <1>2, <1>8, <1>9, <1>23, <2>4, BareEffect
  <2>6. g \in Held(r.cache) /\ g.mac = d.mac /\ a # NONE
      BY <1>7, <1>9, <1>17, NamesApart
  <2>7. PICK f \in H : f.mac = d.mac
      BY <1>17, <2>5, <2>6
  <2>8. f.v4 = a
      BY <1>17, <2>5, <2>6, <2>7
  <2> QED
      BY <1>9, <2>3, <2>5, <2>6, <2>7, <2>8
<1>24. CASE d.event = "NEW_NEIGH" /\ d.addr \in V4 \ LinkLocal
  <2>1. d \in V4Events(m) /\ d \notin BareEvents(m)
      BY <1>9, <1>24, NeighborAssumption DEF V4Events, BareEvents
  <2>2. d = n
    <3>1. \A B, C : B \cap AddrEvents = {} /\ Chain(x, queue, B, C) => (d \in B \ C => Pending(x, w, C))
        BY <1>12, StepTaken
    <3>2. AddressLast(x, queue, Held(c), lost, <<i, m, a>>)
        BY <1>10, <1>13 DEF AddressesLast
    <3>3. Chain(x, queue, V4Events(m), {n})
        BY <1>6, <3>2 DEF AddressLast
    <3>4. V4Events(m) \cap AddrEvents = {}
        BY PostersApart
    <3> QED
        BY <1>16, <2>1, <3>1, <3>3, <3>4
  <2>3. CASE world.bridged
    <3>1. d.name = Bridge
        BY <1>5, <1>14, <2>2, <2>3
    <3>2. \/ d.mac \in r.drops
          \/ \E f \in Held(c) : f.mac = d.mac /\ r.posts = <<ADDR_ADD(f.iface, d.mac, d.addr)>>
        BY <1>1, <1>2, <1>8, <1>9, <1>24, <3>1, AddressEffect
    <3>3. PICK f \in Held(c) : f.mac = m /\ r.posts = <<ADDR_ADD(f.iface, m, a)>>
        BY <1>7, <1>9, <1>14, <2>2, <3>2
    <3>4. Calm(x, drv, queue, BareEvents(m))
        BY <1>11, <1>12, <2>1, StepTaken
    <3>5. BehindPort(world.port, world.fdb, m, f.iface)
        BY <1>10, <2>3, <3>3, <3>4 DEF EntriesBehind
    <3>6. f.iface = p
        BY <2>3, <3>5, BehindPlaced
    <3> QED
        BY <3>3, <3>6
  <2>4. CASE ~world.bridged
    <3>1. d.name = p /\ d.iface = p /\ d.name # Bridge /\ d.addr = a
        BY <1>5, <1>14, <2>2, <2>4, NeighborAssumption
    <3>2. r.posts = <<ADDR_ADD(d.iface, d.mac, d.addr)>>
        BY <1>1, <1>2, <1>8, <1>9, <1>24, <3>1, AddressEffect
    <3> QED
        BY <1>9, <3>1, <3>2
  <2> QED
      BY <2>3, <2>4
<1> QED
    BY <1>7, <1>8, <1>20, <1>21, <1>22, <1>23, <1>24, EventKinds

LEMMA NeighborTold ==
    ASSUME NeighborTypeOK, ReachTypeOK, ReachInv, ProcessEvt, NEW d, d = Head(queue), NeighborEvent(d)
    PROVE  AddressesTold(world.port, world.fdb, world.arp, world.bridged, AsEvents(nl), drv, queue', told', lost')
<1>1. PICK x : x = AsEvents(nl)
    OBVIOUS
<1>2. PICK w : w = queue'
    OBVIOUS
<1>3. PICK S : S = QueueEvents(world.bridged)
    OBVIOUS
<1>4. /\ queue \in Seq(S) /\ queue # << >> /\ AddrEvents \subseteq S
      /\ w = Tail(queue) \/ \E e \in AddrEvents : w = Append(Tail(queue), e)
    BY <1>2, <1>3, ProcessReach, ReachFacts DEF QueueEvents
<1>5. told' = told /\ d.event \in {"CLIENT_ADD_EX", "NEW_NEIGH", "DEL_NEIGH"}
    BY DEF NeighborEvent
<1>6. d \notin AddrEvents
    BY <1>5 DEF AddrEvents
<1> SUFFICES ASSUME NEW m \in Macs, NEW p \in Ports, NEW a \in V4 \ LinkLocal,
                    Placed(world.port, world.fdb, world.bridged, p, m),
                    <<IF world.bridged THEN Bridge ELSE p, m, a>> \in world.arp,
                    Calm(x, drv, w, Telling(m)), m \notin lost'
             PROVE  ToldLast(w, told, p, m, a)
    BY <1>1, <1>2, <1>5 DEF AddressesTold
<1>7. CASE d \in Telling(m)
  <2>1. w = Append(Tail(queue), ADDR_ADD(p, m, a))
      BY <1>1, <1>2, <1>7, AnnouncedLast
  <2>2. PICK t : t = Tail(queue)
      OBVIOUS
  <2>3. t \in Seq(S)
      BY <1>4, <2>2, Left
  <2> QED
      BY <1>4, <2>1, <2>2, <2>3, ToldPosted
<1>8. CASE d \notin Telling(m)
  <2>1. m \notin lost
      BY <1>8, NothingTold
  <2>2. \/ w = Tail(queue)
        \/ \E e \in AddrEvents : w = Append(Tail(queue), e) /\ (e.mac # m \/ e.addr \notin V4)
      BY <1>2, <1>8, NothingTold
  <2>3. Calm(x, drv, queue, Telling(m))
      BY <1>4, <1>8, StepTaken
  <2>4. ToldLast(queue, told, p, m, a)
      BY <1>1, <2>1, <2>3 DEF ReachInv, AddressesTold
  <2> QED
      BY <1>4, <1>6, <2>2, <2>4, ToldKept
<1> QED
    BY <1>7, <1>8

\* The downstream objects keep the address, while what they are told ends with it.
LEMMA DownstreamTold ==
    ASSUME NeighborTypeOK, ReachTypeOK, ReachInv, ProcessEvt, NEW d, d = Head(queue), ~NeighborEvent(d)
    PROVE  AddressesTold(world.port, world.fdb, world.arp, world.bridged, AsEvents(nl), drv, queue', told', lost')
<1>1. PICK x : x = AsEvents(nl)
    OBVIOUS
<1>2. PICK w : w = queue'
    OBVIOUS
<1>3. PICK S : S = QueueEvents(world.bridged)
    OBVIOUS
<1>4. /\ queue \in Seq(S) /\ queue # << >> /\ AddrEvents \subseteq S /\ d \in Events
      /\ w = Tail(queue)
    BY <1>2, <1>3, ProcessReach, ProcessOthers, ReachFacts DEF QueueEvents
<1>5. /\ AddrAdd(d) \/ AddrDel(d) \/ ClientDel(d)
      /\ lost' = lost
    BY ProcessOthers
<1> SUFFICES ASSUME NEW m \in Macs, NEW p \in Ports, NEW a \in V4 \ LinkLocal,
                    Placed(world.port, world.fdb, world.bridged, p, m),
                    <<IF world.bridged THEN Bridge ELSE p, m, a>> \in world.arp,
                    Calm(x, drv, w, Telling(m)), m \notin lost
             PROVE  ToldLast(w, told', p, m, a)
    BY <1>1, <1>2, <1>5 DEF AddressesTold
<1>6. d.event \in {"ADDR_ADD", "ADDR_DEL", "CLIENT_DEL"}
    BY <1>5 DEF AddrAdd, AddrDel, ClientDel
<1>7. d \notin Telling(m)
    BY <1>6 DEF Telling, V4Events, BareEvents, AddEvents
<1>8. Calm(x, drv, queue, Telling(m))
    BY <1>4, <1>7, StepTaken
<1>9. ToldLast(queue, told, p, m, a)
    BY <1>1, <1>8 DEF ReachInv, AddressesTold
<1>10. PICK n : n = ADDR_ADD(p, m, a)
    OBVIOUS
<1>11. n.event = "ADDR_ADD" /\ n.iface = p /\ n.mac = m /\ n.addr = a
    BY <1>10, EventFields DEF ADDR_ADD
<1>12. /\ FollowedBy(queue, Contrary(p, m, a), {n})
       /\ <<p, m, a>> \in told \/ HasAny(queue, {n})
    BY <1>9, <1>10 DEF ToldLast
<1>13. /\ FollowedBy(w, Contrary(p, m, a), {n})
       /\ d \in Contrary(p, m, a) /\ d # n => HasAny(w, {n})
       /\ HasAny(queue, {n}) => d = n \/ HasAny(w, {n})
    BY <1>4, <1>12, FollowedByLeft, AnyLeft
<1>14. AssociationsLast(world.port, drv, queue, clients)
    BY DEF ReachInv
<1>15. AddOf(p, m) \in Telling(m) \/ p \notin WlanPorts
  <2>1. CASE p \in WlanPorts
    <3>1. AddOf(p, m) \in Associations
        BY <2>1, AssociationMade DEF AddOf
    <3>2. AddOf(p, m).event = "CLIENT_ADD_EX" /\ AddOf(p, m).mac = m
        BY EventFields DEF AddOf
    <3> HIDE DEF AddOf
    <3> QED
        BY <3>1, <3>2 DEF Associations, AddEvents, Telling
  <2> QED
      BY <2>1
<1>16. p \in WlanPorts => world.port[m] = p /\ AssociationLast(drv, queue, clients, p, m)
    BY <1>14, NeighborAssumption DEF Placed, AssociationsLast
<1>17. p \in LanPorts \/ <<p, m>> \in clients
    BY <1>8, <1>15, <1>16 DEF AssociationLast, Pending, Calm, HasAny, Ports
<1>18. <<p, m, a>> \in told' \/ HasAny(w, {n})
  <2>1. CASE AddrAdd(d)
    <3>1. d.event = "ADDR_ADD" /\ d \in AddrEvents
        BY <1>4, <2>1 DEF AddrAdd, AddrEvents
    <3>2. CASE d = n
        BY <1>11, <1>17, <2>1, <3>2 DEF AddrAdd
    <3>3. CASE d # n
      <4>1. CASE <<p, m, a>> \in told /\ <<p, m, a>> \notin told'
        <5>1. d.iface = p /\ d.mac = m /\ d.addr \in V4 /\ d.addr # a
            BY <2>1, <4>1 DEF AddrAdd, Of
        <5>2. d \in Contrary(p, m, a)
            BY <3>1, <5>1 DEF Contrary
        <5> QED
            BY <1>13, <3>3, <5>2
      <4> QED
          BY <1>12, <1>13, <3>3, <4>1
    <3> QED
        BY <3>2, <3>3
  <2>2. CASE AddrDel(d)
    <3>1. d.event = "ADDR_DEL" /\ d \in AddrEvents /\ d # n
        BY <1>4, <1>11, <2>2 DEF AddrDel, AddrEvents
    <3>2. CASE <<p, m, a>> \in told /\ <<p, m, a>> \notin told'
      <4>1. d.iface = p /\ d.mac = m /\ d.addr \in V4
          BY <2>2, <3>2 DEF AddrDel, Of
      <4>2. d \in Contrary(p, m, a)
          BY <3>1, <4>1 DEF Contrary
      <4> QED
          BY <1>13, <3>1, <4>2
    <3> QED
        BY <1>12, <1>13, <3>1, <3>2
  <2>3. CASE ClientDel(d)
    <3>1. d.event = "CLIENT_DEL" /\ d # n
        BY <1>11, <2>3 DEF ClientDel
    <3>2. <<p, m, a>> \in told => <<p, m, a>> \in told'
      <4>1. SUFFICES ASSUME d.iface = p, d.mac = m
                     PROVE  FALSE
          BY <2>3 DEF ClientDel, Of
      <4>2. p \in WlanPorts /\ d = DelOf(p, m)
          BY <1>4, <3>1, <4>1, AssociationEnded
      <4>3. \A B, C : B \cap AddrEvents = {} /\ Chain(drv, queue, B, C) => (d \in B \ C => Pending(drv, w, C))
          BY <1>4, StepTaken
      <4>4. {DelOf(p, m)} \cap AddrEvents = {} /\ Chain(drv, queue, {DelOf(p, m)}, {AddOf(p, m)})
          BY <1>16, <4>2, PostersApart DEF AssociationLast
      <4>5. Pending(drv, w, {AddOf(p, m)})
          BY <4>2, <4>3, <4>4, AddNotDel
      <4> QED
          BY <1>15, <4>2, <4>5 DEF Pending, Calm, HasAny
    <3> QED
        BY <1>12, <1>13, <3>1, <3>2
  <2> QED
      BY <1>5, <2>1, <2>2, <2>3
<1> QED
    BY <1>10, <1>13, <1>18 DEF ToldLast

LEMMA ProcessReachInv ==
    ASSUME NeighborTypeOK, ReachTypeOK, ReachInv, ProcessEvt
    PROVE  ReachInv'
<1>1. PICK d : d = Head(queue)
    OBVIOUS
<1>2. world' = world /\ drv' = drv /\ AsEvents(nl') = AsEvents(nl)
    BY <1>1, ProcessReach DEF AsEvents
<1>3. AddressesLast(world.arp, AsEvents(nl), queue', Held(cache'), lost')
    BY ProcessAddressesLast DEF ReachInv
<1>4. AssociationsLast(world.port, drv, queue', clients')
    BY ProcessAssociationsLast DEF ReachInv
<1>5. PortsLast(world.fdb, AsEvents(nl), queue')
    BY ProcessPortsLast DEF ReachInv
<1>6. EntriesBehind(world.port, world.fdb, world.bridged, AsEvents(nl), drv, queue', Held(cache'))
    BY ProcessBehind
<1>7. AddressesTold(world.port, world.fdb, world.arp, world.bridged, AsEvents(nl), drv, queue', told', lost')
    BY <1>1, NeighborTold, DownstreamTold
<1> QED
    BY <1>2, <1>3, <1>4, <1>5, <1>6, <1>7 DEF ReachInv

(* The address of a client reaches the interface it is behind *)

LEMMA ReachInit == Init => ReachTypeOK /\ ReachInv
<1> SUFFICES ASSUME Init
             PROVE  ReachTypeOK /\ ReachInv
    OBVIOUS
<1>1. /\ nl = << >> /\ drv = << >> /\ queue = << >> /\ told = {} /\ clients = {} /\ lost = {}
      /\ cache = [neighbor_client |-> << >>, circular_index |-> 1]
      /\ world.port = [m \in Macs |-> NONE] /\ world.fdb = [m \in Macs |-> NONE] /\ world.arp = {}
    BY DEF Init
<1>2. AsEvents(nl) = << >>
    BY <1>1 DEF AsEvents
<1>3. Held(cache) = {}
    BY <1>1 DEF Held, Slots
<1>4. \A m \in Macs : world.port[m] = NONE /\ world.fdb[m] = NONE
    BY <1>1
<1>5. NONE \notin WlanPorts
    BY NamesApart DEF Ports
<1>6. ReachTypeOK
  <2>1. PlacesOK(world.port, world.fdb, world.arp, world.bridged)
      BY <1>1, <1>4 DEF PlacesOK
  <2>2. \A S : << >> \in Seq(S)
      OBVIOUS
  <2> QED
      BY <1>1, <1>2, <2>1, <2>2 DEF ReachTypeOK
<1>7. AddressesLast(world.arp, << >>, << >>, {}, lost)
    BY <1>1 DEF AddressesLast
<1>8. AssociationsLast(world.port, drv, queue, clients)
    BY <1>4, <1>5 DEF AssociationsLast
<1>9. PortsLast(world.fdb, << >>, << >>)
    BY NoneWaits DEF PortsLast, Chain
<1>10. EntriesBehind(world.port, world.fdb, world.bridged, << >>, drv, << >>, {})
    BY DEF EntriesBehind
<1>11. AddressesTold(world.port, world.fdb, world.arp, world.bridged, << >>, drv, << >>, told, lost)
    BY <1>1 DEF AddressesTold
<1> QED
    BY <1>1, <1>2, <1>3, <1>6, <1>7, <1>8, <1>9, <1>10, <1>11 DEF ReachInv

LEMMA ReachNext == ~SecondAddress /\ NeighborTypeOK /\ ReachTypeOK /\ ReachInv /\ [Next]_vars => (ReachTypeOK /\ ReachInv)'
<1> SUFFICES ASSUME ~SecondAddress, NeighborTypeOK, ReachTypeOK, ReachInv, [Next]_vars
             PROVE  ReachTypeOK' /\ ReachInv'
    OBVIOUS
<1>1. CASE UNCHANGED vars
  <2>1. AsEvents(nl') = AsEvents(nl) /\ Held(cache') = Held(cache)
      BY <1>1 DEF vars
  <2> QED
      BY <1>1, <2>1 DEF vars, ReachTypeOK, ReachInv
<1>2. ASSUME NEW m \in Macs, NEW p \in Ports, Join(m, p)
      PROVE  ReachTypeOK' /\ ReachInv'
    BY <1>2, JoinReachType, JoinReachInv
<1>3. ASSUME NEW m \in Macs, Leave(m)
      PROVE  ReachTypeOK' /\ ReachInv'
    BY <1>3, LeaveReachType, LeaveReachInv
<1>4. ASSUME NEW m \in Macs, Age(m)
      PROVE  ReachTypeOK' /\ ReachInv'
    BY <1>4, AgeReachType, AgeReachInv
<1>5. ASSUME NEW m \in Macs, NEW a \in V4 \cup V6, Learn(m, a)
      PROVE  ReachTypeOK' /\ ReachInv'
    BY <1>5, LearnReachType, LearnReachInv DEF Addrs
<1>6. ASSUME NEW e \in world.arp, Expire(e)
      PROVE  ReachTypeOK' /\ ReachInv'
    BY <1>6, ExpireReachType, ExpireReachInv
<1>7. CASE ipa_nl_recv_msg \/ ipa_driver_msg_notifier
    BY <1>7, PassReach, PassReachInv
<1>8. CASE ProcessEvt
  <2>1. PICK d : d = Head(queue)
      OBVIOUS
  <2> QED
      BY <1>8, <2>1, ProcessReach, ProcessReachInv
<1> QED
    BY <1>1, <1>2, <1>3, <1>4, <1>5, <1>6, <1>7, <1>8 DEF Next

\* The inductive invariant: of each client the last thing that is still to be said -
\* of its address, of its association, of its forwarding entry, and to the interface -
\* is the truth, and when nothing is to be said any more the cache or the interface
\* has it.
THEOREM ReachInvariant == ~SecondAddress => (Spec => [](ReachTypeOK /\ ReachInv))
<1> SUFFICES ASSUME ~SecondAddress
             PROVE  Spec => [](ReachTypeOK /\ ReachInv)
    OBVIOUS
<1>1. NeighborTypeOK /\ ReachTypeOK /\ ReachInv /\ [Next]_vars => (ReachTypeOK /\ ReachInv)'
    BY ReachNext
<1> QED
    BY <1>1, ReachInit, NeighborTypeInvariant, PTL DEF Spec

\* AddressReaches, when no client has two IPv4 addresses: once everything reported has
\* been handled the interface a client is behind has the IPv4 address the kernel knows
\* it by, unless the cache dropped it, for any clients, ports, addresses, sizes of the
\* cache and numbers of changes, and any order of the reports of the two threads.
THEOREM AddressAlwaysReaches == ~SecondAddress => (Spec => []AddressReaches)
<1> SUFFICES ASSUME ~SecondAddress
             PROVE  Spec => []AddressReaches
    OBVIOUS
<1>1. NeighborTypeOK /\ ReachTypeOK /\ ReachInv => AddressReaches
  <2> SUFFICES ASSUME NeighborTypeOK, ReachTypeOK, ReachInv, nl = << >>, drv = << >>, queue = << >>,
                      NEW e \in world.arp, world.port[e[2]] # NONE, e[1] = Dev(world.port[e[2]]),
                      e[3] \in V4 \ LinkLocal, e[2] \notin lost
               PROVE  <<world.port[e[2]], e[2], e[3]>> \in told
      BY DEF AddressReaches, Quiet
  <2>1. PICK m : m = e[2]
      OBVIOUS
  <2>2. PICK a : a = e[3]
      OBVIOUS
  <2>3. PICK p : p = world.port[m]
      OBVIOUS
  <2>4. /\ m \in Macs /\ p \in Ports /\ e = <<e[1], m, a>>
        /\ world.bridged \in BOOLEAN
      BY <2>1, <2>2, <2>3, ReachFacts
  <2>5. AsEvents(nl) = << >>
      BY DEF AsEvents
  <2>6. (\A C : ~Pending(<< >>, << >>, C)) /\ \A C : Calm(<< >>, << >>, << >>, C)
      BY NoneWaits DEF Pending, Calm
  <2>7. /\ AddressesLast(world.arp, << >>, << >>, Held(cache), lost)
        /\ EntriesBehind(world.port, world.fdb, world.bridged, << >>, << >>, << >>, Held(cache))
        /\ AddressesTold(world.port, world.fdb, world.arp, world.bridged, << >>, << >>, << >>, told, lost)
      BY <2>5 DEF ReachInv
  <2>8. PICK f \in Held(cache) : f.mac = m /\ f.v4 = a
      BY <2>1, <2>2, <2>6, <2>7 DEF AddressesLast, AddressLast, Kept
  <2>9. world.bridged => BehindPort(world.port, world.fdb, m, f.iface)
      BY <2>4, <2>6, <2>7, <2>8 DEF EntriesBehind
  <2>10. Placed(world.port, world.fdb, world.bridged, p, m)
    <3>1. CASE m \in Wired
      <4>1. p \in LanPorts
          BY <2>1, <2>3, <2>4, <3>1, Wirelessly
      <4>2. world.bridged => world.fdb[m] = p
          BY <2>3, <2>4, <2>9, <3>1, NamesApart, Wirelessly DEF BehindPort
      <4> QED
          BY <3>1, <4>1, <4>2 DEF Placed
    <3>2. CASE m \notin Wired
        BY <2>1, <2>3, <2>4, <3>2, Wirelessly DEF Placed
    <3> QED
        BY <3>1, <3>2
  <2>11. <<IF world.bridged THEN Bridge ELSE p, m, a>> \in world.arp
      BY <2>1, <2>3, <2>4 DEF Dev
  <2>12. ToldLast(<< >>, told, p, m, a)
      BY <2>1, <2>2, <2>4, <2>6, <2>7, <2>10, <2>11 DEF AddressesTold
  <2> QED
      BY <2>1, <2>2, <2>3, <2>12, NoneWaits DEF ToldLast
<1> QED
    BY <1>1, NeighborTypeInvariant, ReachInvariant, PTL
===============================================================================
