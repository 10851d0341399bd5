-------------------------- MODULE IfaceManagerProofs --------------------------
(***************************************************************************)
(* The life of IPACM's interface objects, for every set of interfaces with *)
(* at most two access points, every number of objects and every length of  *)
(* the queues: the walk over the listeners never meets a freed node, the   *)
(* registries and the heap agree, an object that has shut down, and no     *)
(* other, is about to be deleted, once, and when all events are handled    *)
(* the objects mirror the links and the roles of the interfaces.           *)
(***************************************************************************)
EXTENDS IfaceManager, Integers, FiniteSetTheorems, WellFoundedInduction, TLAPS

\* The constructor of IPACM_Wlan refuses a third access point and frees itself, while
\* the manager registers it all the same: no claim is made for a device with three.
TwoAccessPoints ==
    \A d \in Deployments : \A i, j, k \in d \cap WlanIfs : i = j \/ j = k \/ i = k

\* The list of listeners as a set with an order.
In(s, n) == \E k \in 1..Len(s) : s[k] = n
Before(s, a, b) == \E j, k \in 1..Len(s) : j < k /\ s[j] = a /\ s[k] = b
Once(s) == \A j, k \in 1..Len(s) : s[j] = s[k] => j = k
Reaches(s, a, b) == a = b \/ Before(s, a, b)

OutsideEvents == [event : Events \ {"LAN_DELETE_SELF"}, iface : present]
DeleteEvents == [event : {"LAN_DELETE_SELF"}, iface : present]

Objects == [kind : Kinds, iface : Ifaces, active : BOOLEAN, addr : BOOLEAN]

QueuesInv ==
    /\ present \in Deployments
    /\ internal \in Seq(DeleteEvents) /\ external \in Seq(OutsideEvents)
    /\ evt \in OutsideEvents \cup DeleteEvents \cup {NULL}

\* The heap: one object per instance, one instance per interface.
HeapInv ==
    /\ live \subseteq Objs /\ IsFiniteSet(live)
    /\ obj \in [live -> Objects]
    /\ \A o \in live : obj[o].iface \in present
    /\ \A o, q \in live : obj[o].iface = obj[q].iface => o = q
    /\ instances = {<<obj[o].iface, o>> : o \in live}

\* The list has the nodes of the objects that are there, in the order of registration.
HasNodes(s, nodes, o) ==
    /\ \A n \in Nodes : n[2] = o => (In(s, n) <=> In(nodes, n))
    /\ \A j, k \in 1..Len(nodes) : j < k => Before(s, nodes[j], nodes[k])

ManagerEvents == {"LINK_UP", "AP_LINK_UP", "STA_LINK_UP", "USB_LINK_UP"}
ListInv ==
    /\ listeners \in Seq(Nodes) /\ Once(listeners)
    /\ \A e \in ManagerEvents : In(listeners, <<e, Manager>>)
    /\ \A n \in Nodes : In(listeners, n) => n[2] \in live \cup {Manager}
    /\ \A o \in live : HasNodes(listeners, NodesOf(obj[o].kind, o), o)

WalkInv == cursor # NULL => cursor \in Nodes /\ In(listeners, cursor) /\ evt # NULL

\* The event that deletes an inactive object waits, or the walk has yet to reach the object.
DeleteNode(o) == <<"LAN_DELETE_SELF", o>>
DeleteOf(o) == Evt("LAN_DELETE_SELF", obj[o].iface)
TeardownInv ==
    /\ Once(internal)
    /\ \A k \in 1..Len(internal) : Inactive(internal[k].iface) /\ internal[k] # evt
    /\ \A o \in live : ~obj[o].active =>
          obj[o].kind \in LanKinds /\ (In(internal, DeleteOf(o)) \/ evt = DeleteOf(o))
    /\ \A o \in live : evt = DeleteOf(o) =>
          ~obj[o].active /\ cursor # NULL /\ Reaches(listeners, cursor, DeleteNode(o))

AccessPoints == {o \in live : obj[o].kind = "wlan"}
CategoriesInv ==
    /\ if_cat \in [Ifaces -> {"LAN_IF", "WAN_IF", "WLAN_IF", "UNKNOWN_IF"}]
    /\ \A i \in Ifaces : if_cat[i] \in {"WLAN_IF", "UNKNOWN_IF"} => i \in WlanIfs
RolesInv ==
    /\ CategoriesInv
    /\ \A o \in live : obj[o].kind \in {"wlan", "WLAN_WAN"} => obj[o].iface \in WlanIfs
    /\ num_wlan_ap_iface = Cardinality(AccessPoints)

LinksInv ==
    /\ link \in [Ifaces -> {"down", "up", "running"}]
    /\ wlan \in [WlanIfs -> {"down", "ap", "sta"}]
    /\ addr \in [Ifaces -> BOOLEAN]

IfaceInv ==
    LinksInv /\ QueuesInv /\ HeapInv /\ ListInv /\ WalkInv /\ TeardownInv /\ RolesInv

(* The list of listeners *)

LEMMA BeforeIn ==
    ASSUME NEW s, NEW a, NEW b, Before(s, a, b)
    PROVE  In(s, a) /\ In(s, b)
BY DEF Before, In

LEMMA BeforeOrder ==
    ASSUME NEW S, NEW s \in Seq(S), Once(s), NEW a, NEW b, NEW c
    PROVE  /\ Before(s, a, b) => ~Before(s, b, a) /\ a # b
           /\ Before(s, a, b) /\ Before(s, b, c) => Before(s, a, c)
           /\ In(s, a) /\ In(s, b) => a = b \/ Before(s, a, b) \/ Before(s, b, a)
<1>1. Len(s) \in Nat
    OBVIOUS
<1>2. ASSUME Before(s, a, b) PROVE ~Before(s, b, a) /\ a # b
    BY <1>1, <1>2 DEF Before, Once
<1>3. ASSUME Before(s, a, b), Before(s, b, c) PROVE Before(s, a, c)
    BY <1>1, <1>3 DEF Before, Once
<1>4. ASSUME In(s, a), In(s, b) PROVE a = b \/ Before(s, a, b) \/ Before(s, b, a)
    BY <1>1, <1>4 DEF Before, In
<1> QED
    BY <1>2, <1>3, <1>4

LEMMA PositionOf ==
    ASSUME listeners \in Seq(Nodes), Once(listeners), NEW n, In(listeners, n)
    PROVE  /\ Position(n) \in 1..Len(listeners) /\ listeners[Position(n)] = n
           /\ \A k \in 1..Len(listeners) : listeners[k] = n => k = Position(n)
<1>1. \E k \in 1..Len(listeners) : listeners[k] = n
    BY DEF In
<1>2. Position(n) \in 1..Len(listeners) /\ listeners[Position(n)] = n
    BY <1>1 DEF Position
<1> QED
    BY <1>2 DEF Once

LEMMA PositionOrder ==
    ASSUME listeners \in Seq(Nodes), Once(listeners), NEW a, NEW b, Before(listeners, a, b)
    PROVE  Position(a) < Position(b)
<1>1. PICK j, k \in 1..Len(listeners) : j < k /\ listeners[j] = a /\ listeners[k] = b
    BY DEF Before
<1>2. j = Position(a) /\ k = Position(b)
    BY <1>1, BeforeIn, PositionOf
<1> QED
    BY <1>1, <1>2

\* What the walk steps to.
LEMMA NextNodeOf ==
    ASSUME listeners \in Seq(Nodes), Once(listeners), NEW n \in Nodes, In(listeners, n),
           NEW m, m = NextNode(n)
    PROVE  /\ m # NULL => m \in Nodes /\ Before(listeners, n, m)
           /\ \A b \in Nodes : Before(listeners, n, b) => m # NULL /\ Reaches(listeners, m, b)
<1> DEFINE p == Position(n)
<1>1. /\ p \in 1..Len(listeners) /\ listeners[p] = n /\ Len(listeners) \in Nat
      /\ \A k \in 1..Len(listeners) : listeners[k] = n => k = p
    BY PositionOf
<1>2. m = IF p < Len(listeners) THEN listeners[p + 1] ELSE NULL
    BY DEF NextNode
<1> HIDE DEF p
<1>3. ASSUME m # NULL PROVE m \in Nodes /\ Before(listeners, n, m)
  <2>1. p < Len(listeners) /\ m = listeners[p + 1]
      BY <1>2, <1>3
  <2>2. p + 1 \in 1..Len(listeners) /\ p < p + 1
      BY <1>1, <2>1
  <2> QED
      BY <1>1, <2>1, <2>2 DEF Before
<1>4. ASSUME NEW b \in Nodes, Before(listeners, n, b)
      PROVE  m # NULL /\ Reaches(listeners, m, b)
  <2>1. PICK k \in 1..Len(listeners) : p < k /\ listeners[k] = b
      BY <1>1, <1>4 DEF Before
  <2>2. p < Len(listeners) /\ p + 1 \in 1..Len(listeners) /\ m = listeners[p + 1]
      BY <1>1, <1>2, <2>1
  <2>3. m \in Nodes
      BY <2>2
  <2>4. m # NULL
      BY <2>3, NullAssumption
  <2>5. CASE k = p + 1
      BY <2>1, <2>2, <2>4, <2>5 DEF Reaches
  <2>6. CASE k # p + 1
    <3>1. p + 1 < k
        BY <1>1, <2>1, <2>6
    <3> QED
        BY <2>1, <2>2, <2>4, <3>1 DEF Reaches, Before
  <2> QED
      BY <2>5, <2>6
<1> QED
    BY <1>3, <1>4

\* Where the walk stops next for an event.
SkipTo(n, e) ==
    LET here == Position(n)
        matching == {k \in here..Len(listeners) : listeners[k][1] = e}
    IN IF matching = {} THEN NULL
       ELSE listeners[CHOOSE k \in matching : \A m \in matching : k <= m]

\* A set of naturals that is not empty has a least element.
LEMMA LeastNumber ==
    ASSUME NEW T \in SUBSET Nat, T # {}
    PROVE  \E x \in T : \A y \in T : x <= y
<1> DEFINE R == OpToRel(<, Nat)
<1>1. IsWellFoundedOn(R, Nat)
    BY NatLessThanWellFounded
<1>2. \A y, x \in Nat : <<y, x>> \in R <=> y < x
    BY DEF OpToRel
<1> HIDE DEF R
<1>3. PICK x \in T : \A y \in T : ~ (<<y, x>> \in R)
    BY <1>1, WFMin
<1>4. \A y \in T : x <= y
  <2> TAKE y \in T
  <2>1. y \in Nat /\ x \in Nat
      OBVIOUS
  <2>2. ~(y < x)
      BY <1>2, <1>3, <2>1
  <2> QED
      BY <2>1, <2>2
<1> QED
    BY <1>4

LEMMA SkipToOf ==
    ASSUME listeners \in Seq(Nodes), Once(listeners), NEW n \in Nodes, In(listeners, n),
           NEW e, NEW m, m = SkipTo(n, e)
    PROVE  /\ m # NULL => m \in Nodes /\ In(listeners, m)
           /\ \A b \in Nodes : b[1] = e /\ Reaches(listeners, n, b) => m # NULL /\ Reaches(listeners, m, b)
<1> DEFINE p == Position(n)
           T == {k \in p..Len(listeners) : listeners[k][1] = e}
<1>1. /\ p \in 1..Len(listeners) /\ listeners[p] = n /\ Len(listeners) \in Nat
      /\ \A k \in 1..Len(listeners) : listeners[k] = n => k = p
    BY PositionOf
<1>2. m = IF T = {} THEN NULL ELSE listeners[CHOOSE k \in T : \A j \in T : k <= j]
    BY DEF SkipTo
<1>3. T \in SUBSET Nat
    BY <1>1
<1>4. CASE T = {}
  <2>1. m = NULL
      BY <1>2, <1>4
  <2>2. ASSUME NEW b \in Nodes, b[1] = e, Reaches(listeners, n, b) PROVE FALSE
    <3> HIDE DEF p
    <3>1. PICK k \in 1..Len(listeners) : p <= k /\ listeners[k] = b
        BY <1>1, <2>2 DEF Reaches, Before
    <3>2. k \in T
        BY <1>1, <2>2, <3>1
    <3> QED
        BY <1>4, <3>2
  <2> QED
      BY <2>1, <2>2
<1>5. CASE T # {}
  <2>1. PICK k \in T : (\A j \in T : k <= j) /\ m = listeners[k]
    <3> HIDE DEF T
    <3>1. \E k \in T : \A j \in T : k <= j
        BY <1>3, <1>5, LeastNumber
    <3> QED
        BY <1>2, <1>5, <3>1
  <2> HIDE DEF p
  <2>2. k \in 1..Len(listeners) /\ m \in Nodes
      BY <1>1, <2>1
  <2>3. m # NULL
      BY <2>2, NullAssumption
  <2>4. In(listeners, m)
      BY <2>1, <2>2 DEF In
  <2>5. ASSUME NEW b \in Nodes, b[1] = e, Reaches(listeners, n, b) PROVE Reaches(listeners, m, b)
    <3>1. PICK j \in 1..Len(listeners) : p <= j /\ listeners[j] = b
        BY <1>1, <2>5 DEF Reaches, Before
    <3>2. j \in T
        BY <1>1, <2>5, <3>1
    <3>3. k <= j
        BY <2>1, <3>2
    <3>4. CASE k = j
        BY <2>1, <3>1, <3>4 DEF Reaches
    <3>5. CASE k # j
      <4>1. k < j
          BY <2>2, <3>3, <3>5
      <4> QED
          BY <2>1, <2>2, <3>1, <4>1 DEF Reaches, Before
    <3> QED
        BY <3>4, <3>5
  <2> QED
      BY <2>2, <2>3, <2>4, <2>5
<1> QED
    BY <1>4, <1>5

LEMMA Appended ==
    ASSUME NEW s \in Seq(Nodes), Once(s), NEW n \in Nodes, ~In(s, n), NEW r, r = Append(s, n)
    PROVE  /\ r \in Seq(Nodes) /\ Once(r)
           /\ \A m : In(r, m) <=> In(s, m) \/ m = n
           /\ \A a, b : Before(s, a, b) => Before(r, a, b)
           /\ \A a : In(s, a) => Before(r, a, n)
<1>1. /\ r \in Seq(Nodes) /\ Len(r) = Len(s) + 1 /\ r[Len(s) + 1] = n /\ Len(s) \in Nat
      /\ \A k \in 1..Len(s) : r[k] = s[k]
    OBVIOUS
<1>2. \A k \in 1..Len(r) : k \in 1..Len(s) \/ k = Len(s) + 1
    BY <1>1
<1>3. 1..Len(s) \subseteq 1..Len(r) /\ Len(s) + 1 \in 1..Len(r)
    BY <1>1
<1>4. Once(r)
    BY <1>1, <1>2 DEF Once, In
<1>5. \A m : In(r, m) <=> In(s, m) \/ m = n
    BY <1>1, <1>2, <1>3 DEF In
<1>6. \A a, b : Before(s, a, b) => Before(r, a, b)
    BY <1>1, <1>3 DEF Before
<1>7. \A a : In(s, a) => Before(r, a, n)
    BY <1>1, <1>3 DEF Before, In
<1> QED
    BY <1>1, <1>4, <1>5, <1>6, <1>7

LEMMA Joined ==
    ASSUME NEW s \in Seq(Nodes), Once(s), NEW t \in Seq(Nodes), Once(t),
           \A n \in Nodes : ~(In(s, n) /\ In(t, n)), NEW r, r = s \o t
    PROVE  /\ r \in Seq(Nodes) /\ Once(r)
           /\ \A m : In(r, m) <=> In(s, m) \/ In(t, m)
           /\ \A a, b : Before(s, a, b) \/ Before(t, a, b) => Before(r, a, b)
<1>1. /\ r \in Seq(Nodes) /\ Len(r) = Len(s) + Len(t) /\ Len(s) \in Nat /\ Len(t) \in Nat
      /\ \A k \in 1..Len(s) : r[k] = s[k]
      /\ \A k \in 1..Len(t) : r[Len(s) + k] = t[k]
    OBVIOUS
<1>2. \A k \in 1..Len(r) : k \in 1..Len(s) \/ (k - Len(s) \in 1..Len(t) /\ r[k] = t[k - Len(s)])
    BY <1>1
<1>3. 1..Len(s) \subseteq 1..Len(r) /\ \A k \in 1..Len(t) : Len(s) + k \in 1..Len(r)
    BY <1>1
<1>4. ASSUME NEW m PROVE In(r, m) <=> In(s, m) \/ In(t, m)
  <2>1. In(r, m) => In(s, m) \/ In(t, m)
      BY <1>1, <1>2 DEF In
  <2>2. In(s, m) => In(r, m)
      BY <1>1, <1>3 DEF In
  <2>3. ASSUME NEW k \in 1..Len(t), t[k] = m PROVE In(r, m)
    <3>1. Len(s) + k \in 1..Len(r) /\ r[Len(s) + k] = m
        BY <1>1, <1>3, <2>3
    <3> QED
        BY <3>1 DEF In
  <2> QED
      BY <2>1, <2>2, <2>3 DEF In
<1>5. Once(r)
  <2> SUFFICES ASSUME NEW j \in 1..Len(r), NEW k \in 1..Len(r), r[j] = r[k]
               PROVE  j = k
      BY DEF Once
  <2>1. \A i \in 1..Len(s) : In(s, s[i]) /\ s[i] \in Nodes
      BY DEF In
  <2>2. \A i \in 1..Len(t) : In(t, t[i]) /\ t[i] \in Nodes
      BY DEF In
  <2>3. CASE j \in 1..Len(s) /\ k \in 1..Len(s)
      BY <1>1, <2>3 DEF Once
  <2>4. CASE j \in 1..Len(s) /\ k \notin 1..Len(s)
      BY <1>1, <1>2, <2>1, <2>2, <2>4
  <2>5. CASE j \notin 1..Len(s) /\ k \in 1..Len(s)
      BY <1>1, <1>2, <2>1, <2>2, <2>5
  <2>6. CASE j \notin 1..Len(s) /\ k \notin 1..Len(s)
    <3>1. j - Len(s) = k - Len(s)
        BY <1>2, <2>6 DEF Once
    <3> QED
        BY <1>1, <3>1
  <2> QED
      BY <2>3, <2>4, <2>5, <2>6
<1>6. ASSUME NEW a, NEW b, Before(s, a, b) \/ Before(t, a, b) PROVE Before(r, a, b)
  <2>1. CASE Before(s, a, b)
      BY <1>1, <1>3, <2>1 DEF Before
  <2>2. CASE Before(t, a, b)
    <3>1. PICK j, k \in 1..Len(t) : j < k /\ t[j] = a /\ t[k] = b
        BY <2>2 DEF Before
    <3>2. Len(s) + j \in 1..Len(r) /\ Len(s) + k \in 1..Len(r) /\ Len(s) + j < Len(s) + k
          /\ r[Len(s) + j] = a /\ r[Len(s) + k] = b
        BY <1>1, <1>3, <3>1
    <3> QED
        BY <3>2 DEF Before
  <2> QED
      BY <1>6, <2>1, <2>2
<1> QED
    BY <1>1, <1>4, <1>5, <1>6

\* deregistr: f[k] is what is left of the first k nodes of s.
Unlinks(f, s, o) ==
    f = [k \in 0..Len(s) |->
           IF k = 0 THEN << >> ELSE IF s[k][2] = o THEN f[k-1] ELSE Append(f[k-1], s[k])]

LEMMA DeregistrLoop ==
    ASSUME NEW o
    PROVE  deregistr(o) = (CHOOSE f : Unlinks(f, listeners, o))[Len(listeners)]
BY Zenon DEF deregistr, Unlinks

LEMMA UnlinksRun ==
    ASSUME NEW s, Len(s) \in Nat, NEW o
    PROVE  \E f : Unlinks(f, s, o)
<1> DEFINE st == << >>
           Turn(x, k) == IF s[k][2] = o THEN x ELSE Append(x, s[k])
           M == Len(s)
           Upto(n, f) == f = [k \in 0..n |-> IF k = 0 THEN st ELSE Turn(f[k-1], k)]
           T == {n \in 0..M : ~ \E f : Upto(n, f)}
<1>1. M \in Nat
    OBVIOUS
<1>2. T = {}
  <2> SUFFICES ASSUME T # {}
               PROVE  FALSE
      OBVIOUS
  <2>1. T \in SUBSET Nat
      BY <1>1
  <2> HIDE DEF Turn, M, st
  <2>2. PICK n \in T : \A m \in T : n <= m
    <3> HIDE DEF T
    <3> QED
        BY <2>1, LeastNumber
  <2>3. n \in Nat /\ n \in 0..M
      BY <1>1
  <2>4. n # 0
    <3>1. Upto(0, [k \in 0..0 |-> st])
        BY Z3
    <3> HIDE DEF Upto
    <3> QED
        BY <2>2, <3>1
  <2>5. n - 1 \in Nat /\ n - 1 \in 0..M /\ n - 1 \notin T
    <3> HIDE DEF T
    <3> QED
        BY <1>1, <2>2, <2>3, <2>4
  <2>6. PICK f : Upto(n - 1, f)
      BY <2>5
  <2> DEFINE h == [k \in 0..n |-> IF k = n THEN Turn(f[n-1], n) ELSE f[k]]
  <2>7. \A k \in 0..n-1 : h[k] = f[k] /\ f[k] = IF k = 0 THEN st ELSE Turn(f[k-1], k)
      BY <2>3, <2>4, <2>6
  <2>8. h[n] = Turn(f[n-1], n)
      BY <2>3
  <2>9. \A k \in 0..n : h[k] = IF k = 0 THEN st ELSE Turn(h[k-1], k)
    <3> TAKE k \in 0..n
    <3>1. CASE k = 0
      <4>1. 0 \in 0..n-1
          BY <2>3, <2>4
      <4>2. h[0] = st
          BY <4>1, <2>7
      <4> HIDE DEF h
      <4> QED
          BY <3>1, <4>2
    <3>2. CASE k # 0
      <4>1. k - 1 \in 0..n-1
          BY <3>2, <2>3
      <4>2. h[k-1] = f[k-1]
          BY <4>1, <2>7
      <4>3. h[k] = Turn(f[k-1], k)
        <5>1. CASE k = n
            BY <5>1, <2>8
        <5>2. CASE k # n
          <6>1. k \in 0..n-1
              BY <5>2, <2>3
          <6> QED
              BY <6>1, <3>2, <2>7
        <5> QED
            BY <5>1, <5>2
      <4> QED
          BY <3>2, <4>2, <4>3
    <3> QED
        BY <3>1, <3>2
  <2>10. h = [k \in 0..n |-> h[k]]
      OBVIOUS
  <2> HIDE DEF h
  <2>11. Upto(n, h)
      BY <2>9, <2>10
  <2> QED
      BY <2>2, <2>11
<1>3. \E f : Upto(M, f)
    BY <1>1, <1>2
<1> QED
    BY <1>3 DEF Unlinks

\* Of the first k nodes of s all but those of o are left, in their order.
LeftOf(r, s, k, o) ==
    /\ r \in Seq(Nodes) /\ Once(r)
    /\ \A n \in Nodes : In(r, n) <=> n[2] # o /\ \E j \in 1..k : s[j] = n
    /\ \A i, j \in 1..k : i < j /\ s[i][2] # o /\ s[j][2] # o => Before(r, s[i], s[j])

LEMMA UnlinksLeave ==
    ASSUME NEW s \in Seq(Nodes), Once(s), NEW o, NEW f, Unlinks(f, s, o)
    PROVE  \A k \in 0..Len(s) : LeftOf(f[k], s, k, o)
<1> DEFINE T == {k \in 0..Len(s) : ~LeftOf(f[k], s, k, o)}
<1>1. Len(s) \in Nat /\ \A k \in 1..Len(s) : s[k] \in Nodes
    OBVIOUS
<1>2. /\ f[0] = << >>
      /\ \A k \in 1..Len(s) : f[k] = IF s[k][2] = o THEN f[k-1] ELSE Append(f[k-1], s[k])
  <2> DEFINE Turn(x, k) == IF s[k][2] = o THEN x ELSE Append(x, s[k])
             M == Len(s)
  <2>1. f = [k \in 0..M |-> IF k = 0 THEN << >> ELSE Turn(f[k-1], k)] /\ M \in Nat
      BY <1>1 DEF Unlinks
  <2> HIDE DEF Turn, M
  <2>2. \A k \in 0..M : f[k] = IF k = 0 THEN << >> ELSE Turn(f[k-1], k)
      BY <2>1
  <2>3. f[0] = << >> /\ \A k \in 1..M : f[k] = Turn(f[k-1], k)
    <3>1. 0 \in 0..M /\ \A k \in 1..M : k \in 0..M /\ k # 0
        BY <2>1
    <3> QED
        BY <2>2, <3>1
  <2> QED
      BY <2>3 DEF Turn, M
<1>3. SUFFICES ASSUME T # {} PROVE FALSE
    OBVIOUS
<1>4. T \in SUBSET Nat
    BY <1>1
<1>5. PICK k \in T : \A j \in T : k <= j
  <2> HIDE DEF T
  <2> QED
      BY <1>3, <1>4, LeastNumber
<1>6. k # 0
  <2>1. LeftOf(<< >>, s, 0, o)
      BY DEF LeftOf, Once, In
  <2> QED
      BY <1>2, <2>1
<1>7. k \in 1..Len(s) /\ k - 1 \in 0..Len(s) /\ k - 1 \notin T
  <2>1. k \in 0..Len(s)
      OBVIOUS
  <2> HIDE DEF T
  <2> QED
      BY <1>1, <1>5, <1>6, <2>1
<1>8. LeftOf(f[k-1], s, k - 1, o)
    BY <1>7
<1>9. 1..k = (1..k - 1) \cup {k}
    BY <1>1, <1>7
<1>10. CASE s[k][2] = o
  <2>1. f[k] = f[k-1]
      BY <1>2, <1>7, <1>10
  <2>2. LeftOf(f[k], s, k, o)
      BY <1>1, <1>7, <1>8, <1>9, <1>10, <2>1 DEF LeftOf
  <2> QED
      BY <2>2
<1>11. CASE s[k][2] # o
  <2> DEFINE q == f[k-1]
  <2>1. f[k] = Append(q, s[k])
      BY <1>2, <1>7, <1>11
  <2>2. q \in Seq(Nodes) /\ Once(q) /\ s[k] \in Nodes
      BY <1>1, <1>7, <1>8 DEF LeftOf
  <2>3. ~In(q, s[k])
    <3>1. \A j \in 1..k - 1 : s[j] # s[k]
        BY <1>1, <1>7 DEF Once
    <3> QED
        BY <1>8, <2>2, <3>1 DEF LeftOf
  <2>4. /\ f[k] \in Seq(Nodes) /\ Once(f[k])
        /\ \A m : In(f[k], m) <=> In(q, m) \/ m = s[k]
        /\ \A a, b : Before(q, a, b) => Before(f[k], a, b)
        /\ \A a : In(q, a) => Before(f[k], a, s[k])
    <3> HIDE DEF q
    <3> QED
        BY <2>1, <2>2, <2>3, Appended
  <2>5. \A n \in Nodes : In(f[k], n) <=> n[2] # o /\ \E j \in 1..k : s[j] = n
      BY <1>8, <1>9, <1>11, <2>4 DEF LeftOf
  <2>6. ASSUME NEW i \in 1..k, NEW j \in 1..k, i < j, s[i][2] # o, s[j][2] # o
        PROVE  Before(f[k], s[i], s[j])
    <3>1. i \in 1..k - 1 /\ s[i] \in Nodes
        BY <1>1, <1>7, <2>6
    <3>2. CASE j = k
      <4>1. In(q, s[i])
          BY <1>8, <2>6, <3>1 DEF LeftOf
      <4> QED
          BY <2>4, <3>2, <4>1
    <3>3. CASE j # k
      <4>1. j \in 1..k - 1
          BY <1>7, <3>3
      <4>2. Before(q, s[i], s[j])
          BY <1>8, <2>6, <3>1, <4>1 DEF LeftOf
      <4> QED
          BY <2>4, <4>2
    <3> QED
        BY <3>2, <3>3
  <2>7. LeftOf(f[k], s, k, o)
      BY <2>4, <2>5, <2>6 DEF LeftOf
  <2> QED
      BY <2>7
<1> QED
    BY <1>10, <1>11

LEMMA Deregistered ==
    ASSUME listeners \in Seq(Nodes), Once(listeners), NEW o, NEW r, r = deregistr(o)
    PROVE  /\ r \in Seq(Nodes) /\ Once(r)
           /\ \A n \in Nodes : In(r, n) <=> In(listeners, n) /\ n[2] # o
           /\ \A a, b \in Nodes : Before(listeners, a, b) /\ a[2] # o /\ b[2] # o => Before(r, a, b)
<1>1. Len(listeners) \in Nat
    OBVIOUS
<1>2. PICK f : Unlinks(f, listeners, o) /\ r = f[Len(listeners)]
  <2>1. \E f : Unlinks(f, listeners, o)
      BY <1>1, UnlinksRun
  <2>2. Unlinks(CHOOSE f : Unlinks(f, listeners, o), listeners, o)
      BY <2>1
  <2> QED
      BY <2>2, DeregistrLoop
<1>3. Len(listeners) \in 0..Len(listeners)
    BY <1>1
<1>4. LeftOf(r, listeners, Len(listeners), o)
    BY <1>2, <1>3, UnlinksLeave
<1>5. \A n \in Nodes : In(r, n) <=> n[2] # o /\ In(listeners, n)
  <2>1. \A n : In(listeners, n) <=> \E j \in 1..Len(listeners) : listeners[j] = n
      BY DEF In
  <2> QED
      BY <1>4, <2>1 DEF LeftOf
<1>6. \A a, b \in Nodes : Before(listeners, a, b) /\ a[2] # o /\ b[2] # o => Before(r, a, b)
  <2>1. ASSUME NEW i \in 1..Len(listeners), NEW j \in 1..Len(listeners), i < j,
               listeners[i][2] # o, listeners[j][2] # o
        PROVE  Before(r, listeners[i], listeners[j])
      BY <1>4, <2>1 DEF LeftOf
  <2>2. ASSUME NEW a, NEW b, Before(listeners, a, b)
        PROVE  \E i, j \in 1..Len(listeners) : i < j /\ listeners[i] = a /\ listeners[j] = b
      BY <2>2 DEF Before
  <2> QED
      BY <2>1, <2>2
<1> QED
    BY <1>4, <1>5, <1>6 DEF LeftOf

(* The nodes of an object *)

LastEvent(kind) ==
    IF kind \in LanKinds THEN "LAN_DELETE_SELF"
    ELSE IF kind = "WLAN_WAN" THEN "WLAN_LINK_DOWN" ELSE "LINK_DOWN"

\* "IPA_LAN_DELETE_SELF should be always last": the event on which an object goes is
\* the last it is registered for.
LEMMA NodesOfKind ==
    ASSUME NEW kind \in Kinds, NEW o \in Objs, NEW nodes, nodes = NodesOf(kind, o)
    PROVE  /\ nodes \in Seq(Nodes) /\ Once(nodes)
           /\ \A n : In(nodes, n) => n[2] = o /\ Reaches(nodes, n, <<LastEvent(kind), o>>)
           /\ In(nodes, <<LastEvent(kind), o>>)
<1> DEFINE reg == Registrations(kind)
           N == Len(reg)
<1>1. /\ reg \in Seq(Events) /\ N \in Nat /\ N >= 1 /\ reg[N] = LastEvent(kind)
      /\ \A j, k \in 1..N : reg[j] = reg[k] => j = k
  <2>1. CASE kind \in LanKinds
    <3>1. PICK e \in {"LINK_DOWN", "WLAN_LINK_DOWN"} : reg = <<"ADDR_ADD", e, "LAN_DELETE_SELF">>
        BY <2>1 DEF Registrations, LanKinds
    <3>2. N = 3 /\ reg[1] = "ADDR_ADD" /\ reg[2] = e /\ reg[3] = "LAN_DELETE_SELF" /\ reg \in Seq(Events)
        BY <3>1 DEF Events
    <3>3. LastEvent(kind) = "LAN_DELETE_SELF"
        BY <2>1 DEF LastEvent
    <3> HIDE DEF reg, N
    <3> QED
        BY <3>2, <3>3
  <2>2. CASE kind \notin LanKinds
    <3>1. LastEvent(kind) \in {"LINK_DOWN", "WLAN_LINK_DOWN"} /\ reg = <<"ADDR_ADD", LastEvent(kind)>>
        BY <2>2 DEF Registrations, LanKinds, Kinds, LastEvent
    <3>2. N = 2 /\ reg[1] = "ADDR_ADD" /\ reg[2] = LastEvent(kind) /\ reg \in Seq(Events)
        BY <3>1 DEF Events
    <3> HIDE DEF reg, N
    <3> QED
        BY <3>1, <3>2
  <2> QED
      BY <2>1, <2>2
<1>2. nodes = [k \in 1..N |-> <<reg[k], o>>]
    BY DEF NodesOf
<1> HIDE DEF reg, N
<1>3. \A k \in 1..N : reg[k] \in Events /\ <<reg[k], o>> \in Nodes
    BY <1>1 DEF Nodes, N
<1>4. nodes \in Seq(Nodes) /\ Len(nodes) = N /\ \A k \in 1..N : nodes[k] = <<reg[k], o>>
    BY <1>1, <1>2, <1>3
<1>5. Once(nodes)
    BY <1>1, <1>4 DEF Once
<1>6. N \in 1..N /\ nodes[N] = <<LastEvent(kind), o>>
    BY <1>1, <1>4
<1>7. ASSUME NEW k \in 1..N PROVE nodes[k][2] = o /\ Reaches(nodes, nodes[k], <<LastEvent(kind), o>>)
  <2>1. k = N \/ k < N
      BY <1>1
  <2> QED
      BY <1>4, <1>6, <2>1 DEF Reaches, Before
<1> QED
    BY <1>4, <1>5, <1>6, <1>7 DEF In

LEMMA NodesOwn ==
    ASSUME NEW kind \in Kinds, NEW o \in Objs, NEW nodes, nodes = NodesOf(kind, o)
    PROVE  \A k \in 1..Len(nodes) : nodes[k] \in Nodes /\ nodes[k][2] = o
<1>1. nodes \in Seq(Nodes) /\ \A n : In(nodes, n) => n[2] = o
    BY NodesOfKind
<1> QED
    BY <1>1 DEF In

LEMMA LastNode ==
    ASSUME HeapInv, ListInv, NEW o \in live, NEW n, n = <<LastEvent(obj[o].kind), o>>
    PROVE  /\ n \in Nodes /\ In(listeners, n)
           /\ \A m \in Nodes : Before(listeners, n, m) => m[2] # o
<1> DEFINE nodes == NodesOf(obj[o].kind, o)
<1>1. o \in Objs /\ obj[o].kind \in Kinds
    BY DEF HeapInv, Objects
<1>2. /\ nodes \in Seq(Nodes) /\ In(nodes, n)
      /\ \A m : In(nodes, m) => m[2] = o /\ Reaches(nodes, m, n)
    BY <1>1, NodesOfKind
<1>3. n \in Nodes /\ n[2] = o
    BY <1>2 DEF In
<1>4. /\ \A m \in Nodes : m[2] = o => (In(listeners, m) <=> In(nodes, m))
      /\ \A j, k \in 1..Len(nodes) : j < k => Before(listeners, nodes[j], nodes[k])
    BY DEF ListInv, HasNodes
<1>5. In(listeners, n)
    BY <1>2, <1>3, <1>4
<1> HIDE DEF nodes
<1>6. ASSUME NEW m \in Nodes, Before(listeners, n, m), m[2] = o PROVE FALSE
  <2>1. In(nodes, m)
      BY <1>4, <1>6, BeforeIn
  <2>2. m = n \/ Before(nodes, m, n)
      BY <1>2, <2>1 DEF Reaches
  <2>3. ASSUME Before(nodes, m, n) PROVE Before(listeners, m, n)
    <3>1. PICK j, k \in 1..Len(nodes) : j < k /\ nodes[j] = m /\ nodes[k] = n
        BY <2>3 DEF Before
    <3> QED
        BY <1>4, <3>1
  <2>4. listeners \in Seq(Nodes) /\ Once(listeners)
      BY DEF ListInv
  <2> QED
      BY <1>6, <2>2, <2>3, <2>4, BeforeOrder
<1> QED
    BY <1>3, <1>5, <1>6

LEMMA DeleteNodeThere ==
    ASSUME HeapInv, ListInv, NEW o \in live, obj[o].kind \in LanKinds
    PROVE  DeleteNode(o) \in Nodes /\ In(listeners, DeleteNode(o))
<1>1. DeleteNode(o) = <<LastEvent(obj[o].kind), o>>
    BY DEF DeleteNode, LastEvent
<1> QED
    BY <1>1, LastNode

(* Steps *)

LEMMA PresentIfaces ==
    ASSUME QueuesInv
    PROVE  present \subseteq Ifaces /\ NULL \notin OutsideEvents /\ NULL \notin DeleteEvents
BY IfacesAssumption, NullAssumption DEF QueuesInv, OutsideEvents, DeleteEvents, Queued, Events

\* Steps that leave the registries alone.
LEMMA SameRegistry ==
    ASSUME IfaceInv, UNCHANGED <<registry, present>>, LinksInv', QueuesInv', WalkInv', TeardownInv'
    PROVE  IfaceInv'
<1>1. UNCHANGED <<listeners, instances, obj, if_cat, num_wlan_ap_iface, present>>
    BY DEF registry
<1>2. live' = live
    BY <1>1 DEF live
<1>3. HeapInv'
    BY <1>1, <1>2 DEF IfaceInv, HeapInv
<1>4. ListInv'
    BY <1>1, <1>2 DEF IfaceInv, ListInv
<1>5. AccessPoints' = AccessPoints
    BY <1>1, <1>2 DEF AccessPoints
<1>6. RolesInv'
    BY <1>1, <1>2, <1>5 DEF IfaceInv, RolesInv, CategoriesInv
<1> QED
    BY <1>3, <1>4, <1>6 DEF IfaceInv

LEMMA TeardownSame ==
    ASSUME TeardownInv, UNCHANGED <<internal, evt, cursor, listeners, obj>>
    PROVE  TeardownInv'
<1>1. live' = live /\ (\A i : Inactive(i)' <=> Inactive(i)) /\ \A o : DeleteOf(o)' = DeleteOf(o)
    BY DEF live, Inactive, DeleteOf, Evt
<1> QED
    BY <1>1 DEF TeardownInv

LEMMA OutsideStep == IfaceInv /\ Outside /\ UNCHANGED present => IfaceInv'
<1> SUFFICES ASSUME IfaceInv, Outside, UNCHANGED present
             PROVE  IfaceInv'
    OBVIOUS
<1>1. present \subseteq Ifaces /\ external \in Seq(OutsideEvents)
    BY PresentIfaces DEF IfaceInv, QueuesInv
<1>2. ASSUME NEW i \in present PROVE \A e \in Events \ {"LAN_DELETE_SELF"} : Evt(e, i) \in OutsideEvents
    BY DEF Evt, OutsideEvents
<1>3. ASSUME NEW es \in Seq(OutsideEvents), PostExternal(es) PROVE external' \in Seq(OutsideEvents)
    BY <1>1, <1>3 DEF PostExternal
<1>4. ASSUME NEW i \in present, NEW a, NEW b PROVE NewLinkEvents(i, a, b) \in Seq(OutsideEvents)
  <2>1. /\ Evt("LINK_DOWN", i) \in OutsideEvents /\ Evt("LINK_UP", i) \in OutsideEvents
        /\ Evt("USB_LINK_UP", i) \in OutsideEvents
      BY <1>2 DEF Events
  <2> QED
      BY <2>1 DEF NewLinkEvents
<1>5. /\ UNCHANGED <<internal, evt, cursor, registry>> /\ external' \in Seq(OutsideEvents)
      /\ LinksInv'
  <2>1. ASSUME NEW i \in present, NEW s \in {"down", "up", "running"}, NewLink(i, s)
        PROVE  UNCHANGED <<internal, evt, cursor, registry>> /\ external' \in Seq(OutsideEvents) /\ LinksInv'
      BY <1>1, <1>3, <1>4, <2>1 DEF NewLink, LinksInv, IfaceInv
  <2>2. ASSUME NEW i \in present, DelLink(i)
        PROVE  UNCHANGED <<internal, evt, cursor, registry>> /\ external' \in Seq(OutsideEvents) /\ LinksInv'
    <3>1. <<Evt("LINK_DOWN", i)>> \in Seq(OutsideEvents)
        BY <1>2 DEF Events
    <3> QED
        BY <1>3, <2>2, <3>1 DEF DelLink, LinksInv, IfaceInv, env
  <2>3. ASSUME NEW i \in present, NewAddr(i)
        PROVE  UNCHANGED <<internal, evt, cursor, registry>> /\ external' \in Seq(OutsideEvents) /\ LinksInv'
    <3>1. <<Evt("ADDR_ADD", i)>> \in Seq(OutsideEvents)
        BY <1>2 DEF Events
    <3> QED
        BY <1>1, <1>3, <2>3, <3>1 DEF NewAddr, LinksInv, IfaceInv
  <2>4. ASSUME NEW i \in present, DelAddr(i)
        PROVE  UNCHANGED <<internal, evt, cursor, registry>> /\ external' \in Seq(OutsideEvents) /\ LinksInv'
      BY <1>1, <2>4 DEF DelAddr, LinksInv, IfaceInv
  <2>5. ASSUME NEW i \in present \cap WlanIfs, NEW mode \in {"ap", "sta"}, WlanConnect(i, mode)
        PROVE  UNCHANGED <<internal, evt, cursor, registry>> /\ external' \in Seq(OutsideEvents) /\ LinksInv'
    <3>1. <<Evt(IF mode = "ap" THEN "AP_LINK_UP" ELSE "STA_LINK_UP", i)>> \in Seq(OutsideEvents)
        BY <1>2 DEF Events
    <3> QED
        BY <1>3, <2>5, <3>1 DEF WlanConnect, LinksInv, IfaceInv
  <2>6. ASSUME NEW i \in present \cap WlanIfs, WlanDisconnect(i)
        PROVE  UNCHANGED <<internal, evt, cursor, registry>> /\ external' \in Seq(OutsideEvents) /\ LinksInv'
    <3>1. <<Evt("WLAN_LINK_DOWN", i)>> \in Seq(OutsideEvents)
        BY <1>2 DEF Events
    <3> QED
        BY <1>3, <2>6, <3>1 DEF WlanDisconnect, LinksInv, IfaceInv
  <2> QED
      BY <2>1, <2>2, <2>3, <2>4, <2>5, <2>6 DEF Outside
<1>6. QueuesInv'
    BY <1>5 DEF IfaceInv, QueuesInv, OutsideEvents, DeleteEvents
<1>7. WalkInv'
    BY <1>5 DEF IfaceInv, WalkInv, registry
<1>8. TeardownInv'
    BY <1>5, TeardownSame DEF IfaceInv, registry
<1> QED
    BY <1>5, <1>6, <1>7, <1>8, SameRegistry

(* The command-queue thread *)

LEMMA HeadOfList ==
    ASSUME ListInv
    PROVE  /\ Head(listeners) \in Nodes /\ In(listeners, Head(listeners))
           /\ \A n \in Nodes : In(listeners, n) => Reaches(listeners, Head(listeners), n)
<1>1. listeners \in Seq(Nodes) /\ Len(listeners) \in Nat /\ In(listeners, <<"LINK_UP", Manager>>)
    BY DEF ListInv, ManagerEvents
<1>2. 1 \in 1..Len(listeners) /\ listeners # << >>
    BY <1>1 DEF In
<1>3. Head(listeners) = listeners[1] /\ listeners[1] \in Nodes
    BY <1>1, <1>2
<1>4. ASSUME NEW n \in Nodes, In(listeners, n) PROVE Reaches(listeners, listeners[1], n)
  <2>1. PICK k \in 1..Len(listeners) : listeners[k] = n
      BY <1>4 DEF In
  <2>2. k = 1 \/ 1 < k
      BY <1>1
  <2> QED
      BY <1>2, <2>1, <2>2 DEF Reaches, Before
<1> QED
    BY <1>2, <1>3, <1>4 DEF In

LEMMA DeleteOfTyped ==
    ASSUME HeapInv, NEW o \in live
    PROVE  DeleteOf(o) \in DeleteEvents /\ DeleteOf(o).iface = obj[o].iface
           /\ DeleteOf(o).event = "LAN_DELETE_SELF" /\ DeleteOf(o) \notin OutsideEvents
BY DEF HeapInv, DeleteOf, DeleteEvents, OutsideEvents, Evt

LEMMA TakeStep == IfaceInv /\ TakeEvent /\ UNCHANGED present => IfaceInv'
<1> SUFFICES ASSUME IfaceInv, TakeEvent, UNCHANGED present
             PROVE  IfaceInv'
    OBVIOUS
<1>1. /\ UNCHANGED <<registry, listeners, obj, env>> /\ evt = NULL /\ cursor' = Head(listeners)
      /\ HeapInv /\ ListInv /\ QueuesInv /\ TeardownInv
    BY DEF TakeEvent, registry, IfaceInv
<1>2. NULL \notin OutsideEvents /\ NULL \notin DeleteEvents
    BY <1>1, PresentIfaces
<1>3. /\ live' = live /\ (\A i : Inactive(i)' <=> Inactive(i)) /\ (\A o : DeleteOf(o)' = DeleteOf(o))
    BY <1>1 DEF live, Inactive, DeleteOf, Evt
<1>4. LinksInv'
    BY <1>1 DEF IfaceInv, LinksInv, env
<1>5. cursor' \in Nodes /\ In(listeners, cursor') /\ cursor' # NULL
    BY <1>1, HeadOfList, NullAssumption
<1>6. \A o \in live : ~obj[o].active => obj[o].kind \in LanKinds /\ In(internal, DeleteOf(o))
    BY <1>1, <1>2, DeleteOfTyped DEF TeardownInv
<1>7. CASE internal # << >> /\ evt' = Head(internal) /\ internal' = Tail(internal) /\ UNCHANGED external
  <2>1. internal \in Seq(DeleteEvents) /\ Len(internal) \in Nat /\ Len(internal) >= 1
      BY <1>1, <1>7 DEF QueuesInv
  <2>2. /\ evt' = internal[1] /\ evt' \in DeleteEvents /\ internal' \in Seq(DeleteEvents)
        /\ Len(internal') = Len(internal) - 1 /\ \A k \in 1..Len(internal') : internal'[k] = internal[k + 1]
      BY <1>7, <2>1
  <2>3. \A k \in 1..Len(internal') : k + 1 \in 1..Len(internal) /\ k + 1 # 1
      BY <2>1, <2>2
  <2>4. 1 \in 1..Len(internal)
      BY <2>1
  <2>5. QueuesInv'
      BY <1>1, <1>7, <2>2 DEF QueuesInv, OutsideEvents, DeleteEvents
  <2>6. evt' # NULL
      BY <1>2, <2>2
  <2>7. WalkInv'
      BY <1>1, <1>5, <2>6 DEF WalkInv
  <2>8. Once(internal')
    <3> SUFFICES ASSUME NEW j \in 1..Len(internal'), NEW k \in 1..Len(internal'), internal'[j] = internal'[k]
                 PROVE  j = k
        BY DEF Once
    <3>1. j + 1 = k + 1
        BY <1>1, <2>2, <2>3 DEF TeardownInv, Once
    <3> QED
        BY <2>1, <2>2, <3>1
  <2>9. ASSUME NEW k \in 1..Len(internal') PROVE Inactive(internal'[k].iface) /\ internal'[k] # evt'
      BY <1>1, <2>2, <2>3, <2>4 DEF TeardownInv, Once
  <2>10. ASSUME NEW o \in live, ~obj[o].active PROVE In(internal', DeleteOf(o)) \/ evt' = DeleteOf(o)
    <3>1. PICK k \in 1..Len(internal) : internal[k] = DeleteOf(o)
        BY <1>6, <2>10 DEF In
    <3>2. CASE k = 1
        BY <2>2, <3>1, <3>2
    <3>3. CASE k # 1
      <4>1. k - 1 \in 1..Len(internal') /\ k - 1 + 1 = k
          BY <2>1, <2>2, <3>3
      <4>2. internal'[k-1] = DeleteOf(o)
          BY <2>2, <3>1, <4>1
      <4> QED
          BY <4>1, <4>2 DEF In
    <3> QED
        BY <3>2, <3>3
  <2>11. ASSUME NEW o \in live, evt' = DeleteOf(o)
         PROVE  ~obj[o].active /\ Reaches(listeners, cursor', DeleteNode(o))
    <3>1. Inactive(obj[o].iface)
        BY <1>1, <2>2, <2>4, <2>11, DeleteOfTyped DEF TeardownInv
    <3>2. ~obj[o].active
        BY <1>1, <3>1 DEF Inactive, HeapInv
    <3>3. DeleteNode(o) \in Nodes /\ In(listeners, DeleteNode(o))
        BY <1>1, <1>6, <3>2, DeleteNodeThere
    <3> QED
        BY <1>1, <3>2, <3>3, HeadOfList
  <2>12. TeardownInv'
      BY <1>1, <1>3, <1>5, <1>6, <2>8, <2>9, <2>10, <2>11 DEF TeardownInv, DeleteNode
  <2> QED
      BY <1>1, <1>4, <2>5, <2>7, <2>12, SameRegistry
<1>8. CASE internal = << >> /\ external # << >> /\ evt' = Head(external) /\ external' = Tail(external)
           /\ UNCHANGED internal
  <2>1. evt' \in OutsideEvents /\ external' \in Seq(OutsideEvents)
      BY <1>1, <1>8 DEF QueuesInv
  <2>2. QueuesInv'
      BY <1>1, <1>8, <2>1 DEF QueuesInv, OutsideEvents, DeleteEvents
  <2>3. WalkInv'
      BY <1>1, <1>2, <1>5, <2>1 DEF WalkInv
  <2>4. Len(internal) = 0
      BY <1>8
  <2>5. \A o \in live : obj[o].active /\ evt' # DeleteOf(o)
      BY <1>1, <1>6, <2>1, <2>4, DeleteOfTyped DEF In
  <2>6. TeardownInv'
      BY <1>1, <1>3, <1>8, <2>4, <2>5 DEF TeardownInv, Once
  <2> QED
      BY <1>1, <1>4, <2>2, <2>3, <2>6, SameRegistry
<1> QED
    BY <1>7, <1>8 DEF TakeEvent

LEMMA SkipStep == IfaceInv /\ Skip /\ UNCHANGED present => IfaceInv'
<1> SUFFICES ASSUME IfaceInv, Skip, UNCHANGED present
             PROVE  IfaceInv'
    OBVIOUS
<1>1. /\ UNCHANGED <<registry, listeners, obj, env, internal, external, evt>>
      /\ HeapInv /\ ListInv /\ QueuesInv /\ TeardownInv /\ WalkInv /\ cursor # NULL
    BY DEF Skip, registry, IfaceInv
<1>2. cursor' = SkipTo(cursor, evt.event)
    BY DEF Skip, SkipTo
<1>3. /\ live' = live /\ (\A i : Inactive(i)' <=> Inactive(i)) /\ (\A o : DeleteOf(o)' = DeleteOf(o))
    BY <1>1 DEF live, Inactive, DeleteOf, Evt
<1>4. cursor \in Nodes /\ In(listeners, cursor) /\ evt # NULL /\ listeners \in Seq(Nodes) /\ Once(listeners)
    BY <1>1 DEF WalkInv, ListInv
<1>5. /\ cursor' # NULL => cursor' \in Nodes /\ In(listeners, cursor')
      /\ \A b \in Nodes : b[1] = evt.event /\ Reaches(listeners, cursor, b)
                          => cursor' # NULL /\ Reaches(listeners, cursor', b)
    BY <1>2, <1>4, SkipToOf
<1>6. ASSUME NEW o \in live, evt = DeleteOf(o)
      PROVE  cursor' # NULL /\ Reaches(listeners, cursor', DeleteNode(o))
  <2>1. ~obj[o].active /\ Reaches(listeners, cursor, DeleteNode(o)) /\ obj[o].kind \in LanKinds
      BY <1>1, <1>6 DEF TeardownInv
  <2>2. DeleteNode(o) \in Nodes /\ DeleteNode(o)[1] = evt.event
      BY <1>1, <1>6, <2>1, DeleteNodeThere, DeleteOfTyped DEF DeleteNode
  <2> QED
      BY <1>5, <2>1, <2>2
<1>7. TeardownInv'
    BY <1>1, <1>3, <1>6 DEF TeardownInv, DeleteNode
<1>8. LinksInv' /\ QueuesInv' /\ WalkInv'
    BY <1>1, <1>4, <1>5 DEF IfaceInv, LinksInv, QueuesInv, WalkInv, env, OutsideEvents, DeleteEvents
<1> QED
    BY <1>1, <1>7, <1>8, SameRegistry

LEMMA EndStep == IfaceInv /\ EndOfWalk /\ UNCHANGED present => IfaceInv'
<1> SUFFICES ASSUME IfaceInv, EndOfWalk, UNCHANGED present
             PROVE  IfaceInv'
    OBVIOUS
<1>1. /\ UNCHANGED <<registry, listeners, obj, env, internal, external, cursor>> /\ evt' = NULL
      /\ cursor = NULL /\ HeapInv /\ ListInv /\ QueuesInv /\ TeardownInv
    BY DEF EndOfWalk, registry, IfaceInv
<1>2. /\ live' = live /\ (\A i : Inactive(i)' <=> Inactive(i)) /\ (\A o : DeleteOf(o)' = DeleteOf(o))
    BY <1>1 DEF live, Inactive, DeleteOf, Evt
<1>3. NULL \notin OutsideEvents /\ NULL \notin DeleteEvents /\ \A k \in 1..Len(internal) : internal[k] # NULL
    BY <1>1, PresentIfaces DEF QueuesInv
<1>4. \A o \in live : evt # DeleteOf(o) /\ DeleteOf(o) # NULL
    BY <1>1, <1>3, DeleteOfTyped DEF TeardownInv
<1>5. TeardownInv'
    BY <1>1, <1>2, <1>3, <1>4 DEF TeardownInv
<1>6. LinksInv' /\ QueuesInv' /\ WalkInv'
    BY <1>1 DEF IfaceInv, LinksInv, QueuesInv, WalkInv, env, OutsideEvents, DeleteEvents
<1> QED
    BY <1>1, <1>5, <1>6, SameRegistry

(* The callbacks *)

LEMMA Visited ==
    ASSUME IfaceInv, NEW e, Visiting(e)
    PROVE  /\ cursor \in Nodes /\ In(listeners, cursor) /\ cursor[1] = e /\ cursor' = NextNode(cursor)
           /\ evt # NULL /\ evt \in OutsideEvents \cup DeleteEvents /\ evt.event = e /\ evt.iface \in present
           /\ UNCHANGED <<evt, link, wlan, addr>> /\ (LinksInv' <=> LinksInv)
<1>1. cursor # NULL /\ cursor[1] = e /\ evt.event = e /\ cursor' = NextNode(cursor) /\ UNCHANGED <<evt, link, wlan, addr>>
    BY DEF Visiting, env
<1>2. cursor \in Nodes /\ In(listeners, cursor) /\ evt # NULL /\ evt \in OutsideEvents \cup DeleteEvents
    BY <1>1 DEF IfaceInv, WalkInv, QueuesInv
<1>3. evt.iface \in present
    BY <1>2 DEF OutsideEvents, DeleteEvents
<1> QED
    BY <1>1, <1>2, <1>3 DEF LinksInv

\* The walk goes on at a node that is still there if what follows the cursor stays.
LEMMA WalkOn ==
    ASSUME IfaceInv, cursor \in Nodes, In(listeners, cursor), evt # NULL, evt' = evt,
           cursor' = NextNode(cursor),
           \A n \in Nodes : Before(listeners, cursor, n) => In(listeners', n)
    PROVE  WalkInv'
<1>1. cursor' # NULL => cursor' \in Nodes /\ Before(listeners, cursor, cursor')
    BY NextNodeOf DEF IfaceInv, ListInv
<1> QED
    BY <1>1 DEF WalkInv

\* A callback that leaves the list and the teardown of objects alone.
LEMMA WalkSame ==
    ASSUME IfaceInv, cursor \in Nodes, In(listeners, cursor), evt # NULL, UNCHANGED <<evt, listeners>>,
           cursor' = NextNode(cursor)
    PROVE  WalkInv'
<1>1. \A n \in Nodes : Before(listeners, cursor, n) => In(listeners', n)
    BY BeforeIn
<1> QED
    BY <1>1, WalkOn

LEMMA NotMineStep ==
    ASSUME IfaceInv, UNCHANGED present, NEW o \in Objs, NotMine(o)
    PROVE  IfaceInv'
<1>1. Visiting(evt.event) /\ UNCHANGED <<internal, external, registry, listeners, obj>> /\ cursor[2] = o /\ o \in live
      /\ (obj[o].iface # evt.iface \/ (~obj[o].active /\ evt.event # "LAN_DELETE_SELF"))
    BY DEF NotMine, registry
<1>2. /\ cursor \in Nodes /\ In(listeners, cursor) /\ cursor' = NextNode(cursor)
      /\ evt # NULL /\ evt' = evt /\ LinksInv'
    BY <1>1, Visited DEF IfaceInv
<1>3. WalkInv'
    BY <1>1, <1>2, WalkSame
<1>4. HeapInv /\ ListInv /\ TeardownInv /\ QueuesInv
    BY DEF IfaceInv
<1>5. QueuesInv'
    BY <1>1, <1>2, <1>4 DEF QueuesInv, OutsideEvents, DeleteEvents
<1>6. /\ live' = live /\ (\A i : Inactive(i)' <=> Inactive(i)) /\ (\A q : DeleteOf(q)' = DeleteOf(q))
    BY <1>1 DEF live, Inactive, DeleteOf, Evt
<1>7. ASSUME NEW q \in live, evt = DeleteOf(q)
      PROVE  cursor' # NULL /\ Reaches(listeners, cursor', DeleteNode(q))
  <2>1. Reaches(listeners, cursor, DeleteNode(q)) /\ obj[q].kind \in LanKinds
      BY <1>4, <1>7 DEF TeardownInv
  <2>2. q # o
      BY <1>1, <1>4, <1>7, DeleteOfTyped
  <2>3. cursor # DeleteNode(q)
      BY <1>1, <2>2 DEF DeleteNode
  <2>4. Before(listeners, cursor, DeleteNode(q)) /\ DeleteNode(q) \in Nodes
      BY <1>4, <2>1, <2>3, DeleteNodeThere DEF Reaches
  <2> QED
      BY <1>2, <1>4, <2>4, NextNodeOf DEF ListInv
<1>8. TeardownInv'
    BY <1>1, <1>2, <1>4, <1>6, <1>7 DEF TeardownInv, DeleteNode
<1> QED
    BY <1>1, <1>2, <1>3, <1>5, <1>8, SameRegistry

\* The event being walked is not the end of any object.
LEMMA NoDelete ==
    ASSUME HeapInv, NEW o \in live, evt.event # "LAN_DELETE_SELF"
    PROVE  evt # DeleteOf(o)
BY DeleteOfTyped

\* A callback that changes fields of an object, not the registries.
LEMMA FieldsStep ==
    ASSUME IfaceInv, UNCHANGED <<present, listeners, instances, num_wlan_ap_iface>>,
           live' = live, obj' \in [live -> Objects],
           \A q \in live : obj'[q].kind = obj[q].kind /\ obj'[q].iface = obj[q].iface,
           CategoriesInv', LinksInv', QueuesInv', WalkInv', TeardownInv'
    PROVE  IfaceInv'
<1>1. HeapInv /\ ListInv /\ RolesInv
    BY DEF IfaceInv
<1>2. HeapInv'
  <2>1. {<<obj'[q].iface, q>> : q \in live} = {<<obj[q].iface, q>> : q \in live}
      OBVIOUS
  <2> QED
      BY <1>1, <2>1 DEF HeapInv
<1>3. ListInv'
    BY <1>1 DEF ListInv
<1>4. AccessPoints' = AccessPoints
    BY DEF AccessPoints
<1>5. RolesInv'
    BY <1>1, <1>4 DEF RolesInv
<1> QED
    BY <1>2, <1>3, <1>5 DEF IfaceInv

LEMMA AddrAddStep ==
    ASSUME IfaceInv, UNCHANGED present, NEW o \in Objs, AddrAdd(o)
    PROVE  IfaceInv'
<1>1. /\ Visiting("ADDR_ADD") /\ o \in live /\ obj[o].active /\ obj' = [obj EXCEPT ![o].addr = TRUE]
      /\ UNCHANGED <<internal, external, listeners, instances, if_cat, num_wlan_ap_iface>>
    BY DEF AddrAdd, Own
<1>2. /\ cursor \in Nodes /\ In(listeners, cursor) /\ cursor' = NextNode(cursor)
      /\ evt # NULL /\ evt' = evt /\ evt.event = "ADDR_ADD" /\ LinksInv'
    BY <1>1, Visited DEF IfaceInv
<1>3. HeapInv /\ ListInv /\ TeardownInv /\ QueuesInv /\ RolesInv
    BY DEF IfaceInv
<1>4. /\ live' = live /\ obj' \in [live -> Objects]
      /\ \A q \in live : obj'[q].kind = obj[q].kind /\ obj'[q].iface = obj[q].iface /\ obj'[q].active = obj[q].active
    BY <1>1, <1>3 DEF HeapInv, Objects, live
<1>5. WalkInv'
    BY <1>1, <1>2, WalkSame
<1>6. QueuesInv' /\ CategoriesInv'
    BY <1>1, <1>2, <1>3 DEF QueuesInv, OutsideEvents, DeleteEvents, RolesInv, CategoriesInv
<1>7. \A i : Inactive(i)' <=> Inactive(i)
    BY <1>4 DEF Inactive
<1>8. \A q \in live : DeleteOf(q)' = DeleteOf(q) /\ evt # DeleteOf(q)
    BY <1>2, <1>3, <1>4, NoDelete DEF DeleteOf, Evt
<1>9. TeardownInv'
    BY <1>1, <1>2, <1>3, <1>4, <1>7, <1>8 DEF TeardownInv
<1> QED
    BY <1>1, <1>2, <1>4, <1>5, <1>6, <1>9, FieldsStep

LEMMA LinkDownStep ==
    ASSUME IfaceInv, UNCHANGED present, NEW o \in Objs, LanLinkDown(o)
    PROVE  IfaceInv'
<1>1. /\ o \in live /\ obj[o].active /\ obj' = [obj EXCEPT ![o].active = FALSE] /\ obj[o].kind \in LanKinds
      /\ internal' = Append(internal, DeleteOf(o))
      /\ if_cat' = IF obj[o].kind = "wlan" THEN [if_cat EXCEPT ![obj[o].iface] = "UNKNOWN_IF"] ELSE if_cat
      /\ UNCHANGED <<external, listeners, instances, num_wlan_ap_iface>>
    BY DEF LanLinkDown, Own, post_del_self_evt, DeleteOf, LanKinds
<1>2. PICK e \in {"LINK_DOWN", "WLAN_LINK_DOWN"} : Visiting(e)
    BY DEF LanLinkDown, Own
<1>3. /\ cursor \in Nodes /\ In(listeners, cursor) /\ cursor' = NextNode(cursor)
      /\ evt # NULL /\ evt' = evt /\ evt.event # "LAN_DELETE_SELF" /\ LinksInv'
    BY <1>2, Visited DEF IfaceInv
<1>4. HeapInv /\ ListInv /\ TeardownInv /\ QueuesInv /\ RolesInv
    BY DEF IfaceInv
<1>5. /\ live' = live /\ obj' \in [live -> Objects] /\ ~obj'[o].active
      /\ \A q \in live : obj'[q].kind = obj[q].kind /\ obj'[q].iface = obj[q].iface
      /\ \A q \in live : q # o => obj'[q].active = obj[q].active
    BY <1>1, <1>4 DEF HeapInv, Objects, live
<1>6. WalkInv'
    BY <1>1, <1>3, WalkSame
<1>7. DeleteOf(o) \in DeleteEvents /\ DeleteOf(o).iface = obj[o].iface
    BY <1>1, <1>4, DeleteOfTyped
<1>8. QueuesInv'
    BY <1>1, <1>3, <1>4, <1>7 DEF QueuesInv, OutsideEvents, DeleteEvents
<1>9. CategoriesInv'
  <2>1. obj[o].kind = "wlan" => obj[o].iface \in WlanIfs
      BY <1>1, <1>4 DEF RolesInv
  <2>2. CategoriesInv
      BY <1>4 DEF RolesInv
  <2> QED
      BY <1>1, <2>1, <2>2 DEF CategoriesInv
<1>10. ~In(internal, DeleteOf(o))
  <2>1. ASSUME NEW k \in 1..Len(internal), internal[k] = DeleteOf(o) PROVE FALSE
    <3>1. Inactive(obj[o].iface)
        BY <1>4, <1>7, <2>1 DEF TeardownInv
    <3> QED
        BY <1>1, <1>4, <3>1 DEF Inactive, HeapInv
  <2> QED
      BY <2>1 DEF In
<1>11. /\ Len(internal') = Len(internal) + 1 /\ Len(internal) \in Nat /\ internal'[Len(internal) + 1] = DeleteOf(o)
       /\ \A k \in 1..Len(internal) : internal'[k] = internal[k]
       /\ \A k \in 1..Len(internal') : k \in 1..Len(internal) \/ k = Len(internal) + 1
       /\ 1..Len(internal) \subseteq 1..Len(internal') /\ Len(internal) + 1 \in 1..Len(internal')
    BY <1>1, <1>4 DEF QueuesInv
<1>12. \A q \in live : DeleteOf(q)' = DeleteOf(q) /\ evt # DeleteOf(q)
    BY <1>3, <1>4, <1>5, NoDelete DEF DeleteOf, Evt
<1>13. Once(internal')
  <2>1. Once(internal)
      BY <1>4 DEF TeardownInv
  <2> QED
      BY <1>10, <1>11, <2>1 DEF Once, In
<1>14. ASSUME NEW k \in 1..Len(internal') PROVE Inactive(internal[k].iface)' /\ internal'[k] # evt
  <2>1. CASE k \in 1..Len(internal)
    <3>1. PICK q \in live : obj[q].iface = internal[k].iface /\ ~obj[q].active
        BY <1>4, <2>1 DEF TeardownInv, Inactive
    <3>2. ~obj'[q].active /\ obj'[q].iface = internal'[k].iface
        BY <1>5, <1>11, <2>1, <3>1
    <3> QED
        BY <1>4, <1>5, <1>11, <2>1, <3>2 DEF Inactive, TeardownInv
  <2>2. CASE k = Len(internal) + 1
      BY <1>1, <1>5, <1>7, <1>11, <1>12, <2>2 DEF Inactive
  <2> QED
      BY <1>11, <2>1, <2>2
<1>15. ASSUME NEW q \in live, ~obj'[q].active PROVE obj'[q].kind \in LanKinds /\ In(internal', DeleteOf(q))
  <2>1. CASE q = o
      BY <1>1, <1>5, <1>11, <2>1 DEF In
  <2>2. CASE q # o
    <3>1. obj[q].kind \in LanKinds /\ In(internal, DeleteOf(q))
        BY <1>4, <1>5, <1>12, <1>15, <2>2 DEF TeardownInv
    <3> QED
        BY <1>5, <1>11, <3>1 DEF In
  <2> QED
      BY <2>1, <2>2
<1>16. TeardownInv'
    BY <1>3, <1>5, <1>12, <1>13, <1>14, <1>15 DEF TeardownInv
<1> QED
    BY <1>1, <1>3, <1>5, <1>6, <1>8, <1>9, <1>16, FieldsStep

\* An object goes in the callback for the last of its own nodes: the node the walk
\* goes on with is another object's, and stays.
LEMMA DestroyStep ==
    ASSUME IfaceInv, UNCHANGED <<present, internal, external, evt>>, evt # NULL,
           NEW o \in live, destroy(o), cursor = <<LastEvent(obj[o].kind), o>>, cursor' = NextNode(cursor),
           num_wlan_ap_iface' = num_wlan_ap_iface - IF obj[o].kind = "wlan" THEN 1 ELSE 0,
           \A k \in 1..Len(internal) : internal[k].iface # obj[o].iface,
           \A q \in live : q # o => evt # DeleteOf(q),
           LinksInv', CategoriesInv'
    PROVE  IfaceInv'
<1>1. /\ obj' = [p \in live \ {o} |-> obj[p]] /\ listeners' = deregistr(o)
      /\ instances' = {p \in instances : p[2] # o}
    BY DEF destroy
<1>2. HeapInv /\ ListInv /\ TeardownInv /\ QueuesInv /\ RolesInv
    BY DEF IfaceInv
<1>3. /\ live' = live \ {o} /\ (\A q \in live' : obj'[q] = obj[q]) /\ o \in Objs /\ live \subseteq Objs
      /\ obj \in [live -> Objects]
    BY <1>1, <1>2 DEF live, HeapInv
<1>4. HeapInv'
  <2>1. IsFiniteSet(live')
      BY <1>2, <1>3, FS_RemoveElement DEF HeapInv
  <2>2. obj' \in [live' -> Objects]
    <3>1. obj' \in [live \ {o} -> Objects]
        BY <1>1, <1>3
    <3> QED
        BY <1>3, <3>1
  <2>3. instances' = {<<obj'[q].iface, q>> : q \in live'}
    <3>1. instances = {<<obj[q].iface, q>> : q \in live}
        BY <1>2 DEF HeapInv
    <3>2. {<<obj'[q].iface, q>> : q \in live'} = {<<obj[q].iface, q>> : q \in live \ {o}}
        BY <1>3
    <3>3. {p \in instances : p[2] # o} = {<<obj[q].iface, q>> : q \in live \ {o}}
      <4>1. \A q \in live : <<obj[q].iface, q>>[2] = q
          OBVIOUS
      <4> QED
          BY <3>1, <4>1
    <3> QED
        BY <1>1, <3>2, <3>3
  <2> QED
      BY <1>2, <1>3, <2>1, <2>2, <2>3 DEF HeapInv
<1>5. /\ listeners' \in Seq(Nodes) /\ Once(listeners')
      /\ \A n \in Nodes : In(listeners', n) <=> In(listeners, n) /\ n[2] # o
      /\ \A a, b \in Nodes : Before(listeners, a, b) /\ a[2] # o /\ b[2] # o => Before(listeners', a, b)
    BY <1>1, <1>2, Deregistered DEF ListInv
<1>6. ListInv'
  <2>1. Manager # o /\ \A e \in ManagerEvents : <<e, Manager>> \in Nodes
      BY <1>3, IfacesAssumption DEF Nodes, Events, ManagerEvents
  <2>2. \A e \in ManagerEvents : In(listeners', <<e, Manager>>)
      BY <1>2, <1>5, <2>1 DEF ListInv
  <2>3. ASSUME NEW q \in live' PROVE HasNodes(listeners', NodesOf(obj'[q].kind, q), q)
    <3> DEFINE nodes == NodesOf(obj[q].kind, q)
    <3>1. q \in live /\ q # o /\ q \in Objs /\ obj[q].kind \in Kinds /\ obj'[q] = obj[q]
        BY <1>3 DEF Objects
    <3>2. HasNodes(listeners, nodes, q)
        BY <1>2, <3>1 DEF ListInv
    <3>3. nodes = NodesOf(obj[q].kind, q)
        OBVIOUS
    <3> HIDE DEF nodes
    <3>4. \A k \in 1..Len(nodes) : nodes[k] \in Nodes /\ nodes[k][2] = q
        BY <3>1, <3>3, NodesOwn
    <3>5. HasNodes(listeners', nodes, q)
        BY <1>5, <3>1, <3>2, <3>3, <3>4 DEF HasNodes
    <3> QED
        BY <3>1, <3>5 DEF nodes
  <2>4. \A n \in Nodes : In(listeners', n) => n[2] \in live' \cup {Manager}
      BY <1>2, <1>3, <1>5 DEF ListInv
  <2> QED
      BY <1>5, <2>2, <2>3, <2>4 DEF ListInv
<1>7. WalkInv'
  <2>1. cursor \in Nodes /\ In(listeners, cursor) /\ \A m \in Nodes : Before(listeners, cursor, m) => m[2] # o
      BY <1>2, LastNode
  <2>2. \A n \in Nodes : Before(listeners, cursor, n) => In(listeners', n)
      BY <1>5, <2>1, BeforeIn
  <2> QED
      BY <2>1, <2>2, WalkOn
<1>8. QueuesInv'
    BY <1>2 DEF QueuesInv, OutsideEvents, DeleteEvents
<1>9. TeardownInv'
  <2>1. \A q \in live' : DeleteOf(q)' = DeleteOf(q) /\ evt # DeleteOf(q) /\ q \in live
      BY <1>3 DEF DeleteOf, Evt
  <2>2. ASSUME NEW k \in 1..Len(internal) PROVE Inactive(internal[k].iface)'
    <3>1. PICK q \in live : obj[q].iface = internal[k].iface /\ ~obj[q].active
        BY <1>2 DEF TeardownInv, Inactive
    <3>2. q # o
        BY <3>1
    <3> QED
        BY <1>3, <3>1, <3>2 DEF Inactive
  <2> QED
      BY <1>2, <1>3, <2>1, <2>2 DEF TeardownInv
<1>10. RolesInv'
  <2> DEFINE A == AccessPoints
  <2>1. IsFiniteSet(A) /\ num_wlan_ap_iface = Cardinality(A)
      BY <1>2, FS_Subset DEF HeapInv, RolesInv, AccessPoints
  <2>2. AccessPoints' = A \ {o} /\ (o \in A <=> obj[o].kind = "wlan")
      BY <1>3 DEF AccessPoints
  <2>3. num_wlan_ap_iface' = Cardinality(A \ {o})
    <3> HIDE DEF A
    <3>1. Cardinality(A) \in Nat
        BY <2>1, FS_CardinalityType
    <3>2. CASE o \in A
      <4>1. Cardinality(A \ {o}) = Cardinality(A) - 1
          BY <2>1, <3>2, FS_RemoveElement
      <4> QED
          BY <2>1, <2>2, <3>1, <3>2, <4>1
    <3>3. CASE o \notin A
      <4>1. A \ {o} = A
          BY <3>3
      <4>2. num_wlan_ap_iface' = num_wlan_ap_iface
          BY <2>1, <2>2, <3>1, <3>3
      <4> QED
          BY <2>1, <4>1, <4>2
    <3> QED
        BY <3>2, <3>3
  <2> QED
      BY <1>2, <1>3, <2>2, <2>3 DEF RolesInv
<1> QED
    BY <1>4, <1>6, <1>7, <1>8, <1>9, <1>10 DEF IfaceInv

LEMMA DeleteSelfStep ==
    ASSUME IfaceInv, UNCHANGED present, NEW o \in Objs, LanDeleteSelf(o)
    PROVE  IfaceInv'
<1>1. /\ Visiting("LAN_DELETE_SELF") /\ o \in live /\ destroy(o) /\ UNCHANGED <<internal, external, if_cat>>
      /\ num_wlan_ap_iface' = num_wlan_ap_iface - IF obj[o].kind = "wlan" THEN 1 ELSE 0
      /\ cursor[2] = o /\ obj[o].iface = evt.iface /\ obj[o].kind \in LanKinds
    BY DEF LanDeleteSelf, Own
<1>2. /\ cursor \in Nodes /\ cursor[1] = "LAN_DELETE_SELF" /\ cursor' = NextNode(cursor) /\ LinksInv' /\ evt' = evt
      /\ evt # NULL /\ evt \in OutsideEvents \cup DeleteEvents /\ evt.event = "LAN_DELETE_SELF"
    BY <1>1, Visited DEF IfaceInv
<1>3. HeapInv /\ TeardownInv /\ QueuesInv /\ RolesInv
    BY DEF IfaceInv
<1>4. cursor = <<LastEvent(obj[o].kind), o>>
    BY <1>1, <1>2 DEF Nodes, LastEvent
<1>5. evt \in DeleteEvents /\ evt = DeleteOf(o)
    BY <1>1, <1>2 DEF OutsideEvents, DeleteEvents, DeleteOf, Evt
<1>6. \A k \in 1..Len(internal) : internal[k].iface # obj[o].iface
  <2>1. \A k \in 1..Len(internal) : internal[k] \in DeleteEvents /\ internal[k] # evt
      BY <1>3 DEF TeardownInv, QueuesInv
  <2>2. \A x, y \in DeleteEvents : x.iface = y.iface => x = y
      BY DEF DeleteEvents
  <2> QED
      BY <1>1, <1>5, <2>1, <2>2
<1>7. \A q \in live : q # o => evt # DeleteOf(q)
  <2>1. \A q \in live : DeleteOf(q).iface = obj[q].iface
      BY <1>3, DeleteOfTyped
  <2> QED
      BY <1>1, <1>3, <2>1 DEF HeapInv
<1>8. CategoriesInv'
    BY <1>1, <1>3 DEF RolesInv, CategoriesInv
<1> QED
    BY <1>1, <1>2, <1>4, <1>6, <1>7, <1>8, DestroyStep

LEMMA WanDownStep ==
    ASSUME IfaceInv, UNCHANGED present, NEW o \in Objs, WanLinkDown(o)
    PROVE  IfaceInv'
<1>1. /\ o \in live /\ destroy(o) /\ UNCHANGED <<internal, external, num_wlan_ap_iface>> /\ cursor[2] = o
      /\ if_cat' = IF obj[o].kind = "WLAN_WAN"
                   THEN [if_cat EXCEPT ![obj[o].iface] = "UNKNOWN_IF"] ELSE if_cat
    BY DEF WanLinkDown, Own
<1>2. PICK e \in {"LINK_DOWN", "WLAN_LINK_DOWN"} :
        Visiting(e) /\ LastEvent(obj[o].kind) = e /\ obj[o].kind \notin LanKinds
    BY DEF WanLinkDown, Own, LastEvent, LanKinds
<1>3. /\ cursor \in Nodes /\ cursor[1] = e /\ cursor' = NextNode(cursor) /\ LinksInv' /\ evt' = evt
      /\ evt # NULL /\ evt.event # "LAN_DELETE_SELF"
    BY <1>2, Visited DEF IfaceInv
<1>4. HeapInv /\ TeardownInv /\ RolesInv
    BY DEF IfaceInv
<1>5. cursor = <<LastEvent(obj[o].kind), o>>
    BY <1>1, <1>2, <1>3 DEF Nodes
<1>6. \A k \in 1..Len(internal) : internal[k].iface # obj[o].iface
  <2>1. obj[o].active
      BY <1>1, <1>2, <1>4 DEF TeardownInv
  <2>2. \A k \in 1..Len(internal) : Inactive(internal[k].iface)
      BY <1>4 DEF TeardownInv
  <2> QED
      BY <1>1, <1>4, <2>1, <2>2 DEF Inactive, HeapInv
<1>7. \A q \in live : q # o => evt # DeleteOf(q)
    BY <1>3, <1>4, NoDelete
<1>8. CategoriesInv'
  <2>1. obj[o].kind = "WLAN_WAN" => obj[o].iface \in WlanIfs
      BY <1>1, <1>4 DEF RolesInv
  <2>2. CategoriesInv
      BY <1>4 DEF RolesInv
  <2> QED
      BY <1>1, <2>1, <2>2 DEF CategoriesInv
<1>9. num_wlan_ap_iface' = num_wlan_ap_iface - IF obj[o].kind = "wlan" THEN 1 ELSE 0
  <2>1. num_wlan_ap_iface \in Nat
      BY <1>4, FS_Subset, FS_CardinalityType DEF RolesInv, HeapInv, AccessPoints
  <2>2. obj[o].kind # "wlan"
      BY <1>2 DEF LanKinds
  <2> QED
      BY <1>1, <2>1, <2>2
<1> QED
    BY <1>1, <1>3, <1>5, <1>6, <1>7, <1>8, <1>9, DestroyStep

(* The interface manager *)

\* A device with at most two access points never meets the failing constructor.
LEMMA ConstructorRuns ==
    ASSUME TwoAccessPoints, IfaceInv, NEW i \in present, ~Found(i), NEW kind,
           kind = "wlan" => i \in WlanIfs
    PROVE  ~ConstructorFails(kind)
<1> SUFFICES ASSUME kind = "wlan", num_wlan_ap_iface > 1
             PROVE  FALSE
    BY DEF ConstructorFails
<1> DEFINE A == AccessPoints
<1>1. HeapInv /\ RolesInv /\ present \in Deployments
    BY DEF IfaceInv, QueuesInv
<1>2. IsFiniteSet(A) /\ num_wlan_ap_iface = Cardinality(A) /\ A \subseteq live
    BY <1>1, FS_Subset DEF HeapInv, RolesInv, AccessPoints
<1>3. PICK a \in A, b \in A : a # b
  <2> SUFFICES ASSUME \A x, y \in A : x = y PROVE FALSE
      OBVIOUS
  <2> HIDE DEF A
  <2>1. CASE A = {}
      BY <1>2, <2>1, FS_EmptySet
  <2>2. CASE A # {}
    <3>1. PICK x \in A : TRUE
        BY <2>2
    <3>2. A = {x}
        BY <3>1
    <3> QED
        BY <1>2, <3>2, FS_Singleton
  <2> QED
      BY <2>1, <2>2
<1>4. a \in live /\ b \in live /\ obj[a].iface \in present \cap WlanIfs /\ obj[b].iface \in present \cap WlanIfs
    BY <1>1, <1>2 DEF AccessPoints, HeapInv, RolesInv
<1>5. obj[a].iface # obj[b].iface
    BY <1>1, <1>3, <1>4 DEF HeapInv
<1>6. \A q \in live : obj[q].iface # i
  <2>1. \A q \in live : <<obj[q].iface, q>> \in instances /\ q \in Objs
      BY <1>1 DEF HeapInv
  <2> QED
      BY <2>1 DEF Found
<1> QED
    BY <1>1, <1>4, <1>5, <1>6 DEF TwoAccessPoints

\* The registries after an object for interface i was made.
LEMMA NewInstance ==
    ASSUME IfaceInv, UNCHANGED <<present, internal, evt>>, evt \in OutsideEvents,
           cursor \in Nodes, In(listeners, cursor), cursor' = NextNode(cursor),
           NEW i \in present, ~Found(i), NEW kind \in Kinds,
           kind \in {"wlan", "WLAN_WAN"} => i \in WlanIfs, NEW o \in Objs \ live,
           obj' = NewObject(o, kind, i),
           num_wlan_ap_iface' = num_wlan_ap_iface + IF kind = "wlan" THEN 1 ELSE 0,
           listeners' = listeners \o NodesOf(kind, o), instances' = instances \cup {<<i, o>>},
           external' \in Seq(OutsideEvents), LinksInv', CategoriesInv'
    PROVE  IfaceInv'
<1> DEFINE new == [kind |-> kind, iface |-> i, active |-> TRUE, addr |-> FALSE]
           nodes == NodesOf(kind, o)
<1>1. HeapInv /\ ListInv /\ TeardownInv /\ QueuesInv /\ RolesInv /\ present \subseteq Ifaces /\ evt # NULL
    BY PresentIfaces DEF IfaceInv
<1>2. /\ live' = live \cup {o} /\ obj'[o] = new /\ \A q \in live : obj'[q] = obj[q]
      /\ obj' = [p \in live \cup {o} |-> obj'[p]] /\ live \subseteq Objs
    BY <1>1 DEF NewObject, live, HeapInv
<1>3. /\ new \in Objects /\ new.kind = kind /\ new.iface = i /\ new.active
    BY <1>1 DEF Objects
<1>4. nodes = NodesOf(kind, o)
    OBVIOUS
<1> HIDE DEF new, nodes
<1>5. \A q \in live : obj[q].iface # i /\ obj[q] \in Objects
  <2>1. \A q \in live : <<obj[q].iface, q>> \in instances /\ q \in Objs /\ obj[q] \in Objects
      BY <1>1 DEF HeapInv
  <2> QED
      BY <2>1 DEF Found
<1>6. HeapInv'
  <2>1. IsFiniteSet(live')
      BY <1>1, <1>2, FS_AddElement DEF HeapInv
  <2>2. obj' \in [live' -> Objects]
    <3>1. \A p \in live \cup {o} : obj'[p] \in Objects
        BY <1>2, <1>3, <1>5
    <3> QED
        BY <1>2, <3>1
  <2>3. instances' = {<<obj'[q].iface, q>> : q \in live'}
    <3>1. instances = {<<obj[q].iface, q>> : q \in live}
        BY <1>1 DEF HeapInv
    <3>2. {<<obj'[q].iface, q>> : q \in live'} = {<<obj[q].iface, q>> : q \in live} \cup {<<i, o>>}
        BY <1>2, <1>3
    <3> QED
        BY <3>1, <3>2
  <2> QED
      BY <1>1, <1>2, <1>3, <1>5, <2>1, <2>2, <2>3 DEF HeapInv
<1>7. nodes \in Seq(Nodes) /\ Once(nodes) /\ \A n : In(nodes, n) => n[2] = o
    BY <1>4, NodesOfKind
<1>8. listeners \in Seq(Nodes) /\ Once(listeners) /\ \A n \in Nodes : In(listeners, n) => n[2] # o
    BY <1>1, IfacesAssumption DEF ListInv
<1>9. /\ listeners' \in Seq(Nodes) /\ Once(listeners')
      /\ \A n : In(listeners', n) <=> In(listeners, n) \/ In(nodes, n)
      /\ \A a, b : Before(listeners, a, b) \/ Before(nodes, a, b) => Before(listeners', a, b)
  <2>1. listeners' = listeners \o nodes
      BY <1>4
  <2> QED
      BY <1>7, <1>8, <2>1, Joined
<1>10. ListInv'
  <2>1. ASSUME NEW q \in live PROVE HasNodes(listeners', NodesOf(obj'[q].kind, q), q)
    <3> DEFINE mine == NodesOf(obj[q].kind, q)
    <3>1. HasNodes(listeners, mine, q)
        BY <1>1 DEF ListInv
    <3> HIDE DEF mine
    <3>2. q # o
        OBVIOUS
    <3>3. HasNodes(listeners', mine, q)
        BY <1>7, <1>9, <3>1, <3>2 DEF HasNodes
    <3> QED
        BY <1>2, <3>3 DEF mine
  <2>2. HasNodes(listeners', nodes, o)
    <3>1. ASSUME NEW j \in 1..Len(nodes), NEW k \in 1..Len(nodes), j < k
          PROVE  Before(listeners', nodes[j], nodes[k])
      <4>1. Before(nodes, nodes[j], nodes[k])
          BY <3>1 DEF Before
      <4> QED
          BY <1>9, <4>1
    <3> QED
        BY <1>8, <1>9, <3>1 DEF HasNodes
  <2>3. \A q \in live' : HasNodes(listeners', NodesOf(obj'[q].kind, q), q)
      BY <1>2, <1>3, <1>4, <2>1, <2>2
  <2>4. \A n \in Nodes : In(listeners', n) => n[2] \in live' \cup {Manager}
      BY <1>1, <1>2, <1>7, <1>9 DEF ListInv
  <2>5. \A e \in ManagerEvents : In(listeners', <<e, Manager>>)
      BY <1>1, <1>9 DEF ListInv
  <2> QED
      BY <1>9, <2>3, <2>4, <2>5 DEF ListInv
<1>11. WalkInv'
  <2>1. \A n \in Nodes : Before(listeners, cursor, n) => In(listeners', n)
      BY <1>9, BeforeIn
  <2> QED
      BY <1>1, <2>1, WalkOn
<1>12. QueuesInv'
    BY <1>1 DEF QueuesInv, OutsideEvents, DeleteEvents
<1>13. TeardownInv'
  <2>1. ASSUME NEW q \in live PROVE DeleteOf(q)' = DeleteOf(q) /\ evt # DeleteOf(q)
      BY <1>1, <1>2, DeleteOfTyped DEF DeleteOf, Evt
  <2>2. evt # DeleteOf(o)'
      BY DEF OutsideEvents, DeleteOf, Evt
  <2>3. \A k \in 1..Len(internal) : Inactive(internal[k].iface)'
    <3> TAKE k \in 1..Len(internal)
    <3>1. PICK q \in live : obj[q].iface = internal[k].iface /\ ~obj[q].active
        BY <1>1 DEF TeardownInv, Inactive
    <3> QED
        BY <1>2, <3>1 DEF Inactive
  <2>4. Once(internal') /\ \A k \in 1..Len(internal') : internal'[k] # evt'
      BY <1>1 DEF TeardownInv
  <2>5. ASSUME NEW q \in live', ~obj'[q].active
        PROVE  obj'[q].kind \in LanKinds /\ In(internal, DeleteOf(q)')
    <3>1. q \in live
        BY <1>2, <1>3, <2>5
    <3> QED
        BY <1>1, <1>2, <2>1, <2>5, <3>1 DEF TeardownInv
  <2>6. \A q \in live' : evt' # DeleteOf(q)'
      BY <1>2, <2>1, <2>2
  <2> QED
      BY <2>3, <2>4, <2>5, <2>6 DEF TeardownInv
<1>14. RolesInv'
  <2> DEFINE A == AccessPoints
  <2>1. IsFiniteSet(A) /\ num_wlan_ap_iface = Cardinality(A)
      BY <1>1, FS_Subset DEF HeapInv, RolesInv, AccessPoints
  <2>2. AccessPoints' = (IF kind = "wlan" THEN A \cup {o} ELSE A) /\ o \notin A
      BY <1>2, <1>3 DEF AccessPoints
  <2>3. num_wlan_ap_iface' = Cardinality(AccessPoints')
    <3> HIDE DEF A
    <3>1. Cardinality(A) \in Nat
        BY <2>1, FS_CardinalityType
    <3>2. CASE kind = "wlan"
      <4>1. Cardinality(A \cup {o}) = Cardinality(A) + 1
          BY <2>1, <2>2, FS_AddElement
      <4> QED
          BY <2>1, <2>2, <3>2, <4>1
    <3>3. CASE kind # "wlan"
      <4>1. num_wlan_ap_iface' = num_wlan_ap_iface /\ AccessPoints' = A
          BY <2>1, <2>2, <3>1, <3>3
      <4> QED
          BY <2>1, <4>1
    <3> QED
        BY <3>2, <3>3
  <2>4. \A q \in live' : obj'[q].kind \in {"wlan", "WLAN_WAN"} => obj'[q].iface \in WlanIfs
      BY <1>1, <1>2, <1>3 DEF RolesInv
  <2> QED
      BY <2>3, <2>4 DEF RolesInv
<1> QED
    BY <1>6, <1>10, <1>11, <1>12, <1>13, <1>14 DEF IfaceInv

LEMMA CreateStep ==
    ASSUME TwoAccessPoints, IfaceInv, UNCHANGED <<present, internal>>, NEW e \in Events \ {"LAN_DELETE_SELF"},
           Visiting(e), NEW i, i = evt.iface, NEW cat \in {"LAN_IF", "WAN_IF", "WLAN_IF", "UNKNOWN_IF"},
           NEW mode \in WanKinds, create_iface_instance(i, cat, mode),
           cat = "WLAN_IF" \/ mode = "WLAN_WAN" => i \in WlanIfs, CategoriesInv'
    PROVE  IfaceInv'
<1>1. /\ cursor \in Nodes /\ In(listeners, cursor) /\ cursor' = NextNode(cursor) /\ LinksInv'
      /\ evt # NULL /\ UNCHANGED <<evt, link, wlan, addr>> /\ i \in present /\ evt.event = e
      /\ evt \in OutsideEvents \cup DeleteEvents
    BY Visited DEF IfaceInv
<1>2. evt \in OutsideEvents
    BY <1>1 DEF DeleteEvents
<1>3. HeapInv /\ ListInv /\ TeardownInv /\ QueuesInv /\ RolesInv
    BY DEF IfaceInv
<1>4. CASE Found(i) \/ cat = "UNKNOWN_IF"
  <2>1. UNCHANGED <<external, listeners, instances, obj, num_wlan_ap_iface>>
      BY <1>4 DEF create_iface_instance
  <2>2. live' = live /\ obj' \in [live -> Objects] /\ (\A j : Inactive(j)' <=> Inactive(j))
        /\ \A q \in live : DeleteOf(q)' = DeleteOf(q) /\ evt # DeleteOf(q)
      BY <1>2, <1>3, <2>1, DeleteOfTyped DEF live, Inactive, DeleteOf, Evt, HeapInv
  <2>3. TeardownInv'
      BY <1>1, <1>3, <2>1, <2>2 DEF TeardownInv
  <2>4. QueuesInv'
      BY <1>1, <1>3, <2>1 DEF QueuesInv, OutsideEvents, DeleteEvents
  <2>5. WalkInv'
      BY <1>1, <2>1, WalkSame
  <2> QED
      BY <1>1, <2>1, <2>2, <2>3, <2>4, <2>5, FieldsStep
<1>5. CASE ~(Found(i) \/ cat = "UNKNOWN_IF")
  <2> DEFINE kind == KindFor(cat, mode)
  <2>1. kind \in Kinds /\ (kind \in {"wlan", "WLAN_WAN"} => i \in WlanIfs)
      BY <1>5 DEF KindFor, Kinds, WanKinds
  <2>2. ~ConstructorFails(kind)
    <3> HIDE DEF kind
    <3> QED
        BY <1>1, <1>5, <2>1, ConstructorRuns
  <2>3. PICK o \in Objs \ live :
            /\ obj' = NewObject(o, kind, i)
            /\ num_wlan_ap_iface' = num_wlan_ap_iface + IF kind = "wlan" THEN 1 ELSE 0
            /\ listeners' = listeners \o NodesOf(kind, o)
            /\ instances' = instances \cup {<<i, o>>}
            /\ iface_addr_query(i)
      BY <1>5, <2>2 DEF create_iface_instance
  <2> HIDE DEF kind
  <2>4. external' \in Seq(OutsideEvents)
    <3>1. Evt("ADDR_ADD", i) \in OutsideEvents
        BY <1>1 DEF Evt, OutsideEvents, Events
    <3> QED
        BY <1>3, <2>3, <3>1 DEF iface_addr_query, QueuesInv
  <2> QED
      BY <1>1, <1>2, <1>5, <2>1, <2>3, <2>4, NewInstance
<1> QED
    BY <1>4, <1>5

LEMMA ManagerStep ==
    ASSUME TwoAccessPoints, IfaceInv, UNCHANGED present,
           \/ ManagerLinkUp \/ ManagerUsbLinkUp
           \/ ManagerWlanLinkUp("AP_LINK_UP", "WLAN_IF", "Q6_WAN")
           \/ ManagerWlanLinkUp("STA_LINK_UP", "WAN_IF", "WLAN_WAN")
    PROVE  IfaceInv'
<1> DEFINE i == evt.iface
<1>1. CategoriesInv
    BY DEF IfaceInv, RolesInv
<1>2. ASSUME NEW e, Visiting(e)
      PROVE  /\ i \in Ifaces /\ if_cat[i] \in {"LAN_IF", "WAN_IF", "WLAN_IF", "UNKNOWN_IF"}
             /\ (if_cat[i] \in {"WLAN_IF", "UNKNOWN_IF"} => i \in WlanIfs)
  <2>1. i \in Ifaces
      BY <1>2, Visited, PresentIfaces DEF IfaceInv
  <2> QED
      BY <1>1, <2>1 DEF CategoriesInv
\* A visit that creates nothing is what create_iface_instance does for UNKNOWN_IF.
<1>3. UNCHANGED <<external, listeners, instances, obj, num_wlan_ap_iface>> =>
        create_iface_instance(i, "UNKNOWN_IF", "Q6_WAN")
    BY DEF create_iface_instance
<1>4. CASE ManagerLinkUp
  <2>1. /\ Visiting("LINK_UP") /\ UNCHANGED internal /\ CategoriesInv'
        /\ \/ create_iface_instance(i, "WAN_IF", "Q6_WAN")
           \/ create_iface_instance(i, "UNKNOWN_IF", "Q6_WAN")
      BY <1>1, <1>3, <1>4 DEF ManagerLinkUp, CategoriesInv
  <2> HIDE DEF i
  <2> QED
      BY <2>1, CreateStep DEF i, Events, WanKinds
<1>5. CASE ManagerUsbLinkUp
  <2>1. /\ Visiting("USB_LINK_UP") /\ UNCHANGED internal /\ CategoriesInv'
        /\ create_iface_instance(i, if_cat[i], IF if_cat[i] = "WAN_IF" THEN "ECM_WAN" ELSE "Q6_WAN")
      BY <1>1, <1>5 DEF ManagerUsbLinkUp, CategoriesInv
  <2>2. PICK mode \in {"ECM_WAN", "Q6_WAN"} : create_iface_instance(i, if_cat[i], mode)
      BY <2>1
  <2>3. "USB_LINK_UP" \in Events \ {"LAN_DELETE_SELF"} /\ mode \in WanKinds /\ mode # "WLAN_WAN"
      BY DEF Events, WanKinds
  <2> QED
      BY <1>2, <2>1, <2>2, <2>3, CreateStep
<1>6. ASSUME NEW e \in {"AP_LINK_UP", "STA_LINK_UP"}, NEW cat \in {"WLAN_IF", "WAN_IF"},
             NEW mode \in {"Q6_WAN", "WLAN_WAN"}, ManagerWlanLinkUp(e, cat, mode)
      PROVE  IfaceInv'
  <2>1. e \in Events \ {"LAN_DELETE_SELF"} /\ mode \in WanKinds /\ "Q6_WAN" \in WanKinds
      BY DEF Events, WanKinds
  <2>2. Visiting(e) /\ UNCHANGED internal
      BY <1>6 DEF ManagerWlanLinkUp
  <2>3. CASE if_cat[i] = "UNKNOWN_IF"
    <3>1. if_cat' = [if_cat EXCEPT ![i] = cat] /\ create_iface_instance(i, cat, mode)
        BY <1>6, <2>3 DEF ManagerWlanLinkUp
    <3>2. i \in WlanIfs
        BY <1>2, <2>2, <2>3
    <3>3. CategoriesInv'
        BY <1>1, <3>1, <3>2 DEF CategoriesInv
    <3> QED
        BY <2>1, <2>2, <3>1, <3>2, <3>3, CreateStep
  <2>4. CASE if_cat[i] # "UNKNOWN_IF"
    <3>1. UNCHANGED <<external, listeners, instances, obj, num_wlan_ap_iface, if_cat>>
        BY <1>6, <2>4 DEF ManagerWlanLinkUp
    <3>2. CategoriesInv'
        BY <1>1, <3>1 DEF CategoriesInv
    <3> QED
        BY <1>3, <2>1, <2>2, <3>1, <3>2, CreateStep
  <2> QED
      BY <2>3, <2>4
<1> QED
    BY <1>4, <1>5, <1>6

(* The theorems *)

\* Every step of the threads and of the dispatcher preserves the invariant of the
\* interface objects.
THEOREM IfaceNextInv == TwoAccessPoints /\ IfaceInv /\ [Next]_vars => IfaceInv'
<1> SUFFICES ASSUME TwoAccessPoints, IfaceInv, [Next]_vars
             PROVE  IfaceInv'
    OBVIOUS
<1>1. CASE Next
  <2>1. UNCHANGED present
      BY <1>1 DEF Next
  <2>2. CASE Outside
      BY <2>1, <2>2, OutsideStep
  <2>3. CASE TakeEvent \/ Skip \/ EndOfWalk
      BY <2>1, <2>3, TakeStep, SkipStep, EndStep
  <2>4. CASE \/ ManagerLinkUp \/ ManagerUsbLinkUp
             \/ ManagerWlanLinkUp("AP_LINK_UP", "WLAN_IF", "Q6_WAN")
             \/ ManagerWlanLinkUp("STA_LINK_UP", "WAN_IF", "WLAN_WAN")
      BY <2>1, <2>4, ManagerStep
  <2>5. ASSUME NEW o \in Objs,
               LanLinkDown(o) \/ LanDeleteSelf(o) \/ WanLinkDown(o) \/ AddrAdd(o) \/ NotMine(o)
        PROVE  IfaceInv'
      BY <2>1, <2>5, LinkDownStep, DeleteSelfStep, WanDownStep, AddrAddStep, NotMineStep
  <2> QED
      BY <1>1, <2>2, <2>3, <2>4, <2>5 DEF Next, Dispatcher, Callback
<1>2. CASE UNCHANGED vars
  <2>1. /\ UNCHANGED <<registry, present, internal, external, evt, cursor, listeners, obj>>
        /\ UNCHANGED <<link, wlan, addr>>
      BY <1>2 DEF vars, registry
  <2>2. LinksInv' /\ QueuesInv' /\ WalkInv'
      BY <2>1 DEF IfaceInv, LinksInv, QueuesInv, WalkInv, OutsideEvents, DeleteEvents
  <2>3. TeardownInv'
      BY <2>1, TeardownSame DEF IfaceInv
  <2> QED
      BY <2>1, <2>2, <2>3, SameRegistry
<1> QED
    BY <1>1, <1>2

LEMMA IfaceInit == Init => IfaceInv
<1> SUFFICES ASSUME Init
             PROVE  IfaceInv
    OBVIOUS
<1>1. live = {} /\ obj \in [live -> Objects]
    BY DEF Init, live
<1>2. /\ listeners \in Seq(Nodes) /\ Len(listeners) = 4 /\ listeners[1] = <<"LINK_UP", Manager>>
      /\ listeners[2] = <<"AP_LINK_UP", Manager>> /\ listeners[3] = <<"STA_LINK_UP", Manager>>
      /\ listeners[4] = <<"USB_LINK_UP", Manager>>
    BY DEF Init, ManagerNodes, Nodes, Events
<1>3. ListInv
  <2>1. \A k \in 1..Len(listeners) : k = 1 \/ k = 2 \/ k = 3 \/ k = 4
      BY <1>2
  <2>2. Once(listeners)
      BY <1>2, <2>1 DEF Once
  <2>3. \A n \in Nodes : In(listeners, n) => n[2] = Manager
      BY <1>2, <2>1 DEF In
  <2>4. \A e \in ManagerEvents : In(listeners, <<e, Manager>>)
      BY <1>2 DEF In, ManagerEvents
  <2> QED
      BY <1>1, <1>2, <2>2, <2>3, <2>4 DEF ListInv
<1>4. HeapInv
  <2>1. instances = {<<obj[o].iface, o>> : o \in live}
      BY <1>1 DEF Init
  <2> QED
      BY <1>1, <2>1, FS_EmptySet DEF HeapInv
<1>5. LinksInv /\ QueuesInv /\ WalkInv
    BY DEF Init, LinksInv, QueuesInv, WalkInv
<1>6. TeardownInv
    BY <1>1 DEF Init, TeardownInv, Once
<1>7. RolesInv
  <2>1. CategoriesInv
      BY DEF Init, CategoriesInv, Category, Ifaces
  <2>2. AccessPoints = {}
      BY <1>1 DEF AccessPoints
  <2> QED
      BY <1>1, <2>1, <2>2, FS_EmptySet DEF RolesInv, Init
<1> QED
    BY <1>3, <1>4, <1>5, <1>6, <1>7 DEF IfaceInv

\* In every reachable state the invariant of the interface objects holds, for a device
\* with at most two access points.
THEOREM IfaceInvariant == TwoAccessPoints => (Spec => []IfaceInv)
<1> SUFFICES ASSUME TwoAccessPoints
             PROVE  Spec => []IfaceInv
    OBVIOUS
<1>1. IfaceInv /\ [Next]_vars => IfaceInv'
    BY IfaceNextInv
<1> QED
    BY <1>1, IfaceInit, PTL DEF Spec

LEMMA RegistriesSound == IfaceInv => RegistriesAgree
<1> SUFFICES ASSUME IfaceInv
             PROVE  RegistriesAgree
    OBVIOUS
<1>1. HeapInv /\ ListInv
    BY DEF IfaceInv
<1>2. listeners \in Seq(Nodes) /\ Once(listeners) /\ \A n : n \in ListenerNodes <=> In(listeners, n)
    BY <1>1 DEF ListInv, ListenerNodes, In
<1>3. ListenerNodes \subseteq Nodes
    BY <1>2 DEF ListenerNodes
<1>4. ListenersAlive
    BY <1>1, <1>2, <1>3 DEF ListenersAlive, ListInv
<1>5. instances = {<<obj[o].iface, o>> : o \in live}
    BY <1>1 DEF HeapInv
<1>6. \A p \in instances : p[2] \in live /\ p[1] = obj[p[2]].iface /\ p = <<p[1], p[2]>>
    BY <1>5
<1>7. live = {p[2] : p \in instances}
  <2>1. \A o \in live : <<obj[o].iface, o>> \in instances /\ <<obj[o].iface, o>>[2] = o
      BY <1>5
  <2> QED
      BY <1>6, <2>1
<1>8. \A p, q \in instances : p # q => p[1] # q[1] /\ p[2] # q[2]
    BY <1>1, <1>6 DEF HeapInv
<1>9. ASSUME NEW o \in live PROVE Registered(o, NodesOf(obj[o].kind, o))
  <2> DEFINE nodes == NodesOf(obj[o].kind, o)
  <2>1. HasNodes(listeners, nodes, o) /\ obj[o].kind \in Kinds /\ o \in Objs
      BY <1>1 DEF ListInv, HeapInv, Objects
  <2>2. nodes = NodesOf(obj[o].kind, o)
      OBVIOUS
  <2> HIDE DEF nodes
  <2>3. \A k \in 1..Len(nodes) : nodes[k] \in Nodes /\ nodes[k][2] = o
      BY <2>1, <2>2, NodesOwn
  <2>4. {n \in ListenerNodes : n[2] = o} = {nodes[k] : k \in 1..Len(nodes)}
    <3>1. \A n \in Nodes : n[2] = o => (n \in ListenerNodes <=> In(nodes, n))
        BY <1>2, <2>1 DEF HasNodes
    <3>2. \A n : In(nodes, n) <=> n \in {nodes[k] : k \in 1..Len(nodes)}
        BY DEF In
    <3> QED
        BY <1>3, <2>3, <3>1, <3>2
  <2>5. \A j, k \in 1..Len(nodes) : j < k => Position(nodes[j]) < Position(nodes[k])
    <3>1. \A j, k \in 1..Len(nodes) : j < k => Before(listeners, nodes[j], nodes[k])
        BY <2>1 DEF HasNodes
    <3> QED
        BY <1>2, <3>1, PositionOrder
  <2> QED
      BY <2>2, <2>4, <2>5 DEF Registered
<1> QED
    BY <1>2, <1>4, <1>6, <1>7, <1>8, <1>9 DEF RegistriesAgree, Once

LEMMA TeardownSound == IfaceInv => TeardownPending
<1> SUFFICES ASSUME IfaceInv, NEW i \in Ifaces
             PROVE  DeleteSelfPending(i) = IF Inactive(i) THEN 1 ELSE 0
    BY DEF TeardownPending
<1> DEFINE d == Evt("LAN_DELETE_SELF", i)
           I == {k \in 1..Len(internal) : internal[k] = d}
           E == {k \in 1..Len(external) : external[k] = d}
           W == evt = d /\ \E o \in live : obj[o].iface = i /\ cursor # NULL
<1>1. HeapInv /\ TeardownInv /\ QueuesInv
    BY DEF IfaceInv
<1>2. d.iface = i /\ d.event = "LAN_DELETE_SELF"
    BY DEF Evt
<1>3. \A o \in live : obj[o].iface = i => DeleteOf(o) = d
    BY DEF DeleteOf
<1>4. DeleteSelfPending(i) = Cardinality(I) + Cardinality(E) + IF W THEN 1 ELSE 0
    BY DEF DeleteSelfPending
<1> HIDE DEF d
<1>5. Cardinality(E) = 0
  <2>1. \A k \in 1..Len(external) : external[k] \in OutsideEvents
      BY <1>1 DEF QueuesInv
  <2>2. E = {}
      BY <1>2, <2>1 DEF OutsideEvents
  <2> QED
      BY <2>2, FS_EmptySet
<1>6. CASE Inactive(i)
  <2>1. PICK o \in live : obj[o].iface = i /\ ~obj[o].active
      BY <1>6 DEF Inactive
  <2>2. In(internal, d) \/ evt = d
      BY <1>1, <1>3, <2>1 DEF TeardownInv
  <2>3. CASE In(internal, d)
    <3>1. PICK k \in 1..Len(internal) : internal[k] = d
        BY <2>3 DEF In
    <3>2. I = {k}
        BY <1>1, <3>1 DEF TeardownInv, Once
    <3>3. Cardinality(I) = 1
        BY <3>2, FS_Singleton
    <3>4. ~W
        BY <1>1, <3>1 DEF TeardownInv
    <3> QED
        BY <1>4, <1>5, <1>6, <3>3, <3>4
  <2>4. CASE ~In(internal, d)
    <3>1. I = {}
        BY <2>4 DEF In
    <3>2. Cardinality(I) = 0
        BY <3>1, FS_EmptySet
    <3>3. W
        BY <1>1, <1>3, <2>1, <2>2, <2>4 DEF TeardownInv
    <3> HIDE DEF W, I, E
    <3> QED
        BY <1>4, <1>5, <1>6, <3>2, <3>3
  <2> QED
      BY <2>3, <2>4
<1>7. CASE ~Inactive(i)
  <2>1. I = {}
      BY <1>1, <1>2, <1>7 DEF TeardownInv
  <2>2. Cardinality(I) = 0
      BY <2>1, FS_EmptySet
  <2>3. ~W
      BY <1>1, <1>3, <1>7 DEF TeardownInv, Inactive
  <2> HIDE DEF W, I, E
  <2> QED
      BY <1>4, <1>5, <1>7, <2>2, <2>3
<1> QED
    BY <1>6, <1>7

LEMMA IfaceTyped == IfaceInv => TypeOK /\ WalkSafe /\ ApCount
<1> SUFFICES ASSUME IfaceInv
             PROVE  TypeOK /\ WalkSafe /\ ApCount
    OBVIOUS
<1>1. LinksInv /\ QueuesInv /\ HeapInv /\ ListInv /\ WalkInv /\ RolesInv /\ present \subseteq Ifaces
    BY PresentIfaces DEF IfaceInv
<1>2. OutsideEvents \subseteq Queued /\ DeleteEvents \subseteq Queued
    BY <1>1 DEF OutsideEvents, DeleteEvents, Queued, Events
<1>3. internal \in Seq(Queued) /\ external \in Seq(Queued) /\ evt \in Queued \cup {NULL}
    BY <1>1, <1>2 DEF QueuesInv
<1>4. instances \subseteq Ifaces \X Objs
  <2>1. \A o \in live : obj[o].iface \in Ifaces /\ o \in Objs
      BY <1>1 DEF HeapInv
  <2> QED
      BY <1>1, <2>1 DEF HeapInv
<1>5. ApCount /\ num_wlan_ap_iface \in Nat
    BY <1>1, FS_Subset, FS_CardinalityType DEF HeapInv, RolesInv, AccessPoints, ApCount
<1>6. WalkSafe
    BY <1>1 DEF WalkSafe, WalkInv, ListenerNodes, In
<1>7. cursor \in Nodes \cup {NULL}
    BY <1>1 DEF WalkInv
<1> QED
    BY <1>1, <1>3, <1>4, <1>5, <1>6, <1>7
    DEF TypeOK, LinksInv, HeapInv, ListInv, RolesInv, CategoriesInv, Objects

\* The life of the interface objects is sound, for a device with at most two access
\* points: no walk over the listeners steps on a freed node although objects delete
\* themselves during the walk, the heap, both registries and the count of access points
\* agree, and exactly the objects that have shut down are about to be deleted, once.
THEOREM ObjectsAlwaysSound == TwoAccessPoints => (Spec => []ObjectsSound)
<1> SUFFICES ASSUME TwoAccessPoints
             PROVE  Spec => []ObjectsSound
    OBVIOUS
<1>1. IfaceInv => ObjectsSound
    BY RegistriesSound, TeardownSound, IfaceTyped DEF ObjectsSound
<1>2. Spec => []IfaceInv
    BY IfaceInvariant
<1> QED
    BY <1>1, <1>2, PTL

----------------------------------------------------------------------------
(* What the events under way lead to *)

\* The events on which the object of an interface comes and goes, and the one that leads
\* to what the kernel or the driver has.
Ups(i) == IF i \in WlanIfs THEN {"AP_LINK_UP", "STA_LINK_UP"} ELSE {"USB_LINK_UP"}
Down(i) == IF i \in WlanIfs THEN "WLAN_LINK_DOWN" ELSE "LINK_DOWN"
Target(i) ==
    IF i \notin WlanIfs THEN (IF link[i] = "running" THEN "USB_LINK_UP" ELSE "LINK_DOWN")
    ELSE IF wlan[i] = "ap" THEN "AP_LINK_UP"
    ELSE IF wlan[i] = "sta" THEN "STA_LINK_UP" ELSE "WLAN_LINK_DOWN"
Changes(i, x) == \E e \in Ups(i) \cup {Down(i)} : x = Evt(e, i)

Active(i) == \E o \in live : obj[o].iface = i /\ obj[o].active
Has(i, e) ==
    IF e = "AP_LINK_UP" THEN HasKind(i, {"wlan"})
    ELSE IF e = "STA_LINK_UP" THEN HasKind(i, {"WLAN_WAN"})
    ELSE IF e = "USB_LINK_UP" THEN Active(i) ELSE ~Active(i)

\* The last change of an interface that waits is the last that happened; a change of a
\* WLAN interface's role waits behind the end of its last role; IPA_LINK_UP is not the last.
LastWaits(i, t, q) ==
    \A k \in 1..Len(q) : Changes(i, q[k]) =>
        q[k] = Evt(t, i) \/ \E j \in (k + 1)..Len(q) : Changes(i, q[j])
Waits(i, q) == \E k \in 1..Len(q) : Changes(i, q[k])
NextIsUp(i, q) ==
    \E k \in 1..Len(q) : /\ Changes(i, q[k]) /\ q[k] # Evt(Down(i), i)
                         /\ \A j \in 1..(k - 1) : ~Changes(i, q[j])
InTurn(i, q) ==
    \A k \in 1..Len(q) : Changes(i, q[k]) /\ q[k] # Evt(Down(i), i) =>
        \A m \in 1..(k - 1) : Changes(i, q[m]) =>
            q[m] = Evt(Down(i), i) \/ \E j \in (m + 1)..(k - 1) : Changes(i, q[j])
UpsFollowed(i, q) ==
    \A k \in 1..Len(q) : q[k] = Evt("LINK_UP", i) => \E j \in (k + 1)..Len(q) : Changes(i, q[j])
WaitingInv ==
    \A i \in Ifaces :
        /\ LastWaits(i, Target(i), external)
        /\ i \in WlanIfs => InTurn(i, external)
        /\ i \notin WlanIfs => UpsFollowed(i, external)

\* The walk has yet to reach node n.
Ahead(n) == cursor # NULL /\ Reaches(listeners, cursor, n)

Gone(i) == \A o \in live : obj[o].iface # i
Settled(i) == ~Waits(i, external) => evt = Evt(Target(i), i) \/ (~Changes(i, evt) /\ Has(i, Target(i)))
Free(i) == evt = Evt(Down(i), i) \/ (~Changes(i, evt) /\ ~Active(i))
Arrives(i) ==
    \A e \in Ups(i) : evt = Evt(e, i) =>
        Has(i, e) \/ (Ahead(<<e, Manager>>) /\ (i \in WlanIfs => Gone(i)))
Leaves(i) ==
    evt = Evt(Down(i), i) =>
        \A o \in live : obj[o].iface = i /\ obj[o].active => Ahead(<<Down(i), o>>)
ChangeInv(i) ==
    /\ Settled(i) /\ Arrives(i) /\ Leaves(i)
    /\ i \in WlanIfs /\ NextIsUp(i, external) => Free(i)
    /\ i \notin WlanIfs /\ evt = Evt("LINK_UP", i) => Waits(i, external)
    /\ evt \in OutsideEvents /\ Inactive(i) => evt = Evt(Down(i), i)
ChangesInv == \A i \in Ifaces : ChangeInv(i)

\* The objects of an interface are of its kind, a WLAN interface has a role as long as
\* it has an active object.
KindsOf(i) == IF i \in LanIfs THEN {"lan"}
              ELSE IF i \in WanIfs THEN {"Q6_WAN", "ECM_WAN"} ELSE {"wlan", "WLAN_WAN"}
KindsInv ==
    /\ \A o \in live : obj[o].kind \in KindsOf(obj[o].iface)
    /\ \A i \in Ifaces \ WlanIfs : if_cat[i] = Category(i)
    /\ \A i \in WlanIfs : if_cat[i] = "UNKNOWN_IF" <=> ~Active(i)
    /\ \A o \in live : obj[o].iface \in WlanIfs /\ obj[o].active =>
          if_cat[obj[o].iface] = IF obj[o].kind = "wlan" THEN "WLAN_IF" ELSE "WAN_IF"
    /\ \A i \in WlanIfs : link[i] = "down" => wlan[i] = "down"

\* An object that does not know its address will be told, or is about to go.
Told(o) ==
    LET i == obj[o].iface IN
    \/ In(external, Evt("ADDR_ADD", i)) \/ In(external, Evt(Down(i), i))
    \/ evt = Evt("ADDR_ADD", i) /\ Ahead(<<"ADDR_ADD", o>>)
    \/ evt = Evt(Down(i), i) \/ ~obj[o].active
AddressInv == \A o \in live : addr[obj[o].iface] /\ ~obj[o].addr => Told(o)

CaughtInv == IfaceInv /\ WaitingInv /\ ChangesInv /\ KindsInv /\ AddressInv

(* The queue *)

\* Events that change nothing of i are put at its end.
LEMMA QuietPost ==
    ASSUME NEW i, NEW q \in Seq(OutsideEvents), NEW es \in Seq(OutsideEvents), NEW r, r = q \o es,
           \A k \in 1..Len(es) : ~Changes(i, es[k]), NEW t
    PROVE  /\ LastWaits(i, t, q) => LastWaits(i, t, r)
           /\ InTurn(i, q) => InTurn(i, r)
           /\ UpsFollowed(i, q) /\ (\A k \in 1..Len(es) : es[k] # Evt("LINK_UP", i)) => UpsFollowed(i, r)
           /\ Waits(i, r) <=> Waits(i, q)
           /\ NextIsUp(i, r) <=> NextIsUp(i, q)
<1>1. /\ Len(r) = Len(q) + Len(es) /\ Len(q) \in Nat /\ Len(es) \in Nat
      /\ \A k \in 1..Len(q) : r[k] = q[k] /\ k \in 1..Len(r)
    OBVIOUS
<1>2. \A k \in 1..Len(r) : k \in 1..Len(q) \/ (k > Len(q) /\ k - Len(q) \in 1..Len(es) /\ r[k] = es[k - Len(q)])
    BY <1>1
<1>3. \A k \in 1..Len(r) : Changes(i, r[k]) => k \in 1..Len(q) /\ r[k] = q[k]
    BY <1>1, <1>2
<1>4. LastWaits(i, t, q) => LastWaits(i, t, r)
  <2> SUFFICES ASSUME LastWaits(i, t, q), NEW k \in 1..Len(r), Changes(i, r[k]), r[k] # Evt(t, i)
               PROVE  \E j \in (k + 1)..Len(r) : Changes(i, r[j])
      BY DEF LastWaits
  <2>1. k \in 1..Len(q) /\ r[k] = q[k]
      BY <1>3
  <2>2. PICK j \in (k + 1)..Len(q) : Changes(i, q[j])
      BY <2>1 DEF LastWaits
  <2>3. j \in 1..Len(q) /\ j \in (k + 1)..Len(r) /\ r[j] = q[j]
      BY <1>1, <2>1, <2>2
  <2> QED
      BY <2>2, <2>3
<1>5. InTurn(i, q) => InTurn(i, r)
  <2> SUFFICES ASSUME InTurn(i, q), NEW k \in 1..Len(r), Changes(i, r[k]), r[k] # Evt(Down(i), i),
                      NEW m \in 1..(k - 1), Changes(i, r[m]), r[m] # Evt(Down(i), i)
               PROVE  \E j \in (m + 1)..(k - 1) : Changes(i, r[j])
      BY DEF InTurn
  <2>1. k \in 1..Len(q) /\ r[k] = q[k] /\ m \in 1..Len(q) /\ r[m] = q[m]
      BY <1>1, <1>3
  <2>2. PICK j \in (m + 1)..(k - 1) : Changes(i, q[j])
      BY <2>1 DEF InTurn
  <2>3. j \in 1..Len(q) /\ r[j] = q[j]
      BY <1>1, <2>1, <2>2
  <2> QED
      BY <2>2, <2>3
<1>6. ASSUME UpsFollowed(i, q), \A k \in 1..Len(es) : es[k] # Evt("LINK_UP", i) PROVE UpsFollowed(i, r)
  <2> SUFFICES ASSUME NEW k \in 1..Len(r), r[k] = Evt("LINK_UP", i)
               PROVE  \E j \in (k + 1)..Len(r) : Changes(i, r[j])
      BY DEF UpsFollowed
  <2>1. k \in 1..Len(q) /\ r[k] = q[k]
      BY <1>1, <1>2, <1>6
  <2>2. PICK j \in (k + 1)..Len(q) : Changes(i, q[j])
      BY <1>6, <2>1 DEF UpsFollowed
  <2>3. j \in 1..Len(q) /\ j \in (k + 1)..Len(r) /\ r[j] = q[j]
      BY <1>1, <2>1, <2>2
  <2> QED
      BY <2>2, <2>3
<1>7. Waits(i, r) <=> Waits(i, q)
    BY <1>1, <1>3 DEF Waits
<1>8. NextIsUp(i, r) <=> NextIsUp(i, q)
  <2>1. \A k \in 1..Len(q) : \A j \in 1..(k - 1) : j \in 1..Len(q)
      BY <1>1
  <2>2. ASSUME NextIsUp(i, r) PROVE NextIsUp(i, q)
    <3>1. PICK k \in 1..Len(r) : /\ Changes(i, r[k]) /\ r[k] # Evt(Down(i), i)
                                 /\ \A j \in 1..(k - 1) : ~Changes(i, r[j])
        BY <2>2 DEF NextIsUp
    <3>2. k \in 1..Len(q) /\ \A j \in 1..(k - 1) : r[j] = q[j]
        BY <1>1, <1>3, <2>1, <3>1
    <3> QED
        BY <1>1, <3>1, <3>2 DEF NextIsUp
  <2>3. ASSUME NextIsUp(i, q) PROVE NextIsUp(i, r)
    <3>1. PICK k \in 1..Len(q) : /\ Changes(i, q[k]) /\ q[k] # Evt(Down(i), i)
                                 /\ \A j \in 1..(k - 1) : ~Changes(i, q[j])
        BY <2>3 DEF NextIsUp
    <3>2. k \in 1..Len(r) /\ \A j \in 1..(k - 1) : r[j] = q[j]
        BY <1>1, <2>1
    <3> QED
        BY <1>1, <3>1, <3>2 DEF NextIsUp
  <2> QED
      BY <2>2, <2>3
<1> QED
    BY <1>4, <1>5, <1>6, <1>7, <1>8

\* What is put at its end ends with a change of i.
LEMMA ChangePost ==
    ASSUME NEW i, NEW q \in Seq(OutsideEvents), NEW es \in Seq(OutsideEvents), NEW r, r = q \o es,
           NEW t, es # << >>, es[Len(es)] = Evt(t, i), Changes(i, Evt(t, i))
    PROVE  /\ LastWaits(i, t, r) /\ Waits(i, r)
           /\ UpsFollowed(i, q) => UpsFollowed(i, r)
<1>1. /\ Len(r) = Len(q) + Len(es) /\ Len(q) \in Nat /\ Len(es) \in Nat /\ Len(es) >= 1
      /\ r[Len(r)] = Evt(t, i) /\ \A k \in 1..Len(q) : r[k] = q[k] /\ k \in 1..Len(r)
    OBVIOUS
<1>2. Len(r) \in 1..Len(r)
    BY <1>1
<1>3. \A k \in 1..Len(r) : k # Len(r) => Len(r) \in (k + 1)..Len(r)
  <2> DEFINE N == Len(r)
  <2>1. N \in Nat
      BY <1>1
  <2> HIDE DEF N
  <2>2. \A k \in 1..N : k # N => N \in (k + 1)..N
      BY <2>1
  <2> QED
      BY <2>2 DEF N
<1>4. LastWaits(i, t, r) /\ Waits(i, r)
    BY <1>1, <1>2, <1>3 DEF LastWaits, Waits
<1>5. UpsFollowed(i, r)
  <2>1. ~Changes(i, Evt("LINK_UP", i))
      BY DEF Changes, Evt, Ups, Down
  <2> QED
      BY <1>1, <1>3, <2>1 DEF UpsFollowed
<1> QED
    BY <1>4, <1>5

\* A change of a WLAN interface's role is put at its end, an end of a role or, after
\* that, another role.
LEMMA TurnPost ==
    ASSUME NEW i, NEW q \in Seq(OutsideEvents), NEW x \in OutsideEvents, NEW r, r = Append(q, x),
           Changes(i, x), InTurn(i, q), x # Evt(Down(i), i) => LastWaits(i, Down(i), q)
    PROVE  /\ InTurn(i, r)
           /\ NextIsUp(i, r) => NextIsUp(i, q) \/ (~Waits(i, q) /\ x # Evt(Down(i), i))
<1>1. /\ Len(r) = Len(q) + 1 /\ Len(q) \in Nat /\ r[Len(q) + 1] = x
      /\ \A k \in 1..Len(q) : r[k] = q[k] /\ k \in 1..Len(r)
      /\ \A k \in 1..Len(r) : k \in 1..Len(q) \/ k = Len(q) + 1
    OBVIOUS
<1>2. InTurn(i, r)
  <2> SUFFICES ASSUME NEW k \in 1..Len(r), Changes(i, r[k]), r[k] # Evt(Down(i), i),
                      NEW m \in 1..(k - 1), Changes(i, r[m]), r[m] # Evt(Down(i), i)
               PROVE  \E j \in (m + 1)..(k - 1) : Changes(i, r[j])
      BY DEF InTurn
  <2>1. m \in 1..Len(q) /\ r[m] = q[m]
      BY <1>1
  <2>2. PICK j \in (m + 1)..(k - 1) : j \in 1..Len(q) /\ Changes(i, q[j])
    <3>1. CASE k \in 1..Len(q)
      <4>1. PICK j \in (m + 1)..(k - 1) : Changes(i, q[j])
          BY <1>1, <2>1, <3>1 DEF InTurn
      <4> QED
          BY <1>1, <3>1, <4>1
    <3>2. CASE k = Len(q) + 1
      <4>1. PICK j \in (m + 1)..Len(q) : Changes(i, q[j])
          BY <1>1, <2>1, <3>2 DEF LastWaits
      <4>2. j \in (m + 1)..(k - 1) /\ j \in 1..Len(q)
          BY <1>1, <2>1, <3>2, <4>1
      <4> QED
          BY <4>1, <4>2
    <3> QED
        BY <1>1, <3>1, <3>2
  <2> QED
      BY <1>1, <2>2
<1>3. ASSUME NextIsUp(i, r) PROVE NextIsUp(i, q) \/ (~Waits(i, q) /\ x # Evt(Down(i), i))
  <2>1. PICK k \in 1..Len(r) : /\ Changes(i, r[k]) /\ r[k] # Evt(Down(i), i)
                               /\ \A j \in 1..(k - 1) : ~Changes(i, r[j])
      BY <1>3 DEF NextIsUp
  <2>2. \A j \in 1..(k - 1) : j \in 1..Len(q)
      BY <1>1
  <2>3. CASE k \in 1..Len(q)
      BY <1>1, <2>1, <2>2, <2>3 DEF NextIsUp
  <2>4. CASE k = Len(q) + 1
    <3>1. \A j \in 1..Len(q) : j \in 1..(k - 1)
        BY <1>1, <2>4
    <3> QED
        BY <1>1, <2>1, <2>4, <3>1 DEF Waits
  <2> QED
      BY <1>1, <2>3, <2>4
<1> QED
    BY <1>2, <1>3

\* Its first event is taken.
LEMMA FirstTaken ==
    ASSUME NEW i, NEW q \in Seq(OutsideEvents), q # << >>, NEW x, x = Head(q), NEW r, r = Tail(q), NEW t
    PROVE  /\ LastWaits(i, t, q) => LastWaits(i, t, r)
           /\ LastWaits(i, t, q) /\ Changes(i, x) /\ ~Waits(i, r) => x = Evt(t, i)
           /\ InTurn(i, q) => InTurn(i, r)
           /\ UpsFollowed(i, q) => UpsFollowed(i, r)
           /\ UpsFollowed(i, q) /\ x = Evt("LINK_UP", i) => Waits(i, r)
           /\ Waits(i, q) => Waits(i, r) \/ Changes(i, x)
           /\ Changes(i, x) /\ x # Evt(Down(i), i) => NextIsUp(i, q)
           /\ InTurn(i, q) /\ NextIsUp(i, r) => x = Evt(Down(i), i) \/ (~Changes(i, x) /\ NextIsUp(i, q))
<1>1. /\ Len(q) \in Nat /\ Len(q) >= 1 /\ Len(r) = Len(q) - 1 /\ x = q[1] /\ 1 \in 1..Len(q)
      /\ \A k \in 1..Len(r) : r[k] = q[k + 1] /\ k + 1 \in 1..Len(q)
    OBVIOUS
<1>2. ASSUME NEW k \in 1..Len(q), NEW j \in (k + 1)..Len(q)
      PROVE  j - 1 \in k..Len(r) /\ j - 1 \in 1..Len(r) /\ r[j-1] = q[j]
    BY <1>1
<1>3. ASSUME LastWaits(i, t, q) PROVE LastWaits(i, t, r)
  <2> SUFFICES ASSUME NEW k \in 1..Len(r), Changes(i, r[k]), r[k] # Evt(t, i)
               PROVE  \E j \in (k + 1)..Len(r) : Changes(i, r[j])
      BY DEF LastWaits
  <2>1. PICK j \in (k + 1 + 1)..Len(q) : Changes(i, q[j])
      BY <1>1, <1>3 DEF LastWaits
  <2>2. j - 1 \in (k + 1)..Len(r) /\ r[j-1] = q[j]
      BY <1>1, <2>1
  <2> QED
      BY <2>1, <2>2
<1>4. ASSUME LastWaits(i, t, q), Changes(i, x), ~Waits(i, r) PROVE x = Evt(t, i)
  <2> SUFFICES ASSUME x # Evt(t, i) PROVE FALSE
      OBVIOUS
  <2>1. PICK j \in (1 + 1)..Len(q) : Changes(i, q[j])
      BY <1>1, <1>4 DEF LastWaits
  <2> QED
      BY <1>1, <1>2, <1>4, <2>1 DEF Waits
<1>5. ASSUME InTurn(i, q) PROVE InTurn(i, r)
  <2> SUFFICES ASSUME NEW k \in 1..Len(r), Changes(i, r[k]), r[k] # Evt(Down(i), i),
                      NEW m \in 1..(k - 1), Changes(i, r[m]), r[m] # Evt(Down(i), i)
               PROVE  \E j \in (m + 1)..(k - 1) : Changes(i, r[j])
      BY DEF InTurn
  <2>1. m \in 1..Len(r) /\ m + 1 \in 1..(k + 1 - 1) /\ k + 1 \in 1..Len(q) /\ r[k] = q[k+1] /\ r[m] = q[m+1]
      BY <1>1
  <2>2. PICK j \in (m + 1 + 1)..(k + 1 - 1) : Changes(i, q[j])
      BY <1>5, <2>1 DEF InTurn
  <2>3. j - 1 \in (m + 1)..(k - 1) /\ r[j-1] = q[j]
      BY <1>1, <2>1, <2>2
  <2> QED
      BY <2>2, <2>3
<1>6. ASSUME UpsFollowed(i, q) PROVE UpsFollowed(i, r)
  <2> SUFFICES ASSUME NEW k \in 1..Len(r), r[k] = Evt("LINK_UP", i)
               PROVE  \E j \in (k + 1)..Len(r) : Changes(i, r[j])
      BY DEF UpsFollowed
  <2>1. PICK j \in (k + 1 + 1)..Len(q) : Changes(i, q[j])
      BY <1>1, <1>6 DEF UpsFollowed
  <2>2. j - 1 \in (k + 1)..Len(r) /\ r[j-1] = q[j]
      BY <1>1, <2>1
  <2> QED
      BY <2>1, <2>2
<1>7. ASSUME UpsFollowed(i, q), x = Evt("LINK_UP", i) PROVE Waits(i, r)
  <2>1. PICK j \in (1 + 1)..Len(q) : Changes(i, q[j])
      BY <1>1, <1>7 DEF UpsFollowed
  <2> QED
      BY <1>1, <1>2, <2>1 DEF Waits
<1>8. ASSUME Waits(i, q) PROVE Waits(i, r) \/ Changes(i, x)
  <2>1. PICK j \in 1..Len(q) : Changes(i, q[j])
      BY <1>8 DEF Waits
  <2>2. j = 1 \/ j \in (1 + 1)..Len(q)
      BY <1>1
  <2> QED
      BY <1>1, <1>2, <2>1, <2>2 DEF Waits
<1>9. ASSUME Changes(i, x), x # Evt(Down(i), i) PROVE NextIsUp(i, q)
  <2>1. 1..(1 - 1) = {}
      OBVIOUS
  <2> QED
      BY <1>1, <1>9, <2>1 DEF NextIsUp
<1>10. ASSUME InTurn(i, q), NextIsUp(i, r), x # Evt(Down(i), i) PROVE ~Changes(i, x) /\ NextIsUp(i, q)
  <2>1. PICK k \in 1..Len(r) : /\ Changes(i, r[k]) /\ r[k] # Evt(Down(i), i)
                               /\ \A j \in 1..(k - 1) : ~Changes(i, r[j])
      BY <1>10 DEF NextIsUp
  <2>2. \A j \in (1 + 1)..(k + 1 - 1) : j - 1 \in 1..(k - 1) /\ r[j-1] = q[j]
      BY <1>1
  <2>3. k + 1 \in 1..Len(q) /\ q[k+1] = r[k] /\ 1 \in 1..(k + 1 - 1)
      BY <1>1
  <2>4. ~Changes(i, x)
    <3> SUFFICES ASSUME Changes(i, x) PROVE FALSE
        OBVIOUS
    <3>1. \E j \in (1 + 1)..(k + 1 - 1) : Changes(i, q[j])
        BY <1>1, <1>10, <2>1, <2>3 DEF InTurn
    <3> QED
        BY <2>1, <2>2, <3>1
  <2>5. \A j \in 1..(k + 1 - 1) : j = 1 \/ j \in (1 + 1)..(k + 1 - 1)
      BY <1>1
  <2>6. \A j \in 1..(k + 1 - 1) : ~Changes(i, q[j])
      BY <1>1, <2>1, <2>2, <2>4, <2>5
  <2> QED
      BY <2>1, <2>3, <2>4, <2>6 DEF NextIsUp
<1> QED
    BY <1>3, <1>4, <1>5, <1>6, <1>7, <1>8, <1>9, <1>10

(* The walk *)

LEMMA AheadAtHead ==
    ASSUME ListInv, cursor' = Head(listeners), UNCHANGED listeners, NEW b \in Nodes, In(listeners, b)
    PROVE  Ahead(b)'
<1>1. Reaches(listeners, cursor', b) /\ cursor' \in Nodes
    BY HeadOfList
<1> QED
    BY <1>1, NullAssumption DEF Ahead

LEMMA AheadSkip ==
    ASSUME IfaceInv, Skip, NEW b \in Nodes, b[1] = evt.event, Ahead(b)
    PROVE  Ahead(b)'
<1>1. cursor' = SkipTo(cursor, evt.event) /\ cursor # NULL /\ UNCHANGED listeners
    BY DEF Skip, SkipTo, registry
<1>2. cursor \in Nodes /\ In(listeners, cursor) /\ listeners \in Seq(Nodes) /\ Once(listeners)
    BY <1>1 DEF IfaceInv, WalkInv, ListInv
<1>3. Reaches(listeners, cursor, b)
    BY DEF Ahead
<1>4. cursor' # NULL /\ Reaches(listeners, cursor', b)
    BY <1>1, <1>2, <1>3, SkipToOf
<1> QED
    BY <1>1, <1>4 DEF Ahead

\* The step from the cursor to the next node leaves what is behind the cursor ahead.
LEMMA AheadOn ==
    ASSUME IfaceInv, cursor \in Nodes, In(listeners, cursor), cursor' = NextNode(cursor),
           NEW b \in Nodes, Ahead(b), b # cursor,
           \A a \in Nodes : Before(listeners, cursor, a) /\ Before(listeners, a, b) => Before(listeners', a, b)
    PROVE  Ahead(b)'
<1>1. listeners \in Seq(Nodes) /\ Once(listeners) /\ Before(listeners, cursor, b)
    BY DEF IfaceInv, ListInv, Ahead, Reaches
<1>2. cursor' # NULL /\ Reaches(listeners, cursor', b) /\ cursor' \in Nodes /\ Before(listeners, cursor, cursor')
    BY <1>1, NextNodeOf
<1>3. cursor' = b \/ Before(listeners', cursor', b)
    BY <1>2 DEF Reaches
<1> QED
    BY <1>2, <1>3 DEF Ahead, Reaches

\* Every object has a node for the address, and one for the event on which it goes.
LEMMA ObjectNodes ==
    ASSUME IfaceInv, KindsInv, NEW o \in live, NEW n \in {<<"ADDR_ADD", o>>, <<Down(obj[o].iface), o>>}
    PROVE  n \in Nodes /\ In(listeners, n)
<1> DEFINE i == obj[o].iface
           kind == obj[o].kind
           nodes == NodesOf(kind, o)
<1>1. o \in Objs /\ kind \in Kinds /\ kind \in KindsOf(i) /\ i \in Ifaces /\ HasNodes(listeners, nodes, o)
    BY PresentIfaces DEF IfaceInv, KindsInv, HeapInv, ListInv, Objects
<1>2. PICK k \in 1..Len(Registrations(kind)) : n = <<Registrations(kind)[k], o>>
  <2>1. n = <<"ADDR_ADD", o>> \/ n = <<Down(i), o>>
      OBVIOUS
  <2>2. CASE kind = "lan"
    <3>1. Down(i) = "LINK_DOWN" /\ Registrations(kind) = <<"ADDR_ADD", "LINK_DOWN", "LAN_DELETE_SELF">>
        BY <1>1, <2>2, IfacesAssumption DEF Down, KindsOf, Registrations
    <3> HIDE DEF i, kind
    <3> QED
        BY <2>1, <3>1
  <2>3. CASE kind = "wlan"
    <3>1. Down(i) = "WLAN_LINK_DOWN" /\ Registrations(kind) = <<"ADDR_ADD", "WLAN_LINK_DOWN", "LAN_DELETE_SELF">>
        BY <1>1, <2>3 DEF Down, KindsOf, Registrations, Ifaces
    <3> HIDE DEF i, kind
    <3> QED
        BY <2>1, <3>1
  <2>4. CASE kind = "WLAN_WAN"
    <3>1. Down(i) = "WLAN_LINK_DOWN" /\ Registrations(kind) = <<"ADDR_ADD", "WLAN_LINK_DOWN">>
        BY <1>1, <2>4 DEF Down, KindsOf, Registrations, Ifaces
    <3> HIDE DEF i, kind
    <3> QED
        BY <2>1, <3>1
  <2>5. CASE kind \in {"Q6_WAN", "ECM_WAN"}
    <3>1. Down(i) = "LINK_DOWN" /\ Registrations(kind) = <<"ADDR_ADD", "LINK_DOWN">>
        BY <1>1, <2>5, IfacesAssumption DEF Down, KindsOf, Registrations
    <3> HIDE DEF i, kind
    <3> QED
        BY <2>1, <3>1
  <2> QED
      BY <1>1, <2>2, <2>3, <2>4, <2>5 DEF Kinds
<1>3. Len(nodes) = Len(Registrations(kind)) /\ nodes[k] = n
  <2>1. Len(Registrations(kind)) \in Nat
      BY <1>1 DEF Registrations, Kinds
  <2> QED
      BY <1>2, <2>1 DEF NodesOf
<1>4. In(nodes, n)
    BY <1>2, <1>3 DEF In
<1>5. nodes = NodesOf(kind, o)
    OBVIOUS
<1> HIDE DEF nodes
<1>6. n \in Nodes /\ n[2] = o
    BY <1>1, <1>2, <1>3, <1>5, NodesOwn
<1> QED
    BY <1>1, <1>4, <1>6 DEF HasNodes

LEMMA ManagerNode ==
    ASSUME IfaceInv, NEW i, NEW e \in Ups(i)
    PROVE  <<e, Manager>> \in Nodes /\ In(listeners, <<e, Manager>>)
BY DEF IfaceInv, ListInv, Ups, ManagerEvents, Nodes, Events

(* The objects of an interface *)

\* Interface i has the same object, or none, as before.
SameObject(i) ==
    /\ \A o \in live : obj[o].iface = i =>
          o \in live' /\ obj'[o].iface = i /\ obj'[o].kind = obj[o].kind /\ obj'[o].active = obj[o].active
    /\ \A o \in live' : obj'[o].iface = i => o \in live /\ obj[o].iface = i

LEMMA SameHas ==
    ASSUME NEW i, SameObject(i)
    PROVE  /\ Active(i)' <=> Active(i)
           /\ \A e : Has(i, e)' <=> Has(i, e)
           /\ Gone(i)' <=> Gone(i)
           /\ Inactive(i)' <=> Inactive(i)
<1>1. Active(i)' <=> Active(i)
    BY DEF Active, SameObject
<1>2. \A K : HasKind(i, K)' <=> HasKind(i, K)
    BY DEF HasKind, SameObject
<1>3. Gone(i)' <=> Gone(i)
    BY DEF Gone, SameObject
<1>4. Inactive(i)' <=> Inactive(i)
    BY DEF Inactive, SameObject
<1> QED
    BY <1>1, <1>2, <1>3, <1>4 DEF Has

\* A step in a walk that is not about interface i.
LEMMA SameFor ==
    ASSUME NEW i \in Ifaces, ChangeInv(i), UNCHANGED <<evt, link, wlan, present>>, SameObject(i),
           Waits(i, external') <=> Waits(i, external), NextIsUp(i, external') <=> NextIsUp(i, external),
           \A e \in Ups(i) : evt = Evt(e, i) /\ Ahead(<<e, Manager>>) => Ahead(<<e, Manager>>)',
           \A o \in live : evt = Evt(Down(i), i) /\ obj[o].iface = i /\ obj[o].active /\ Ahead(<<Down(i), o>>)
                           => Ahead(<<Down(i), o>>)'
    PROVE  ChangeInv(i)'
<1>1. /\ Active(i)' <=> Active(i)
      /\ \A e : Has(i, e)' <=> Has(i, e)
      /\ Gone(i)' <=> Gone(i)
      /\ Inactive(i)' <=> Inactive(i)
    BY SameHas
<1>2. Target(i)' = Target(i) /\ OutsideEvents' = OutsideEvents
    BY DEF Target, OutsideEvents
<1>3. Settled(i)'
    BY <1>1, <1>2 DEF ChangeInv, Settled, Waits
<1>4. Arrives(i)'
    BY <1>1 DEF ChangeInv, Arrives
<1>5. Leaves(i)'
    BY DEF ChangeInv, Leaves, SameObject
<1>6. Free(i)' <=> Free(i)
    BY <1>1 DEF Free
<1> QED
    BY <1>1, <1>2, <1>3, <1>4, <1>5, <1>6 DEF ChangeInv, Waits, NextIsUp

(* The other threads *)

\* The events es, which an outside thread posts with what it knows changed to new, are
\* fair to interface i: nothing of i's and nothing new, or the new state at the end.
Posts(i, es, new) ==
    \/ /\ new = Target(i)
       /\ \A k \in 1..Len(es) : ~Changes(i, es[k]) /\ (i \notin WlanIfs => es[k] # Evt("LINK_UP", i))
    \/ i \notin WlanIfs /\ es # << >> /\ es[Len(es)] = Evt(new, i)
    \/ i \in WlanIfs /\ es = <<Evt(new, i)>> /\ (new # Down(i) => Target(i) = Down(i))

LEMMA TargetChanges ==
    ASSUME NEW i
    PROVE  Changes(i, Evt(Target(i), i)) /\ (Target(i) # Down(i) => Target(i) \in Ups(i))
BY DEF Changes, Target, Ups, Down

LEMMA TargetChangesNext ==
    ASSUME NEW i
    PROVE  Changes(i, Evt(Target(i)', i)) /\ (Target(i)' # Down(i) => Target(i)' \in Ups(i))
BY DEF Changes, Target, Ups, Down

LEMMA EvtDiffer ==
    ASSUME NEW i, NEW j, NEW a, NEW b, Evt(a, i) = Evt(b, j)
    PROVE  a = b /\ i = j
<1>1. Evt(a, i).event = Evt(b, j).event /\ Evt(a, i).iface = Evt(b, j).iface
    OBVIOUS
<1> QED
    BY <1>1 DEF Evt

LEMMA JoinedIn ==
    ASSUME NEW S, NEW q \in Seq(S), NEW es \in Seq(S), NEW r, r = q \o es, NEW x
    PROVE  In(r, x) <=> In(q, x) \/ In(es, x)
<1>1. /\ Len(r) = Len(q) + Len(es) /\ Len(q) \in Nat /\ Len(es) \in Nat
      /\ \A k \in 1..Len(q) : r[k] = q[k] /\ k \in 1..Len(r)
      /\ \A k \in 1..Len(es) : r[Len(q) + k] = es[k] /\ Len(q) + k \in 1..Len(r)
    OBVIOUS
<1>2. \A k \in 1..Len(r) : k \in 1..Len(q) \/ (k - Len(q) \in 1..Len(es) /\ r[k] = es[k - Len(q)])
    BY <1>1
<1>3. In(r, x) => In(q, x) \/ In(es, x)
    BY <1>1, <1>2 DEF In
<1>4. In(q, x) => In(r, x)
    BY <1>1 DEF In
<1>5. ASSUME NEW k \in 1..Len(es), es[k] = x PROVE In(r, x)
    BY <1>1, <1>5 DEF In
<1> QED
    BY <1>3, <1>4, <1>5 DEF In

LEMMA PostStep ==
    ASSUME CaughtInv, NEW es \in Seq(OutsideEvents), external' = external \o es,
           UNCHANGED <<evt, cursor, listeners, obj, present>>,
           \A i \in Ifaces : Posts(i, es, Target(i)')
    PROVE  WaitingInv' /\ ChangesInv'
<1> DEFINE q == external
           r == external'
<1>1. q \in Seq(OutsideEvents) /\ r = q \o es
    BY DEF CaughtInv, IfaceInv, QueuesInv
<1>2. SUFFICES ASSUME NEW i \in Ifaces, NEW t, t = Target(i)'
               PROVE  /\ LastWaits(i, t, r) /\ (i \in WlanIfs => InTurn(i, r))
                      /\ (i \notin WlanIfs => UpsFollowed(i, r)) /\ ChangeInv(i)'
    BY DEF WaitingInv, ChangesInv, LastWaits, InTurn, UpsFollowed
<1>3. /\ LastWaits(i, Target(i), q) /\ (i \in WlanIfs => InTurn(i, q))
      /\ (i \notin WlanIfs => UpsFollowed(i, q)) /\ ChangeInv(i) /\ Posts(i, es, t)
    BY <1>2 DEF CaughtInv, WaitingInv, ChangesInv
<1>4. SameObject(i) /\ \A n : Ahead(n)' <=> Ahead(n)
    BY DEF SameObject, live, Ahead
<1>5. /\ Active(i)' <=> Active(i)
      /\ \A e : Has(i, e)' <=> Has(i, e)
      /\ Gone(i)' <=> Gone(i)
      /\ Inactive(i)' <=> Inactive(i)
    BY <1>4, SameHas
<1>6. Arrives(i)' /\ Leaves(i)' /\ OutsideEvents' = OutsideEvents /\ (Free(i)' <=> Free(i))
    BY <1>3, <1>4, <1>5 DEF ChangeInv, Arrives, Leaves, SameObject, OutsideEvents, Free
<1>7. SUFFICES /\ LastWaits(i, t, r) /\ (i \in WlanIfs => InTurn(i, r))
               /\ (i \notin WlanIfs => UpsFollowed(i, r))
               /\ Waits(i, q) => Waits(i, r)
               /\ ~Waits(i, r) => evt = Evt(t, i) \/ (~Changes(i, evt) /\ Has(i, t))
               /\ i \in WlanIfs /\ NextIsUp(i, r) => Free(i)
    BY <1>2, <1>3, <1>5, <1>6 DEF ChangeInv, Settled, Waits, NextIsUp
<1> HIDE DEF q, r
<1>8. CASE /\ t = Target(i)
           /\ \A k \in 1..Len(es) : ~Changes(i, es[k]) /\ (i \notin WlanIfs => es[k] # Evt("LINK_UP", i))
  <2>1. /\ LastWaits(i, t, r) /\ (Waits(i, r) <=> Waits(i, q)) /\ (NextIsUp(i, r) <=> NextIsUp(i, q))
        /\ (i \in WlanIfs => InTurn(i, r)) /\ (i \notin WlanIfs => UpsFollowed(i, r))
      BY <1>1, <1>3, <1>8, QuietPost
  <2> QED
      BY <1>3, <1>8, <2>1 DEF ChangeInv, Settled, q
<1>9. CASE i \notin WlanIfs /\ es # << >> /\ es[Len(es)] = Evt(t, i)
    BY <1>1, <1>2, <1>3, <1>9, ChangePost, TargetChangesNext
<1>10. CASE i \in WlanIfs /\ es = <<Evt(t, i)>> /\ (t # Down(i) => Target(i) = Down(i))
  <2> DEFINE x == Evt(t, i)
  <2>1. es # << >> /\ es[Len(es)] = x /\ x \in OutsideEvents /\ Changes(i, x) /\ r = Append(q, x)
    <3>1. Len(es) = 1 /\ es[1] = x
        BY <1>10
    <3>2. r = Append(q, x)
        BY <1>1, <1>10
    <3> QED
        BY <1>2, <1>10, <3>1, <3>2, TargetChangesNext
  <2>2. x # Evt(Down(i), i) => t # Down(i)
      OBVIOUS
  <2> HIDE DEF x
  <2>3. LastWaits(i, t, r) /\ Waits(i, r)
      BY <1>1, <2>1, ChangePost DEF x
  <2>4. /\ InTurn(i, r)
        /\ NextIsUp(i, r) => NextIsUp(i, q) \/ (~Waits(i, q) /\ x # Evt(Down(i), i))
      BY <1>1, <1>3, <1>10, <2>1, <2>2, TurnPost
  <2>5. ASSUME ~Waits(i, q), t # Down(i) PROVE Free(i)
      BY <1>3, <1>10, <2>5 DEF ChangeInv, Settled, Free, q, Has, Down
  <2> QED
      BY <1>3, <1>10, <2>2, <2>3, <2>4, <2>5 DEF ChangeInv, q
<1> QED
    BY <1>3, <1>8, <1>9, <1>10 DEF Posts

LEMMA LinkEvents ==
    ASSUME NEW i \in present, NEW a, NEW b, NEW es, es = NewLinkEvents(i, a, b)
    PROVE  /\ es \in Seq(OutsideEvents) /\ es # << >>
           /\ es[Len(es)] = Evt(IF b = "running" THEN "USB_LINK_UP" ELSE "LINK_DOWN", i)
           /\ \A k \in 1..Len(es) : \E e \in {"LINK_DOWN", "LINK_UP", "USB_LINK_UP"} : es[k] = Evt(e, i)
<1> DEFINE y == Evt(IF b = "running" THEN "USB_LINK_UP" ELSE "LINK_DOWN", i)
           x == Evt(IF b = "down" THEN "LINK_DOWN" ELSE "LINK_UP", i)
<1>1. x \in OutsideEvents /\ y \in OutsideEvents
    BY DEF Evt, OutsideEvents, Events
<1>2. /\ es \in Seq(OutsideEvents)
      /\ (Len(es) = 2 /\ es[1] = x /\ es[2] = y) \/ (Len(es) = 1 /\ es[1] = y)
  <2> DEFINE c == IF (a = "down") # (b = "down") THEN <<x>> ELSE << >>
             d == IF b = "running" THEN <<Evt("USB_LINK_UP", i)>> ELSE <<Evt("LINK_DOWN", i)>>
  <2>1. es = c \o d
      BY Zenon DEF NewLinkEvents
  <2>2. d = <<y>>
      OBVIOUS
  <2>3. c = <<x>> \/ c = << >>
      OBVIOUS
  <2> HIDE DEF c, d, x, y
  <2>4. CASE c = <<x>>
      BY <1>1, <2>1, <2>2, <2>4
  <2>5. CASE c = << >>
      BY <1>1, <2>1, <2>2, <2>5
  <2> QED
      BY <2>3, <2>4, <2>5
<1>3. /\ \E e \in {"LINK_DOWN", "LINK_UP", "USB_LINK_UP"} : x = Evt(e, i)
      /\ \E e \in {"LINK_DOWN", "LINK_UP", "USB_LINK_UP"} : y = Evt(e, i)
    OBVIOUS
<1> HIDE DEF x, y
<1>4. CASE Len(es) = 2 /\ es[1] = x /\ es[2] = y
  <2>1. es \in Seq(OutsideEvents) /\ Len(es) = 2 /\ es[1] = x /\ es[2] = y /\ es # << >>
      BY <1>2, <1>4
  <2>2. \A k \in 1..2 : k = 1 \/ k = 2
      OBVIOUS
  <2>3. es[Len(es)] = y /\ \A k \in 1..Len(es) : es[k] = x \/ es[k] = y
      BY <2>1, <2>2
  <2> QED
      BY <1>3, <2>1, <2>3 DEF y
<1>5. CASE Len(es) = 1 /\ es[1] = y
  <2>1. es \in Seq(OutsideEvents) /\ Len(es) = 1 /\ es[1] = y /\ es # << >>
      BY <1>2, <1>5
  <2>2. \A k \in 1..1 : k = 1
      OBVIOUS
  <2>3. es[Len(es)] = y /\ \A k \in 1..Len(es) : es[k] = y
      BY <2>1, <2>2
  <2> QED
      BY <1>3, <2>1, <2>3 DEF y
<1> QED
    BY <1>2, <1>4, <1>5

\* Outside threads post what they are about: one event, or two for a new link.
LEMMA OutsidePosts ==
    ASSUME CaughtInv, Outside, UNCHANGED present
    PROVE  \E es \in Seq(OutsideEvents) :
             /\ external' = external \o es /\ \A i \in Ifaces : Posts(i, es, Target(i)')
             /\ \A i \in Ifaces : addr'[i] => addr[i] \/ In(es, Evt("ADDR_ADD", i))
<1>1. /\ present \subseteq Ifaces /\ external \in Seq(OutsideEvents) /\ LinksInv
    BY PresentIfaces DEF CaughtInv, IfaceInv, QueuesInv
<1>2. ASSUME NEW i \in present, NEW s \in {"down", "up", "running"}, NewLink(i, s)
      PROVE  \E es \in Seq(OutsideEvents) :
               /\ external' = external \o es /\ \A j \in Ifaces : Posts(j, es, Target(j)')
               /\ \A j \in Ifaces : addr'[j] => addr[j] \/ In(es, Evt("ADDR_ADD", j))
  <2> DEFINE es == NewLinkEvents(i, link[i], s)
  <2>1. /\ es \in Seq(OutsideEvents) /\ es # << >>
        /\ es[Len(es)] = Evt(IF s = "running" THEN "USB_LINK_UP" ELSE "LINK_DOWN", i)
        /\ \A k \in 1..Len(es) : \E e \in {"LINK_DOWN", "LINK_UP", "USB_LINK_UP"} : es[k] = Evt(e, i)
      BY LinkEvents
  <2>2. external' = external \o es /\ UNCHANGED <<wlan, addr>> /\ link' = [link EXCEPT ![i] = s]
      BY <1>2 DEF NewLink, PostExternal
  <2> HIDE DEF es
  <2>3. ASSUME NEW j \in Ifaces, j # i PROVE Posts(j, es, Target(j)')
    <3>1. link'[j] = link[j]
        BY <1>1, <2>2, <2>3 DEF LinksInv
    <3>2. Target(j)' = Target(j)
        BY <2>2, <3>1 DEF Target
    <3>3. \A k \in 1..Len(es) : ~Changes(j, es[k]) /\ es[k] # Evt("LINK_UP", j)
        BY <2>1, <2>3, EvtDiffer DEF Changes
    <3> QED
        BY <3>2, <3>3 DEF Posts
  <2>4. CASE i \in WlanIfs
    <3>1. Target(i)' = Target(i)
        BY <2>2, <2>4 DEF Target
    <3>2. \A k \in 1..Len(es) : ~Changes(i, es[k])
        BY <2>1, <2>4, EvtDiffer DEF Changes, Ups, Down
    <3> QED
        BY <2>1, <2>2, <2>3, <2>4, <3>1, <3>2 DEF Posts
  <2>5. CASE i \notin WlanIfs
    <3>1. link'[i] = s
        BY <1>1, <2>2 DEF LinksInv
    <3>2. Target(i)' = IF s = "running" THEN "USB_LINK_UP" ELSE "LINK_DOWN"
        BY <2>5, <3>1 DEF Target
    <3>3. Posts(i, es, Target(i)')
        BY <2>1, <2>5, <3>2 DEF Posts
    <3> QED
        BY <2>1, <2>2, <2>3, <3>3
  <2> QED
      BY <2>4, <2>5
<1>3. ASSUME NEW i \in present, NEW e \in Events \ {"LAN_DELETE_SELF", "LINK_UP"}, external' = external \o <<Evt(e, i)>>,
             e = Target(i)' \/ (e = "ADDR_ADD" /\ Target(i)' = Target(i))
               \/ (e = "LINK_DOWN" /\ i \in WlanIfs /\ Target(i)' = Target(i)),
             i \in WlanIfs /\ Target(i)' # Down(i) => e # Target(i)' \/ Target(i) = Down(i),
             \A j \in Ifaces : j # i => Target(j)' = Target(j),
             \A j \in Ifaces : addr'[j] => addr[j] \/ (j = i /\ e = "ADDR_ADD")
      PROVE  \E es \in Seq(OutsideEvents) :
               /\ external' = external \o es /\ \A j \in Ifaces : Posts(j, es, Target(j)')
               /\ \A j \in Ifaces : addr'[j] => addr[j] \/ In(es, Evt("ADDR_ADD", j))
  <2> DEFINE x == Evt(e, i)
             es == <<x>>
  <2>1. x \in OutsideEvents
      BY DEF Evt, OutsideEvents
  <2> HIDE DEF x
  <2>2. es \in Seq(OutsideEvents) /\ es # << >> /\ Len(es) = 1 /\ es[1] = x /\ \A k \in 1..Len(es) : es[k] = x
      BY <2>1
  <2>3. ASSUME NEW j \in Ifaces, j # i PROVE Posts(j, es, Target(j)')
    <3>1. ~Changes(j, x) /\ x # Evt("LINK_UP", j)
        BY <2>3, EvtDiffer DEF Changes, x
    <3> QED
        BY <1>3, <2>2, <2>3, <3>1 DEF Posts
  <2>4. Posts(i, es, Target(i)')
    <3>1. CASE e = Target(i)'
      <4>1. es = <<Evt(Target(i)', i)>> /\ es[Len(es)] = Evt(Target(i)', i)
          BY <2>2, <3>1 DEF x
      <4> HIDE DEF es
      <4> QED
          BY <1>3, <2>2, <3>1, <4>1 DEF Posts
    <3>2. CASE e # Target(i)'
      <4>1. Target(i)' = Target(i) /\ e \in {"ADDR_ADD", "LINK_DOWN"}
          BY <1>3, <3>2
      <4>2. CASE Changes(i, x)
        <5>1. e \in Ups(i) \cup {Down(i)}
            BY <4>2, EvtDiffer DEF Changes, x
        <5>2. e = "LINK_DOWN" /\ i \notin WlanIfs
            BY <4>1, <5>1 DEF Ups, Down
        <5> QED
            BY <1>3, <3>2, <5>2
      <4>3. CASE ~Changes(i, x)
        <5>1. x # Evt("LINK_UP", i)
            BY <4>1, EvtDiffer DEF x
        <5> QED
            BY <2>2, <4>1, <4>3, <5>1 DEF Posts
      <4> QED
          BY <4>2, <4>3
    <3> QED
        BY <3>1, <3>2
  <2>5. \A j \in Ifaces : addr'[j] => addr[j] \/ In(es, Evt("ADDR_ADD", j))
      BY <1>3, <2>2 DEF In, x
  <2> QED
      BY <1>3, <2>2, <2>3, <2>4, <2>5 DEF x
<1>4. ASSUME NEW i \in present, DelLink(i)
      PROVE  external' = external \o <<Evt("LINK_DOWN", i)>> /\ UNCHANGED <<link, wlan, addr>> /\ link[i] = "down"
    BY <1>4 DEF DelLink, PostExternal, env
<1>5. ASSUME NEW i \in present, NewAddr(i)
      PROVE  external' = external \o <<Evt("ADDR_ADD", i)>> /\ UNCHANGED <<link, wlan>>
             /\ \A j \in Ifaces : addr'[j] => addr[j] \/ j = i
    BY <1>1, <1>5 DEF NewAddr, PostExternal, LinksInv
<1>6. ASSUME NEW i \in present, DelAddr(i)
      PROVE  external' = external /\ UNCHANGED <<link, wlan>> /\ \A j \in Ifaces : addr'[j] => addr[j]
    BY <1>1, <1>6 DEF DelAddr, LinksInv
<1>7. ASSUME NEW i \in present \cap WlanIfs, NEW mode \in {"ap", "sta"}, WlanConnect(i, mode)
      PROVE  /\ external' = external \o <<Evt(Target(i)', i)>> /\ UNCHANGED addr /\ Target(i) = Down(i)
             /\ \A j \in Ifaces : j # i => Target(j)' = Target(j)
             /\ Target(i)' \in {"AP_LINK_UP", "STA_LINK_UP"}
    BY <1>1, <1>7 DEF WlanConnect, PostExternal, LinksInv, Target, Down
<1>8. ASSUME NEW i \in present \cap WlanIfs, WlanDisconnect(i)
      PROVE  /\ external' = external \o <<Evt("WLAN_LINK_DOWN", i)>> /\ UNCHANGED addr
             /\ \A j \in Ifaces : j # i => Target(j)' = Target(j)
             /\ Target(i)' = "WLAN_LINK_DOWN" /\ Target(i)' = Down(i)
    BY <1>1, <1>8 DEF WlanDisconnect, PostExternal, LinksInv, Target, Down
<1>9. UNCHANGED <<link, wlan>> => \A j : Target(j)' = Target(j)
    BY DEF Target
<1>10. ASSUME NEW i \in present, link[i] = "down" PROVE i \notin WlanIfs => Target(i) = "LINK_DOWN"
    BY <1>10 DEF Target
<1>11. /\ "LINK_DOWN" \in Events \ {"LAN_DELETE_SELF", "LINK_UP"} /\ "ADDR_ADD" \in Events \ {"LAN_DELETE_SELF", "LINK_UP"}
       /\ "WLAN_LINK_DOWN" \in Events \ {"LAN_DELETE_SELF", "LINK_UP"}
       /\ {"AP_LINK_UP", "STA_LINK_UP"} \subseteq Events \ {"LAN_DELETE_SELF", "LINK_UP"}
    BY DEF Events
<1> DEFINE G == \E es \in Seq(OutsideEvents) :
                 /\ external' = external \o es /\ \A j \in Ifaces : Posts(j, es, Target(j)')
                 /\ \A j \in Ifaces : addr'[j] => addr[j] \/ In(es, Evt("ADDR_ADD", j))
<1>12. ASSUME NEW i \in present, DelLink(i) PROVE G
  <2>1. (\A j : Target(j)' = Target(j)) /\ external' = external \o <<Evt("LINK_DOWN", i)>> /\ UNCHANGED addr
      BY <1>4, <1>9, <1>12
  <2>2. i \notin WlanIfs => "LINK_DOWN" = Target(i)'
      BY <1>4, <1>10, <1>12, <2>1
  <2>3. i \in WlanIfs => "LINK_DOWN" # Target(i)'
      BY <2>1 DEF Target
  <2> QED
      BY <1>3, <1>11, <2>1, <2>2, <2>3
<1>13. ASSUME NEW i \in present, NewAddr(i) PROVE G
  <2>1. i \in WlanIfs /\ Target(i)' # Down(i) => "ADDR_ADD" # Target(i)'
      BY DEF Target
  <2> QED
      BY <1>3, <1>5, <1>9, <1>11, <1>13, <2>1
<1>14. ASSUME NEW i \in present, DelAddr(i) PROVE G
  <2>1. << >> \in Seq(OutsideEvents) /\ external = external \o << >> /\ Len(<< >>) = 0
      BY <1>1
  <2>2. \A j \in Ifaces : Posts(j, << >>, Target(j)')
      BY <1>6, <1>9, <1>14 DEF Posts
  <2> QED
      BY <1>6, <1>14, <2>1, <2>2
<1>15. ASSUME NEW i \in present \cap WlanIfs, NEW mode \in {"ap", "sta"}, WlanConnect(i, mode) PROVE G
    BY <1>3, <1>7, <1>11, <1>15
<1>16. ASSUME NEW i \in present \cap WlanIfs, WlanDisconnect(i) PROVE G
    BY <1>3, <1>8, <1>11, <1>16
<1> QED
    BY <1>2, <1>12, <1>13, <1>14, <1>15, <1>16 DEF Outside

LEMMA OutsideCaught == CaughtInv /\ Outside /\ UNCHANGED present => CaughtInv'
<1> SUFFICES ASSUME CaughtInv, Outside, UNCHANGED present
             PROVE  CaughtInv'
    OBVIOUS
<1>1. UNCHANGED <<evt, cursor, registry, listeners, obj, if_cat>>
    BY DEF Outside, NewLink, DelLink, NewAddr, DelAddr, WlanConnect, WlanDisconnect, registry
<1>2. PICK es \in Seq(OutsideEvents) :
        /\ external' = external \o es /\ \A i \in Ifaces : Posts(i, es, Target(i)')
        /\ \A i \in Ifaces : addr'[i] => addr[i] \/ In(es, Evt("ADDR_ADD", i))
    BY OutsidePosts
<1>3. WaitingInv' /\ ChangesInv'
    BY <1>1, <1>2, PostStep
<1>4. IfaceInv'
    BY OutsideStep DEF CaughtInv
<1>5. live' = live /\ \A i : Active(i)' <=> Active(i)
    BY <1>1 DEF live, Active
<1>6. \A i \in WlanIfs : link'[i] = "down" => wlan'[i] = "down"
  <2>1. LinksInv /\ (\A i \in WlanIfs : link[i] = "down" => wlan[i] = "down") /\ WlanIfs \subseteq Ifaces
      BY DEF CaughtInv, KindsInv, IfaceInv, Ifaces
  <2> QED
      BY <2>1 DEF Outside, NewLink, DelLink, NewAddr, DelAddr, WlanConnect, WlanDisconnect, env, LinksInv
<1>7. KindsInv'
    BY <1>1, <1>5, <1>6 DEF CaughtInv, KindsInv
<1>8. \A x : In(external', x) <=> In(external, x) \/ In(es, x)
  <2>1. external \in Seq(OutsideEvents)
      BY DEF CaughtInv, IfaceInv, QueuesInv
  <2> QED
      BY <1>2, <2>1, JoinedIn
<1>9. AddressInv'
  <2> SUFFICES ASSUME NEW o \in live, addr'[obj[o].iface], ~obj[o].addr
               PROVE  Told(o)'
      BY <1>1, <1>5 DEF AddressInv
  <2>1. obj[o].iface \in Ifaces
      BY PresentIfaces DEF CaughtInv, IfaceInv, HeapInv
  <2>2. (\A n : Ahead(n)' <=> Ahead(n)) /\ obj' = obj /\ evt' = evt
      BY <1>1 DEF Ahead
  <2>3. CASE addr[obj[o].iface]
    <3>1. Told(o)
        BY <2>3 DEF CaughtInv, AddressInv
    <3> QED
        BY <1>8, <2>2, <3>1 DEF Told
  <2>4. CASE In(es, Evt("ADDR_ADD", obj[o].iface))
      BY <1>8, <2>2, <2>4 DEF Told
  <2> QED
      BY <1>2, <2>1, <2>3, <2>4
<1> QED
    BY <1>3, <1>4, <1>7, <1>9 DEF CaughtInv

(* The dispatcher *)

LEMMA EvtTyped ==
    ASSUME NEW i \in Ifaces, NEW e \in Events
    PROVE  /\ Evt(e, i).event = e /\ Evt(e, i).iface = i /\ Evt(e, i) # NULL
           /\ ~Changes(i, NULL)
           /\ Down(i) \in Events /\ Ups(i) \subseteq Events /\ Down(i) \notin Ups(i)
           /\ "LINK_UP" \notin Ups(i) \cup {Down(i)} /\ "ADDR_ADD" \notin Ups(i) \cup {Down(i)}
           /\ "LAN_DELETE_SELF" \notin Ups(i) \cup {Down(i)}
<1>1. Down(i) \in Events /\ Ups(i) \subseteq Events
    BY DEF Down, Ups, Events
<1>2. \A d \in Events : Evt(d, i) \in Queued
    BY DEF Evt, Queued
<1>3. \A d \in Events : Evt(d, i) # NULL
    BY <1>2, NullAssumption
<1>4. ~Changes(i, NULL)
    BY <1>1, <1>3 DEF Changes
<1>5. /\ Down(i) \notin Ups(i)
      /\ "LINK_UP" \notin Ups(i) \cup {Down(i)} /\ "ADDR_ADD" \notin Ups(i) \cup {Down(i)}
      /\ "LAN_DELETE_SELF" \notin Ups(i) \cup {Down(i)}
    BY DEF Down, Ups
<1>6. Evt(e, i).event = e /\ Evt(e, i).iface = i
    BY DEF Evt
<1> QED
    BY <1>1, <1>3, <1>4, <1>5, <1>6

LEMMA ChangeOf ==
    ASSUME NEW i, NEW x, Changes(i, x)
    PROVE  x.iface = i /\ x.event \in Ups(i) \cup {Down(i)} /\ x = Evt(x.event, i)
<1>1. PICK e \in Ups(i) \cup {Down(i)} : x = Evt(e, i)
    BY DEF Changes
<1>2. x.event = e /\ x.iface = i
    BY <1>1 DEF Evt
<1> QED
    BY <1>1, <1>2

\* Between one event and the next, neither of them a change of i.
LEMMA QuietFor ==
    ASSUME NEW i \in Ifaces, ChangeInv(i), UNCHANGED <<link, wlan, present, obj>>,
           ~Changes(i, evt), ~Changes(i, evt'),
           Waits(i, external) => Waits(i, external'),
           i \in WlanIfs /\ NextIsUp(i, external') => NextIsUp(i, external),
           i \notin WlanIfs /\ evt' = Evt("LINK_UP", i) => Waits(i, external'),
           evt' \in OutsideEvents => ~Inactive(i)
    PROVE  ChangeInv(i)'
<1>1. SameObject(i)
    BY DEF SameObject, live
<1>2. /\ Active(i)' <=> Active(i)
      /\ \A e : Has(i, e)' <=> Has(i, e)
      /\ Gone(i)' <=> Gone(i)
      /\ Inactive(i)' <=> Inactive(i)
    BY <1>1, SameHas
<1>3. Target(i)' = Target(i) /\ OutsideEvents' = OutsideEvents
    BY DEF Target, OutsideEvents
<1>4. /\ evt # Evt(Down(i), i) /\ evt' # Evt(Down(i), i)
      /\ \A e \in Ups(i) : evt # Evt(e, i) /\ evt' # Evt(e, i)
    BY DEF Changes
<1>5. evt # Evt(Target(i), i)
    BY TargetChanges
<1>6. Settled(i)'
    BY <1>2, <1>3, <1>5 DEF ChangeInv, Settled, Waits
<1>7. Arrives(i)' /\ Leaves(i)'
    BY <1>4 DEF Arrives, Leaves
<1>8. Free(i) => Free(i)'
    BY <1>2, <1>4 DEF Free
<1>9. i \in WlanIfs /\ NextIsUp(i, external') => Free(i)
    BY DEF ChangeInv
<1>10. Waits(i, external)' <=> Waits(i, external')
    BY DEF Waits
<1>11. NextIsUp(i, external)' <=> NextIsUp(i, external')
    BY DEF NextIsUp
<1> QED
    BY <1>2, <1>3, <1>6, <1>7, <1>8, <1>9, <1>10, <1>11 DEF ChangeInv

LEMMA SameKinds ==
    ASSUME KindsInv, UNCHANGED <<obj, if_cat, link, wlan>>
    PROVE  KindsInv'
<1>1. live' = live /\ \A i : Active(i)' <=> Active(i)
    BY DEF live, Active
<1> QED
    BY <1>1 DEF KindsInv

LEMMA InTail ==
    ASSUME NEW S, NEW q \in Seq(S), q # << >>, NEW x, In(q, x)
    PROVE  x = Head(q) \/ In(Tail(q), x)
<1>1. PICK k \in 1..Len(q) : q[k] = x
    BY DEF In
<1>2. CASE k = 1
    BY <1>1, <1>2
<1>3. CASE k # 1
  <2>1. k - 1 \in 1..Len(Tail(q)) /\ Tail(q)[k - 1] = x
      BY <1>1, <1>3
  <2> QED
      BY <2>1 DEF In
<1> QED
    BY <1>2, <1>3

\* No object has shut down when the queue of internal events is empty.
LEMMA NoneInactive ==
    ASSUME IfaceInv, internal = << >>, evt = NULL, NEW i
    PROVE  ~Inactive(i)
<1>1. HeapInv /\ TeardownInv /\ QueuesInv
    BY DEF IfaceInv
<1>2. ASSUME NEW o \in live, ~obj[o].active PROVE FALSE
  <2>1. In(internal, DeleteOf(o)) \/ evt = DeleteOf(o)
      BY <1>1, <1>2 DEF TeardownInv
  <2>2. DeleteOf(o) # NULL
      BY <1>1, DeleteOfTyped, PresentIfaces
  <2>3. Len(internal) = 0
      OBVIOUS
  <2> QED
      BY <2>1, <2>2, <2>3 DEF In
<1> QED
    BY <1>2 DEF Inactive

\* What the walks preserve, next to IfaceInv.
ObjectsFollow == WaitingInv /\ ChangesInv /\ KindsInv /\ AddressInv

LEMMA TakeInternal ==
    ASSUME CaughtInv, UNCHANGED <<link, wlan, addr, present, obj, if_cat, external, listeners>>, evt = NULL,
           evt' \in DeleteEvents
    PROVE  ObjectsFollow'
<1>1. present \subseteq Ifaces /\ HeapInv
    BY PresentIfaces DEF CaughtInv, IfaceInv
<1>2. (\A i : Target(i)' = Target(i)) /\ live' = live
    BY DEF Target, live
<1>3. WaitingInv'
    BY <1>2 DEF CaughtInv, WaitingInv, LastWaits, InTurn, UpsFollowed
<1>4. ASSUME NEW i \in Ifaces PROVE ChangeInv(i)'
  <2>1. ~Changes(i, evt) /\ evt'.event = "LAN_DELETE_SELF"
      BY EvtTyped DEF DeleteEvents, Events
  <2>2. ~Changes(i, evt') /\ evt' # Evt("LINK_UP", i)
    <3>1. "LAN_DELETE_SELF" \notin Ups(i) \cup {Down(i)}
        BY DEF Ups, Down
    <3> QED
        BY <2>1, <3>1, ChangeOf DEF Evt
  <2>3. evt' \notin OutsideEvents
      BY <2>1 DEF OutsideEvents
  <2>4. ChangeInv(i)
      BY DEF CaughtInv, ChangesInv
  <2> QED
      BY <2>1, <2>2, <2>3, <2>4, QuietFor
<1>5. KindsInv'
    BY SameKinds DEF CaughtInv
<1>6. AddressInv'
  <2> SUFFICES ASSUME NEW o \in live, addr[obj[o].iface], ~obj[o].addr PROVE Told(o)'
      BY <1>2 DEF AddressInv
  <2>1. Told(o)
      BY DEF CaughtInv, AddressInv
  <2>2. /\ evt # Evt("ADDR_ADD", obj[o].iface) /\ evt # Evt(Down(obj[o].iface), obj[o].iface)
    <3>1. obj[o].iface \in Ifaces /\ "ADDR_ADD" \in Events /\ Down(obj[o].iface) \in Events
        BY <1>1 DEF HeapInv, Events, Down
    <3> QED
        BY <3>1, EvtTyped
  <2> QED
      BY <2>1, <2>2 DEF Told
<1> QED
    BY <1>3, <1>4, <1>5, <1>6 DEF ObjectsFollow, ChangesInv

LEMMA TakeExternal ==
    ASSUME CaughtInv, UNCHANGED <<link, wlan, addr, present, obj, if_cat, listeners>>, evt = NULL,
           internal = << >>, external # << >>, evt' = Head(external), external' = Tail(external),
           cursor' = Head(listeners)
    PROVE  ObjectsFollow'
<1> DEFINE q == external
           x == Head(external)
           r == Tail(external)
<1>1. present \subseteq Ifaces /\ HeapInv /\ IfaceInv /\ ListInv /\ KindsInv /\ q \in Seq(OutsideEvents)
    BY PresentIfaces DEF CaughtInv, IfaceInv, QueuesInv
<1>2. (\A i : Target(i)' = Target(i)) /\ live' = live
    BY DEF Target, live
<1>3. ASSUME NEW i \in Ifaces, NEW t, t = Target(i)
      PROVE  /\ LastWaits(i, t, r) /\ (Changes(i, x) /\ ~Waits(i, r) => x = Evt(t, i))
             /\ (i \in WlanIfs => InTurn(i, r)) /\ (i \notin WlanIfs => UpsFollowed(i, r))
             /\ (i \notin WlanIfs /\ x = Evt("LINK_UP", i) => Waits(i, r))
             /\ (Waits(i, q) => Waits(i, r) \/ Changes(i, x))
             /\ (Changes(i, x) /\ x # Evt(Down(i), i) => NextIsUp(i, q))
             /\ (i \in WlanIfs /\ NextIsUp(i, r) => x = Evt(Down(i), i) \/ (~Changes(i, x) /\ NextIsUp(i, q)))
  <2>1. LastWaits(i, t, q) /\ (i \in WlanIfs => InTurn(i, q)) /\ (i \notin WlanIfs => UpsFollowed(i, q))
      BY <1>3 DEF CaughtInv, WaitingInv
  <2>2. x = Head(q) /\ r = Tail(q) /\ q # << >>
      OBVIOUS
  <2> HIDE DEF x, r, q
  <2> QED
      BY <1>1, <2>1, <2>2, FirstTaken
<1>4. WaitingInv'
    BY <1>2, <1>3 DEF WaitingInv, LastWaits, InTurn, UpsFollowed
<1>5. ASSUME NEW i \in Ifaces PROVE ChangeInv(i) /\ ~Inactive(i) /\ ~Changes(i, NULL)
  <2>1. ~Changes(i, NULL)
      BY EvtTyped DEF Events
  <2> QED
      BY <1>1, <2>1, NoneInactive DEF CaughtInv, ChangesInv
<1>6. evt' = x /\ external' = r
    OBVIOUS
<1> HIDE DEF x, r
<1>7. ASSUME NEW i \in Ifaces, ~Changes(i, x) PROVE ChangeInv(i)'
  <2>1. i \in WlanIfs /\ NextIsUp(i, r) => NextIsUp(i, q)
      BY <1>3, <1>7 DEF Changes
  <2>2. Waits(i, q) => Waits(i, r)
      BY <1>3, <1>7
  <2>3. i \notin WlanIfs /\ x = Evt("LINK_UP", i) => Waits(i, r)
      BY <1>3
  <2> QED
      BY <1>5, <1>6, <1>7, <2>1, <2>2, <2>3, QuietFor
<1>8. ASSUME NEW i \in Ifaces, Changes(i, x) PROVE ChangeInv(i)'
  <2>1. SameObject(i)
      BY DEF SameObject, live
  <2>2. /\ Active(i)' <=> Active(i)
        /\ \A e : Has(i, e)' <=> Has(i, e)
        /\ Gone(i)' <=> Gone(i)
        /\ Inactive(i)' <=> Inactive(i)
      BY <2>1, SameHas
  <2>3. Settled(i)'
    <3>1. ~Waits(i, r) => x = Evt(Target(i), i)
        BY <1>3, <1>8
    <3> QED
        BY <1>2, <1>6, <3>1 DEF Settled, Waits
  <2>4. Arrives(i)'
    <3> SUFFICES ASSUME NEW e \in Ups(i), x = Evt(e, i)
                 PROVE  Ahead(<<e, Manager>>)' /\ (i \in WlanIfs => Gone(i))
        BY <1>6, <2>2 DEF Arrives
    <3>1. <<e, Manager>> \in Nodes /\ In(listeners, <<e, Manager>>)
        BY <1>1, ManagerNode
    <3>2. Ahead(<<e, Manager>>)'
        BY <1>1, <3>1, AheadAtHead
    <3>3. x # Evt(Down(i), i)
      <4>1. e # Down(i)
          BY DEF Ups, Down
      <4> QED
          BY <4>1, EvtDiffer
    <3>4. ASSUME i \in WlanIfs PROVE Gone(i)
      <4>1. Free(i)
          BY <1>3, <1>5, <1>8, <3>3, <3>4 DEF ChangeInv, q
      <4>2. ~Active(i)
          BY <1>5, <4>1 DEF Free, Changes
      <4> QED
          BY <1>5, <4>2 DEF Gone, Active, Inactive
    <3> QED
        BY <3>2, <3>4
  <2>5. Leaves(i)'
    <3> SUFFICES ASSUME NEW o \in live, obj[o].iface = i, x = Evt(Down(i), i)
                 PROVE  Ahead(<<Down(i), o>>)'
        BY <1>2, <1>6 DEF Leaves
    <3>1. <<Down(i), o>> \in Nodes /\ In(listeners, <<Down(i), o>>)
        BY <1>1, ObjectNodes
    <3> QED
        BY <1>1, <3>1, AheadAtHead
  <2>6. i \in WlanIfs /\ NextIsUp(i, r) => Free(i)'
      BY <1>3, <1>6, <1>8 DEF Free
  <2>7. x # Evt("LINK_UP", i)
    <3>1. "LINK_UP" \notin Ups(i) \cup {Down(i)}
        BY DEF Ups, Down
    <3> QED
        BY <1>8, <3>1, ChangeOf DEF Evt
  <2>8. NextIsUp(i, external)' <=> NextIsUp(i, r)
      BY <1>6 DEF NextIsUp
  <2> QED
      BY <1>5, <1>6, <2>2, <2>3, <2>4, <2>5, <2>6, <2>7, <2>8 DEF ChangeInv
<1>9. KindsInv'
    BY <1>1, SameKinds
<1>10. AddressInv'
  <2> SUFFICES ASSUME NEW o \in live, addr[obj[o].iface], ~obj[o].addr PROVE Told(o)'
      BY <1>2 DEF AddressInv
  <2> DEFINE i == obj[o].iface
  <2>1. Told(o)
      BY DEF CaughtInv, AddressInv
  <2>2. /\ evt # Evt("ADDR_ADD", i) /\ evt # Evt(Down(i), i)
    <3>1. i \in Ifaces /\ "ADDR_ADD" \in Events /\ Down(i) \in Events
        BY <1>1 DEF HeapInv, Events, Down
    <3> QED
        BY <3>1, EvtTyped
  <2>3. In(q, Evt("ADDR_ADD", i)) \/ In(q, Evt(Down(i), i)) \/ ~obj[o].active
      BY <2>1, <2>2 DEF Told
  <2>4. \A y : In(q, y) => y = x \/ In(r, y)
      BY <1>1, InTail DEF x, r
  <2>5. Ahead(<<"ADDR_ADD", o>>)'
    <3>1. <<"ADDR_ADD", o>> \in Nodes /\ In(listeners, <<"ADDR_ADD", o>>)
        BY <1>1, ObjectNodes
    <3> QED
        BY <1>1, <3>1, AheadAtHead
  <2> HIDE DEF q
  <2> QED
      BY <1>6, <2>3, <2>4, <2>5 DEF Told
<1> QED
    BY <1>4, <1>7, <1>8, <1>9, <1>10 DEF ObjectsFollow, ChangesInv

\* A step in a walk that keeps the queue and the objects.
LEMMA WalkFollows ==
    ASSUME CaughtInv, UNCHANGED <<link, wlan, addr, present, obj, if_cat, external, evt>>,
           \A b \in Nodes : Ahead(b) /\ b[1] = evt.event /\ evt.event \in {"ADDR_ADD", "LINK_DOWN", "WLAN_LINK_DOWN"}
               /\ (\E o \in live : obj[o].active /\ obj[o].iface = evt.iface /\ b[2] = o) => Ahead(b)',
           \A i \in Ifaces : Arrives(i)'
    PROVE  ObjectsFollow'
<1>1. present \subseteq Ifaces /\ HeapInv /\ IfaceInv /\ KindsInv
    BY PresentIfaces DEF CaughtInv, IfaceInv
<1>2. (\A i : Target(i)' = Target(i)) /\ live' = live /\ OutsideEvents' = OutsideEvents
    BY DEF Target, live, OutsideEvents
<1>3. WaitingInv'
    BY <1>2 DEF CaughtInv, WaitingInv, LastWaits, InTurn, UpsFollowed
<1>4. ASSUME NEW o \in live, obj[o].active, NEW e, evt = Evt(e, obj[o].iface), e \in {"ADDR_ADD", Down(obj[o].iface)},
             Ahead(<<e, o>>)
      PROVE  Ahead(<<e, o>>)'
  <2>1. <<e, o>> \in Nodes
      BY <1>1, <1>4, ObjectNodes
  <2>2. evt.event = e /\ evt.iface = obj[o].iface /\ e \in {"ADDR_ADD", "LINK_DOWN", "WLAN_LINK_DOWN"}
      BY <1>4 DEF Evt, Down
  <2> QED
      BY <1>4, <2>1, <2>2
<1>5. ASSUME NEW i \in Ifaces PROVE ChangeInv(i)'
  <2>1. ChangeInv(i) /\ SameObject(i)
      BY DEF CaughtInv, ChangesInv, SameObject, live
  <2>2. /\ Active(i)' <=> Active(i)
        /\ \A e : Has(i, e)' <=> Has(i, e)
        /\ Inactive(i)' <=> Inactive(i)
      BY <2>1, SameHas
  <2>3. Settled(i)'
      BY <1>2, <2>1, <2>2 DEF ChangeInv, Settled, Waits
  <2>4. Leaves(i)'
      BY <1>2, <1>4, <2>1 DEF ChangeInv, Leaves
  <2>5. Free(i)' <=> Free(i)
      BY <2>2 DEF Free
  <2> QED
      BY <1>2, <2>1, <2>2, <2>3, <2>4, <2>5 DEF ChangeInv, Waits, NextIsUp
<1>6. KindsInv'
    BY <1>1, SameKinds
<1>7. AddressInv'
  <2> SUFFICES ASSUME NEW o \in live, addr[obj[o].iface], ~obj[o].addr PROVE Told(o)'
      BY <1>2 DEF AddressInv
  <2>1. Told(o)
      BY DEF CaughtInv, AddressInv
  <2> QED
      BY <1>4, <2>1 DEF Told
<1> QED
    BY <1>3, <1>5, <1>6, <1>7 DEF ObjectsFollow, ChangesInv

LEMMA SkipCaught ==
    ASSUME CaughtInv, Skip, UNCHANGED present
    PROVE  ObjectsFollow'
<1>1. UNCHANGED <<link, wlan, addr, obj, if_cat, external, evt, listeners>> /\ IfaceInv
    BY DEF Skip, env, registry, CaughtInv
<1>2. ASSUME NEW b \in Nodes, Ahead(b), b[1] = evt.event PROVE Ahead(b)'
    BY <1>1, <1>2, AheadSkip
<1>3. ASSUME NEW i \in Ifaces PROVE Arrives(i)'
  <2> SUFFICES ASSUME NEW e \in Ups(i), evt = Evt(e, i)
               PROVE  Has(i, e)' \/ (Ahead(<<e, Manager>>)' /\ (i \in WlanIfs => Gone(i)'))
      BY <1>1 DEF Arrives
  <2>1. SameObject(i)
      BY <1>1 DEF SameObject, live
  <2>2. (\A d : Has(i, d)' <=> Has(i, d)) /\ (Gone(i)' <=> Gone(i))
      BY <2>1, SameHas
  <2>3. Has(i, e) \/ (Ahead(<<e, Manager>>) /\ (i \in WlanIfs => Gone(i)))
      BY DEF CaughtInv, ChangesInv, ChangeInv, Arrives
  <2>4. <<e, Manager>> \in Nodes /\ evt.event = e
      BY <1>1, ManagerNode DEF Evt
  <2> QED
      BY <1>2, <2>2, <2>3, <2>4
<1> QED
    BY <1>1, <1>2, <1>3, WalkFollows

LEMMA EndCaught ==
    ASSUME CaughtInv, EndOfWalk, UNCHANGED present
    PROVE  ObjectsFollow'
<1>1. UNCHANGED <<link, wlan, addr, obj, if_cat, external, listeners>> /\ IfaceInv /\ cursor = NULL /\ evt' = NULL
    BY DEF EndOfWalk, env, registry, CaughtInv
<1>2. present \subseteq Ifaces /\ HeapInv /\ KindsInv /\ NULL \notin OutsideEvents
    BY PresentIfaces DEF CaughtInv, IfaceInv
<1>3. (\A i : Target(i)' = Target(i)) /\ live' = live /\ OutsideEvents' = OutsideEvents /\ \A n : ~Ahead(n)
    BY <1>1 DEF Target, live, OutsideEvents, Ahead
<1>4. WaitingInv'
    BY <1>1, <1>3 DEF CaughtInv, WaitingInv, LastWaits, InTurn, UpsFollowed
<1>5. ASSUME NEW i \in Ifaces PROVE ChangeInv(i)'
  <2>1. ChangeInv(i) /\ SameObject(i) /\ ~Changes(i, NULL) /\ "LINK_UP" \in Events
      BY <1>1, EvtTyped DEF CaughtInv, ChangesInv, SameObject, live, Events
  <2>2. CASE ~Changes(i, evt)
    <3>1. NULL # Evt("LINK_UP", i)
        BY <2>1, EvtTyped
    <3> QED
        BY <1>1, <1>2, <2>1, <2>2, <3>1, QuietFor
  <2>3. CASE Changes(i, evt)
    <3>1. /\ Active(i)' <=> Active(i)
          /\ \A e : Has(i, e)' <=> Has(i, e)
          /\ Inactive(i)' <=> Inactive(i)
        BY <2>1, SameHas
    <3>2. \A e \in Ups(i) : evt = Evt(e, i) => Has(i, e)
        BY <1>3, <2>1 DEF ChangeInv, Arrives
    <3>3. evt = Evt(Down(i), i) => ~Active(i)
        BY <1>3, <2>1 DEF ChangeInv, Leaves, Active
    <3>4. ~Waits(i, external) => Has(i, Target(i))
      <4>1. Target(i) \in Ups(i) \/ Target(i) = Down(i)
          BY TargetChanges
      <4>2. Has(i, Down(i)) <=> ~Active(i)
          BY DEF Has, Down
      <4>3. ~Waits(i, external) => evt = Evt(Target(i), i)
          BY <2>1, <2>3 DEF ChangeInv, Settled
      <4> QED
          BY <3>2, <3>3, <4>1, <4>2, <4>3
    <3>5. Settled(i)'
        BY <1>1, <1>3, <2>1, <3>1, <3>4 DEF Settled, Waits
    <3>6. Arrives(i)' /\ Leaves(i)'
        BY <1>1, <2>1 DEF Arrives, Leaves, Changes
    <3>7. i \in WlanIfs /\ NextIsUp(i, external) => Free(i)'
        BY <1>1, <2>1, <2>3, <3>1, <3>3 DEF ChangeInv, Free
    <3>8. NextIsUp(i, external)' <=> NextIsUp(i, external)
        BY <1>1 DEF NextIsUp
    <3>9. NULL # Evt("LINK_UP", i)
        BY <2>1, EvtTyped
    <3> QED
        BY <1>1, <1>2, <1>3, <3>5, <3>6, <3>7, <3>8, <3>9 DEF ChangeInv
  <2> QED
      BY <2>2, <2>3
<1>6. KindsInv'
    BY <1>1, <1>2, SameKinds
<1>7. AddressInv'
  <2> SUFFICES ASSUME NEW o \in live, addr[obj[o].iface], ~obj[o].addr, obj[o].active PROVE Told(o)'
      BY <1>1, <1>3 DEF AddressInv, Told
  <2>1. Told(o)
      BY DEF CaughtInv, AddressInv
  <2>2. evt # Evt(Down(obj[o].iface), obj[o].iface)
    <3>1. obj[o].iface \in Ifaces
        BY <1>2 DEF HeapInv
    <3> QED
        BY <1>3, <3>1 DEF CaughtInv, ChangesInv, ChangeInv, Leaves
  <2> QED
      BY <1>1, <1>3, <2>1, <2>2 DEF Told
<1> QED
    BY <1>4, <1>5, <1>6, <1>7 DEF ObjectsFollow, ChangesInv

(* The callbacks *)

LEMMA NotMineCaught ==
    ASSUME CaughtInv, UNCHANGED present, NEW o \in Objs, NotMine(o)
    PROVE  ObjectsFollow'
<1>1. /\ Visiting(evt.event) /\ UNCHANGED <<external, obj, if_cat, listeners>> /\ cursor[2] = o /\ o \in live
      /\ (obj[o].iface # evt.iface \/ ~obj[o].active) /\ IfaceInv
    BY DEF NotMine, registry, CaughtInv
<1>2. /\ cursor \in Nodes /\ In(listeners, cursor) /\ cursor' = NextNode(cursor)
      /\ UNCHANGED <<evt, link, wlan, addr>>
    BY <1>1, Visited
<1>3. ASSUME NEW b \in Nodes, Ahead(b), b[2] # o PROVE Ahead(b)'
  <2>1. b # cursor
      BY <1>1, <1>3
  <2> QED
      BY <1>1, <1>2, <1>3, <2>1, AheadOn
<1>4. ASSUME NEW i \in Ifaces PROVE Arrives(i)'
  <2> SUFFICES ASSUME NEW e \in Ups(i), evt = Evt(e, i)
               PROVE  Has(i, e)' \/ (Ahead(<<e, Manager>>)' /\ (i \in WlanIfs => Gone(i)'))
      BY <1>2 DEF Arrives
  <2>1. SameObject(i)
      BY <1>1 DEF SameObject, live
  <2>2. (\A d : Has(i, d)' <=> Has(i, d)) /\ (Gone(i)' <=> Gone(i))
      BY <2>1, SameHas
  <2>3. Has(i, e) \/ (Ahead(<<e, Manager>>) /\ (i \in WlanIfs => Gone(i)))
      BY DEF CaughtInv, ChangesInv, ChangeInv, Arrives
  <2>4. <<e, Manager>> \in Nodes /\ Manager # o
      BY <1>1, ManagerNode, IfacesAssumption
  <2> QED
      BY <1>3, <2>2, <2>3, <2>4
<1>5. ASSUME NEW b \in Nodes, Ahead(b), \E p \in live : obj[p].active /\ obj[p].iface = evt.iface /\ b[2] = p
      PROVE  Ahead(b)'
    BY <1>1, <1>3, <1>5
<1> QED
    BY <1>1, <1>2, <1>4, <1>5, WalkFollows

\* What is known of one interface.
KindsAt(i) ==
    /\ \A o \in live : obj[o].iface = i => obj[o].kind \in KindsOf(i)
    /\ i \notin WlanIfs => if_cat[i] = Category(i)
    /\ i \in WlanIfs =>
          /\ if_cat[i] = "UNKNOWN_IF" <=> ~Active(i)
          /\ \A o \in live : obj[o].iface = i /\ obj[o].active =>
                if_cat[i] = IF obj[o].kind = "wlan" THEN "WLAN_IF" ELSE "WAN_IF"
          /\ link[i] = "down" => wlan[i] = "down"
AddressAt(i) == \A o \in live : obj[o].iface = i /\ addr[i] /\ ~obj[o].addr => Told(o)
FollowAt(i) == ChangeInv(i) /\ KindsAt(i) /\ AddressAt(i)

LEMMA FollowsAt ==
    ASSUME CaughtInv, NEW i \in Ifaces
    PROVE  FollowAt(i)
BY DEF CaughtInv, FollowAt, KindsAt, AddressAt, KindsInv, ChangesInv, AddressInv

LEMMA AllFollow ==
    ASSUME WaitingInv', IfaceInv', \A i \in Ifaces : FollowAt(i)'
    PROVE  ObjectsFollow'
<1>1. \A o \in live' : obj'[o].iface \in Ifaces
    BY IfacesAssumption DEF IfaceInv, HeapInv, QueuesInv
<1>2. ChangesInv' /\ AddressInv'
    BY <1>1 DEF ChangesInv, AddressInv, FollowAt, AddressAt
<1>3. WlanIfs \subseteq Ifaces
    BY DEF Ifaces
<1>4. KindsInv'
    BY <1>1, <1>3 DEF KindsInv, FollowAt, KindsAt
<1> QED
    BY <1>2, <1>4 DEF ObjectsFollow

LEMMA SameWaiting ==
    ASSUME WaitingInv, UNCHANGED <<link, wlan, external>>
    PROVE  WaitingInv'
<1>1. \A i : Target(i)' = Target(i)
    BY DEF Target
<1> QED
    BY <1>1 DEF WaitingInv, LastWaits, InTurn, UpsFollowed

\* The objects of interface i are untouched.
Untouched(i) ==
    /\ \A o \in live : obj[o].iface = i => o \in live' /\ obj'[o] = obj[o]
    /\ \A o \in live' : obj'[o].iface = i => o \in live /\ obj[o].iface = i
    /\ if_cat'[i] = if_cat[i]

\* A callback of an event about another interface.
LEMMA OtherIface ==
    ASSUME NEW i \in Ifaces, FollowAt(i), UNCHANGED <<evt, link, wlan, addr, present>>, evt.iface # i, Untouched(i),
           Waits(i, external') <=> Waits(i, external), NextIsUp(i, external') <=> NextIsUp(i, external),
           \A x : In(external, x) => In(external', x)
    PROVE  FollowAt(i)'
<1>1. SameObject(i)
    BY DEF SameObject, Untouched
<1>2. \A e : evt # Evt(e, i)
    BY DEF Evt
<1>3. ChangeInv(i)'
    BY <1>1, <1>2, SameFor DEF FollowAt
<1>4. Active(i)' <=> Active(i)
    BY <1>1, SameHas
<1>5. KindsAt(i)'
    BY <1>4 DEF FollowAt, KindsAt, Untouched
<1>6. AddressAt(i)'
  <2> SUFFICES ASSUME NEW o \in live', obj'[o].iface = i, addr[i], ~obj'[o].addr PROVE Told(o)'
      BY DEF AddressAt
  <2>1. o \in live /\ obj[o] = obj'[o]
      BY DEF Untouched
  <2>2. Told(o)
      BY <2>1 DEF FollowAt, AddressAt
  <2> QED
      BY <1>2, <2>1, <2>2 DEF Told
<1> QED
    BY <1>3, <1>5, <1>6 DEF FollowAt

\* A callback that leaves the queue and the other interfaces alone.
LEMMA OwnStep ==
    ASSUME CaughtInv, IfaceInv', UNCHANGED <<evt, link, wlan, addr, present, external>>, NEW i \in Ifaces,
           evt.iface = i, \A j \in Ifaces : j # i => Untouched(j), FollowAt(i)'
    PROVE  ObjectsFollow'
<1>1. ASSUME NEW j \in Ifaces, j # i PROVE FollowAt(j)'
    BY <1>1, FollowsAt, OtherIface
<1>2. WaitingInv'
    BY SameWaiting DEF CaughtInv
<1> QED
    BY <1>1, <1>2, AllFollow

LEMMA AddrAddCaught ==
    ASSUME CaughtInv, UNCHANGED present, NEW o \in Objs, AddrAdd(o)
    PROVE  ObjectsFollow'
<1>1. /\ Visiting("ADDR_ADD") /\ o \in live /\ obj' = [obj EXCEPT ![o].addr = TRUE]
      /\ UNCHANGED <<external, listeners, if_cat>> /\ obj[o].iface = evt.iface /\ IfaceInv
    BY DEF AddrAdd, Own, CaughtInv
<1>2. UNCHANGED <<evt, link, wlan, addr>> /\ evt.event = "ADDR_ADD"
    BY <1>1, Visited
<1>0. PICK i : i = obj[o].iface
    OBVIOUS
<1>3. HeapInv /\ i \in Ifaces /\ IfaceInv'
    BY <1>0, <1>1, AddrAddStep, PresentIfaces DEF IfaceInv, HeapInv
<1>4. /\ live' = live /\ obj'[o].addr
      /\ \A q \in live : obj'[q].kind = obj[q].kind /\ obj'[q].iface = obj[q].iface /\ obj'[q].active = obj[q].active
      /\ \A q \in live : q # o => obj'[q] = obj[q]
    BY <1>0, <1>1, <1>3 DEF HeapInv, Objects, live
<1>5. \A q \in live : obj[q].iface = i => q = o
    BY <1>0, <1>1, <1>3 DEF HeapInv
<1>6. \A j \in Ifaces : j # i => Untouched(j)
    BY <1>0, <1>1, <1>4 DEF Untouched
<1>7. FollowAt(i)
    BY <1>0, <1>3, FollowsAt
<1>8. \A e \in Ups(i) \cup {Down(i)} : evt # Evt(e, i)
    BY <1>0, <1>2 DEF Evt, Ups, Down
<1>9. SameObject(i)
    BY <1>0, <1>4 DEF SameObject
<1>10. ChangeInv(i)'
    BY <1>0, <1>1, <1>2, <1>3, <1>7, <1>8, <1>9, SameFor DEF FollowAt
<1>11. KindsAt(i)'
  <2>1. Active(i)' <=> Active(i)
      BY <1>9, SameHas
  <2> QED
      BY <1>1, <1>2, <1>4, <1>7, <2>1 DEF FollowAt, KindsAt
<1>12. AddressAt(i)'
    BY <1>0, <1>4, <1>5 DEF AddressAt
<1> QED
    BY <1>0, <1>1, <1>2, <1>3, <1>6, <1>10, <1>11, <1>12, OwnStep DEF FollowAt

\* Which event takes an object down.
LEMMA DownEvent ==
    ASSUME CaughtInv, NEW o \in live, obj[o].iface = evt.iface,
           \/ evt.event = "LINK_DOWN" /\ obj[o].kind \in {"lan", "Q6_WAN", "ECM_WAN"}
           \/ evt.event = "WLAN_LINK_DOWN" /\ obj[o].kind \in {"wlan", "WLAN_WAN"},
           evt \in OutsideEvents \cup DeleteEvents
    PROVE  evt = Evt(Down(obj[o].iface), obj[o].iface) /\ (obj[o].iface \in WlanIfs <=> obj[o].kind \in {"wlan", "WLAN_WAN"})
<1>1. obj[o].kind \in KindsOf(obj[o].iface) /\ obj[o].iface \in Ifaces
    BY PresentIfaces DEF CaughtInv, IfaceInv, HeapInv, KindsInv
<1>2. obj[o].iface \in WlanIfs <=> obj[o].kind \in {"wlan", "WLAN_WAN"}
    BY <1>1, IfacesAssumption DEF KindsOf, Ifaces
<1>3. evt.event = Down(obj[o].iface)
    BY <1>2 DEF Down
<1>4. evt = Evt(evt.event, evt.iface)
    BY DEF OutsideEvents, DeleteEvents, Evt
<1> QED
    BY <1>2, <1>3, <1>4

\* The interface of the event has lost its active object.
LEMMA DownFollows ==
    ASSUME CaughtInv, UNCHANGED <<evt, link, wlan, addr, present, external>>, NEW i \in Ifaces, evt = Evt(Down(i), i),
           ~Active(i)', \A o \in live' : obj'[o].iface = i => o \in live /\ obj[o].iface = i /\ obj'[o].kind = obj[o].kind,
           if_cat'[i] = IF i \in WlanIfs THEN "UNKNOWN_IF" ELSE if_cat[i]
    PROVE  FollowAt(i)'
<1>1. FollowAt(i)
    BY FollowsAt
<1>2. Changes(i, evt) /\ Target(i)' = Target(i)
    BY DEF Changes, Target
<1>3. \A e \in Ups(i) : evt # Evt(e, i)
  <2>1. Down(i) \notin Ups(i)
      BY DEF Down, Ups
  <2> QED
      BY <2>1, EvtDiffer
<1>4. Settled(i)'
    BY <1>1, <1>2 DEF FollowAt, ChangeInv, Settled, Waits
<1>5. Arrives(i)' /\ Leaves(i)' /\ Free(i)'
    BY <1>3 DEF Arrives, Leaves, Free, Active
<1>6. evt # Evt("LINK_UP", i)
  <2>1. Down(i) # "LINK_UP"
      BY DEF Down
  <2> QED
      BY <2>1, EvtDiffer
<1>7. ChangeInv(i)'
    BY <1>4, <1>5, <1>6 DEF ChangeInv
<1>8. KindsAt(i)'
    BY <1>1 DEF FollowAt, KindsAt, Active
<1>9. AddressAt(i)'
    BY DEF AddressAt, Told, Active
<1> QED
    BY <1>7, <1>8, <1>9 DEF FollowAt

LEMMA LinkDownCaught ==
    ASSUME CaughtInv, UNCHANGED present, NEW o \in Objs, LanLinkDown(o)
    PROVE  ObjectsFollow'
<1>1. /\ o \in live /\ obj' = [obj EXCEPT ![o].active = FALSE] /\ obj[o].iface = evt.iface
      /\ if_cat' = IF obj[o].kind = "wlan" THEN [if_cat EXCEPT ![obj[o].iface] = "UNKNOWN_IF"] ELSE if_cat
      /\ UNCHANGED <<external, listeners>> /\ obj[o].kind \in {"lan", "wlan"} /\ IfaceInv
    BY DEF LanLinkDown, Own, post_del_self_evt, CaughtInv
<1>2. PICK e \in {"LINK_DOWN", "WLAN_LINK_DOWN"} : Visiting(e) /\ (e = "LINK_DOWN" <=> obj[o].kind = "lan")
    BY DEF LanLinkDown, Own
<1>3. UNCHANGED <<evt, link, wlan, addr>> /\ evt.event = e /\ evt \in OutsideEvents \cup DeleteEvents
    BY <1>1, <1>2, Visited
<1>0. PICK i : i = obj[o].iface
    OBVIOUS
<1>4. HeapInv /\ i \in Ifaces /\ IfaceInv' /\ CategoriesInv
    BY <1>0, <1>1, LinkDownStep, PresentIfaces DEF IfaceInv, HeapInv, RolesInv
<1>5. evt = Evt(Down(i), i) /\ (i \in WlanIfs <=> obj[o].kind = "wlan")
    BY <1>0, <1>1, <1>2, <1>3, DownEvent
<1>6. /\ live' = live /\ ~obj'[o].active
      /\ \A q \in live : obj'[q].kind = obj[q].kind /\ obj'[q].iface = obj[q].iface
      /\ \A q \in live : q # o => obj'[q] = obj[q]
    BY <1>0, <1>1, <1>4 DEF HeapInv, Objects, live
<1>7. \A q \in live : obj[q].iface = i => q = o
    BY <1>0, <1>1, <1>4 DEF HeapInv
<1>8. \A j \in Ifaces : if_cat'[j] = IF j = i /\ i \in WlanIfs THEN "UNKNOWN_IF" ELSE if_cat[j]
    BY <1>0, <1>1, <1>4, <1>5 DEF CategoriesInv
<1>9. \A j \in Ifaces : j # i => Untouched(j)
    BY <1>0, <1>6, <1>8 DEF Untouched
<1>10. ~Active(i)'
    BY <1>0, <1>6, <1>7 DEF Active
<1>11. FollowAt(i)'
    BY <1>0, <1>1, <1>3, <1>4, <1>5, <1>6, <1>8, <1>10, DownFollows
<1> QED
    BY <1>0, <1>1, <1>3, <1>4, <1>9, <1>11, OwnStep

LEMMA WanDownCaught ==
    ASSUME CaughtInv, UNCHANGED present, NEW o \in Objs, WanLinkDown(o)
    PROVE  ObjectsFollow'
<1>1. /\ o \in live /\ destroy(o) /\ obj[o].iface = evt.iface
      /\ if_cat' = IF obj[o].kind = "WLAN_WAN" THEN [if_cat EXCEPT ![obj[o].iface] = "UNKNOWN_IF"] ELSE if_cat
      /\ UNCHANGED external /\ obj[o].kind \in {"Q6_WAN", "ECM_WAN", "WLAN_WAN"} /\ IfaceInv
    BY DEF WanLinkDown, Own, CaughtInv
<1>2. PICK e \in {"LINK_DOWN", "WLAN_LINK_DOWN"} : Visiting(e) /\ (e = "LINK_DOWN" <=> obj[o].kind # "WLAN_WAN")
    BY DEF WanLinkDown, Own
<1>3. UNCHANGED <<evt, link, wlan, addr>> /\ evt.event = e /\ evt \in OutsideEvents \cup DeleteEvents
    BY <1>1, <1>2, Visited
<1>0. PICK i : i = obj[o].iface
    OBVIOUS
<1>4. HeapInv /\ i \in Ifaces /\ IfaceInv' /\ CategoriesInv
    BY <1>0, <1>1, WanDownStep, PresentIfaces DEF IfaceInv, HeapInv, RolesInv
<1>5. evt = Evt(Down(i), i) /\ (i \in WlanIfs <=> obj[o].kind = "WLAN_WAN")
    BY <1>0, <1>1, <1>2, <1>3, DownEvent
<1>6. live' = live \ {o} /\ \A q \in live' : obj'[q] = obj[q]
    BY <1>0, <1>1 DEF destroy, live
<1>7. \A q \in live : obj[q].iface = i => q = o
    BY <1>0, <1>1, <1>4 DEF HeapInv
<1>8. \A j \in Ifaces : if_cat'[j] = IF j = i /\ i \in WlanIfs THEN "UNKNOWN_IF" ELSE if_cat[j]
    BY <1>0, <1>1, <1>4, <1>5 DEF CategoriesInv
<1>9. \A j \in Ifaces : j # i => Untouched(j)
    BY <1>0, <1>6, <1>8 DEF Untouched
<1>10. ~Active(i)'
    BY <1>0, <1>6, <1>7 DEF Active
<1>11. FollowAt(i)'
    BY <1>0, <1>1, <1>3, <1>4, <1>5, <1>6, <1>8, <1>10, DownFollows
<1> QED
    BY <1>0, <1>1, <1>3, <1>4, <1>9, <1>11, OwnStep

LEMMA DeleteSelfCaught ==
    ASSUME CaughtInv, UNCHANGED present, NEW o \in Objs, LanDeleteSelf(o)
    PROVE  ObjectsFollow'
<1>1. /\ o \in live /\ destroy(o) /\ obj[o].iface = evt.iface /\ Visiting("LAN_DELETE_SELF")
      /\ UNCHANGED <<external, if_cat>> /\ IfaceInv
    BY DEF LanDeleteSelf, Own, CaughtInv
<1>2. UNCHANGED <<evt, link, wlan, addr>> /\ evt.event = "LAN_DELETE_SELF" /\ evt \in OutsideEvents \cup DeleteEvents
    BY <1>1, Visited
<1>0. PICK i : i = obj[o].iface
    OBVIOUS
<1>3. HeapInv /\ i \in Ifaces /\ IfaceInv' /\ TeardownInv
    BY <1>0, <1>1, DeleteSelfStep, PresentIfaces DEF IfaceInv, HeapInv
<1>4. evt = DeleteOf(o) /\ ~obj[o].active
  <2>1. evt = DeleteOf(o)
      BY <1>1, <1>2 DEF OutsideEvents, DeleteEvents, DeleteOf, Evt
  <2> QED
      BY <1>1, <1>3, <2>1 DEF TeardownInv
<1>5. live' = live \ {o} /\ \A q \in live' : obj'[q] = obj[q]
    BY <1>0, <1>1 DEF destroy, live
<1>6. \A q \in live : obj[q].iface = i => q = o
    BY <1>0, <1>1, <1>3 DEF HeapInv
<1>7. evt.iface = i
    BY <1>0, <1>1
<1>8. \A j \in Ifaces : j # i => Untouched(j)
    BY <1>0, <1>1, <1>5 DEF Untouched
<1>9. Gone(i)'
    BY <1>0, <1>5, <1>6 DEF Gone
<1>10. ~Active(i) /\ ~Active(i)' /\ \A K : ~HasKind(i, K) /\ ~HasKind(i, K)'
    BY <1>0, <1>4, <1>6, <1>9 DEF Active, HasKind, Gone
<1>11. (\A e : Has(i, e)' <=> Has(i, e)) /\ FollowAt(i) /\ Target(i)' = Target(i)
    BY <1>0, <1>2, <1>3, <1>10, FollowsAt DEF Has, Target
<1>12. /\ ~Changes(i, evt) /\ evt # Evt("LINK_UP", i) /\ evt \notin OutsideEvents' /\ evt # Evt(Down(i), i)
       /\ \A e \in Ups(i) : evt # Evt(e, i)
    BY <1>0, <1>2 DEF Changes, Ups, Down, Evt, OutsideEvents
<1>13. Settled(i)'
    BY <1>0, <1>1, <1>2, <1>11 DEF FollowAt, ChangeInv, Settled, Waits
<1>14. Arrives(i)' /\ Leaves(i)'
    BY <1>0, <1>2, <1>12 DEF Arrives, Leaves
<1>15. Free(i)'
    BY <1>0, <1>2, <1>10, <1>12 DEF Free
<1>16. ChangeInv(i)'
    BY <1>0, <1>2, <1>12, <1>13, <1>14, <1>15 DEF ChangeInv
<1>17. KindsAt(i)'
    BY <1>0, <1>1, <1>2, <1>9, <1>10, <1>11 DEF FollowAt, KindsAt, Gone
<1>18. AddressAt(i)'
    BY <1>0, <1>9 DEF AddressAt, Gone
<1> QED
    BY <1>0, <1>1, <1>2, <1>3, <1>7, <1>8, <1>16, <1>17, <1>18, OwnStep DEF FollowAt

\* A change that waits is followed by the last one.
LEMMA LastIn ==
    ASSUME NEW S, NEW q \in Seq(S), NEW i, NEW t, LastWaits(i, t, q), Waits(i, q)
    PROVE  In(q, Evt(t, i))
<1> DEFINE N == Len(q)
           T == {n \in 0..N : \E k \in 1..N : n = N - k /\ Changes(i, q[k])}
<1>1. N \in Nat
    OBVIOUS
<1> HIDE DEF N
<1>2. T \in SUBSET Nat
    BY <1>1
<1>3. T # {}
  <2>1. PICK k \in 1..N : Changes(i, q[k])
      BY DEF Waits, N
  <2>2. N - k \in 0..N
      BY <1>1
  <2>3. N - k \in T
      BY <2>1, <2>2
  <2> QED
      BY <2>3
<1>4. PICK n \in T : \A m \in T : n <= m
  <2> HIDE DEF T
  <2> QED
      BY <1>2, <1>3, LeastNumber
<1>5. PICK k \in 1..N : n = N - k /\ Changes(i, q[k])
    OBVIOUS
<1>6. ASSUME NEW j \in (k + 1)..N, Changes(i, q[j]) PROVE FALSE
  <2>1. N - j \in 0..N /\ N - j < n /\ j \in 1..N
      BY <1>1, <1>5
  <2>2. N - j \in T
      BY <1>6, <2>1
  <2>3. n <= N - j
      BY <1>4, <2>2
  <2> QED
      BY <1>1, <1>5, <2>1, <2>3
<1>7. q[k] = Evt(t, i)
    BY <1>5, <1>6 DEF LastWaits, N
<1> QED
    BY <1>7 DEF In, N

\* The manager has nothing to do for the event.
LEMMA ManagerIdle ==
    ASSUME CaughtInv, NEW e \in ManagerEvents, Visiting(e), UNCHANGED <<present, external, obj, if_cat>>,
           NEW i, i = evt.iface, e \in Ups(i) => Has(i, e)
    PROVE  ObjectsFollow'
<1>1. UNCHANGED <<evt, link, wlan, addr>> /\ evt.event = e
    BY Visited DEF CaughtInv
<1>2. ASSUME NEW j \in Ifaces PROVE Arrives(j)'
  <2> SUFFICES ASSUME NEW d \in Ups(j), evt = Evt(d, j)
               PROVE  Has(j, d)'
      BY <1>1 DEF Arrives
  <2>1. j = i /\ d = e
      BY <1>1 DEF Evt
  <2>2. SameObject(j)
      BY DEF SameObject, live
  <2> QED
      BY <2>1, <2>2, SameHas
<1>3. e \notin {"ADDR_ADD", "LINK_DOWN", "WLAN_LINK_DOWN"}
    BY DEF ManagerEvents
<1> QED
    BY <1>1, <1>2, <1>3, WalkFollows

\* The object the manager makes for an event.
Made(e, i, kind) ==
    \/ /\ i \notin WlanIfs /\ e \in {"LINK_UP", "USB_LINK_UP"} /\ kind \in KindsOf(i)
       /\ if_cat' = if_cat
    \/ /\ i \in WlanIfs /\ e \in Ups(i) /\ kind = (IF e = "AP_LINK_UP" THEN "wlan" ELSE "WLAN_WAN")
       /\ if_cat' = [if_cat EXCEPT ![i] = IF kind = "wlan" THEN "WLAN_IF" ELSE "WAN_IF"]

LEMMA MadeFollows ==
    ASSUME CaughtInv, IfaceInv', NEW e \in ManagerEvents, Visiting(e), UNCHANGED present,
           NEW i, i = evt.iface, ~Found(i), NEW kind, Made(e, i, kind), NEW o \in Objs \ live,
           obj' = NewObject(o, kind, i), iface_addr_query(i)
    PROVE  ObjectsFollow'
<1>1. /\ UNCHANGED <<evt, link, wlan, addr>> /\ evt.event = e /\ evt \in OutsideEvents \cup DeleteEvents
      /\ i \in Ifaces /\ HeapInv /\ CategoriesInv
    BY Visited, PresentIfaces DEF CaughtInv, IfaceInv, RolesInv
<1>2. evt = Evt(e, i) /\ evt \in OutsideEvents
    BY <1>1 DEF OutsideEvents, DeleteEvents, Evt, ManagerEvents
<1>3. /\ live' = live \cup {o} /\ obj'[o].iface = i /\ obj'[o].kind = kind /\ obj'[o].active
      /\ \A q \in live : obj'[q] = obj[q]
    BY DEF NewObject, live
<1>4. \A q \in live : obj[q].iface # i
  <2>1. \A q \in live : <<obj[q].iface, q>> \in instances /\ q \in Objs
      BY <1>1 DEF HeapInv
  <2> QED
      BY <2>1 DEF Found
<1>5. \A j \in Ifaces : if_cat'[j] = IF j = i /\ i \in WlanIfs THEN (IF kind = "wlan" THEN "WLAN_IF" ELSE "WAN_IF") ELSE if_cat[j]
    BY <1>1 DEF Made, CategoriesInv
<1>6. \A j \in Ifaces : j # i => Untouched(j)
    BY <1>3, <1>5 DEF Untouched
<1>7. PICK es \in Seq(OutsideEvents) :
        /\ external' = external \o es /\ \A k \in 1..Len(es) : es[k] = Evt("ADDR_ADD", i)
        /\ addr[i] /\ link[i] # "down" => In(es, Evt("ADDR_ADD", i))
  <2> DEFINE y == Evt("ADDR_ADD", i)
  <2>1. external \in Seq(OutsideEvents) /\ y \in OutsideEvents
      BY <1>1, <1>2 DEF CaughtInv, IfaceInv, QueuesInv, OutsideEvents, Evt, Events
  <2>2. external' = IF addr[i] /\ link[i] # "down" THEN Append(external, y) ELSE external
      BY DEF iface_addr_query
  <2> HIDE DEF y
  <2>3. CASE addr[i] /\ link[i] # "down"
    <3>1. /\ <<y>> \in Seq(OutsideEvents) /\ external' = external \o <<y>> /\ Len(<<y>>) = 1 /\ <<y>>[1] = y
        BY <2>1, <2>2, <2>3
    <3>2. In(<<y>>, y) /\ \A k \in 1..Len(<<y>>) : <<y>>[k] = y
        BY <3>1 DEF In
    <3> QED
        BY <3>1, <3>2 DEF y
  <2>4. CASE ~(addr[i] /\ link[i] # "down")
    <3>1. << >> \in Seq(OutsideEvents) /\ external' = external \o << >> /\ Len(<< >>) = 0
        BY <2>1, <2>2, <2>4
    <3>2. \A k \in 1..Len(<< >>) : << >>[k] = Evt("ADDR_ADD", i)
        BY <3>1
    <3> QED
        BY <2>4, <3>1, <3>2
  <2> QED
      BY <2>3, <2>4
<1>8. external \in Seq(OutsideEvents)
    BY DEF CaughtInv, IfaceInv, QueuesInv
<1>9. ASSUME NEW j \in Ifaces, NEW k \in 1..Len(es) PROVE ~Changes(j, es[k]) /\ es[k] # Evt("LINK_UP", j)
  <2>1. "ADDR_ADD" \notin Ups(j) \cup {Down(j)}
      BY DEF Ups, Down
  <2>2. es[k].event = "ADDR_ADD"
      BY <1>7 DEF Evt
  <2>3. \A d : es[k] = Evt(d, j) => d = "ADDR_ADD"
      BY <2>2 DEF Evt
  <2> QED
      BY <2>1, <2>3 DEF Changes
<1>10. ASSUME NEW j \in Ifaces, NEW t
       PROVE  /\ LastWaits(j, t, external) => LastWaits(j, t, external')
              /\ InTurn(j, external) => InTurn(j, external')
              /\ UpsFollowed(j, external) => UpsFollowed(j, external')
              /\ Waits(j, external') <=> Waits(j, external)
              /\ NextIsUp(j, external') <=> NextIsUp(j, external)
    BY <1>7, <1>8, <1>9, QuietPost
<1>11. \A x : In(external', x) <=> In(external, x) \/ In(es, x)
    BY <1>7, <1>8, JoinedIn
<1>12. WaitingInv'
  <2>1. \A j : Target(j)' = Target(j)
      BY <1>1 DEF Target
  <2>2. ASSUME NEW j \in Ifaces
        PROVE  /\ LastWaits(j, Target(j), external') /\ (j \in WlanIfs => InTurn(j, external'))
               /\ (j \notin WlanIfs => UpsFollowed(j, external'))
    <3>1. PICK t : t = Target(j)
        OBVIOUS
    <3>2. LastWaits(j, t, external) => LastWaits(j, t, external')
        BY <1>10
    <3> QED
        BY <1>10, <3>1, <3>2 DEF CaughtInv, WaitingInv
  <2> QED
      BY <2>1, <2>2 DEF WaitingInv, LastWaits, InTurn, UpsFollowed
<1>13. ASSUME NEW j \in Ifaces, j # i PROVE FollowAt(j)'
  <2>1. FollowAt(j) /\ evt.iface # j
      BY <1>13, FollowsAt
  <2> QED
      BY <1>1, <1>6, <1>10, <1>11, <1>13, <2>1, OtherIface
<1>14. FollowAt(i) /\ Target(i)' = Target(i)
    BY <1>1, FollowsAt DEF Target
<1>15. e # Down(i) /\ (e \in Ups(i) <=> e # "LINK_UP")
    BY DEF Made, Ups, Down, ManagerEvents
<1>16. evt # Evt(Down(i), i) /\ (Changes(i, evt) <=> e \in Ups(i)) /\ (evt = Evt("LINK_UP", i) <=> e = "LINK_UP")
  <2>1. \A d : evt = Evt(d, i) <=> d = e
      BY <1>2, EvtDiffer
  <2> QED
      BY <1>15, <2>1 DEF Changes
\* A made object is what its event asks for.
<1>17. e \in Ups(i) => Has(i, e)'
  <2>1. CASE i \in WlanIfs
    <3>1. HasKind(i, {kind})'
        BY <1>3 DEF HasKind
    <3> QED
        BY <2>1, <3>1 DEF Made, Has, Ups
  <2>2. CASE i \notin WlanIfs
      BY <1>3, <2>2 DEF Has, Ups, Active
  <2> QED
      BY <2>1, <2>2
\* What the interface comes to is known, or waits.
<1>18. e = Target(i) \/ Waits(i, external)
  <2>1. CASE e = "LINK_UP"
      BY <1>14, <1>16, <2>1 DEF FollowAt, ChangeInv, Made, Ups
  <2>2. CASE e # "LINK_UP"
      BY <1>2, <1>14, <1>15, <1>16, <2>2, EvtDiffer DEF FollowAt, ChangeInv, Settled
  <2> QED
      BY <2>1, <2>2
<1>19. ChangeInv(i)'
  <2>1. Settled(i)'
    <3>1. ~Waits(i, external)' => evt' = Evt(Target(i), i)
        BY <1>1, <1>2, <1>10, <1>18 DEF Waits
    <3> QED
        BY <1>14, <3>1 DEF Settled
  <2>2. Arrives(i)'
      BY <1>1, <1>2, <1>17, EvtDiffer DEF Arrives
  <2>3. Leaves(i)'
      BY <1>1, <1>16 DEF Leaves
  <2>4. i \in WlanIfs => ~NextIsUp(i, external)'
    <3>1. i \in WlanIfs => Changes(i, evt)
        BY <1>16 DEF Made
    <3>2. i \in WlanIfs => ~NextIsUp(i, external)
        BY <1>14, <1>16, <3>1 DEF FollowAt, ChangeInv, Free
    <3> QED
        BY <1>1, <1>10, <3>2 DEF NextIsUp
  <2>5. i \notin WlanIfs /\ evt' = Evt("LINK_UP", i) => Waits(i, external)'
    <3>1. i \notin WlanIfs /\ evt' = Evt("LINK_UP", i) => Waits(i, external)
        BY <1>1, <1>14 DEF FollowAt, ChangeInv
    <3> QED
        BY <1>1, <1>10, <3>1 DEF Waits
  <2>6. ~Inactive(i)'
      BY <1>3, <1>4 DEF Inactive
  <2> QED
      BY <2>1, <2>2, <2>3, <2>4, <2>5, <2>6 DEF ChangeInv
<1>20. KindsAt(i)'
  <2>1. Active(i)'
      BY <1>3 DEF Active
  <2>2. \A q \in live' : obj'[q].iface = i => q = o
      BY <1>3, <1>4
  <2>3. kind \in KindsOf(i)
      BY IfacesAssumption DEF Made, KindsOf
  <2>4. i \in WlanIfs => (link[i] = "down" => wlan[i] = "down")
      BY <1>14 DEF FollowAt, KindsAt
  <2>5. i \notin WlanIfs => if_cat[i] = Category(i)
      BY <1>14 DEF FollowAt, KindsAt
  <2> QED
      BY <1>1, <1>3, <1>5, <2>1, <2>2, <2>3, <2>4, <2>5 DEF KindsAt
<1>21. AddressAt(i)'
  <2> SUFFICES ASSUME addr[i] PROVE Told(o)'
      BY <1>1, <1>3, <1>4 DEF AddressAt
  <2>1. CASE link[i] # "down"
      BY <1>3, <1>7, <1>11, <2>1 DEF Told
  <2>2. CASE link[i] = "down"
    <3>1. Target(i) = Down(i)
        BY <1>14, <2>2 DEF FollowAt, KindsAt, Target, Down
    <3>2. Waits(i, external)
        BY <1>15, <1>18, <3>1
    <3>3. In(external, Evt(Down(i), i))
      <4>1. PICK t : t = Target(i)
          OBVIOUS
      <4>2. LastWaits(i, t, external)
          BY <1>1, <4>1 DEF CaughtInv, WaitingInv
      <4> QED
          BY <1>8, <3>1, <3>2, <4>1, <4>2, LastIn
    <3> QED
        BY <1>3, <1>11, <3>3 DEF Told
  <2> QED
      BY <2>1, <2>2
<1> QED
    BY <1>12, <1>13, <1>19, <1>20, <1>21, AllFollow DEF FollowAt

\* Who has an instance.
LEMMA FoundIs ==
    ASSUME CaughtInv, NEW e \in ManagerEvents, Visiting(e), NEW i, i = evt.iface
    PROVE  /\ i \in Ifaces /\ (Found(i) <=> Active(i))
           /\ if_cat[i] = (IF i \in WlanIfs THEN if_cat[i] ELSE Category(i))
           /\ (i \in WlanIfs => (if_cat[i] = "UNKNOWN_IF" <=> ~Active(i)))
           /\ (i \notin WlanIfs => if_cat[i] \in {"LAN_IF", "WAN_IF"})
           /\ (if_cat[i] = "LAN_IF" /\ i \notin WlanIfs => i \in LanIfs)
           /\ (if_cat[i] = "WAN_IF" /\ i \notin WlanIfs => i \in WanIfs)
<1>1. /\ evt.event = e /\ evt \in OutsideEvents \cup DeleteEvents /\ i \in Ifaces /\ HeapInv
    BY Visited, PresentIfaces DEF CaughtInv, IfaceInv
<1>2. FollowAt(i)
    BY <1>1, FollowsAt
<1>3. evt \in OutsideEvents /\ evt # Evt(Down(i), i)
    BY <1>1 DEF OutsideEvents, DeleteEvents, Evt, ManagerEvents, Down
<1>4. ~Inactive(i)
    BY <1>2, <1>3 DEF FollowAt, ChangeInv
<1>5. Found(i) <=> \E q \in live : obj[q].iface = i
  <2>1. ASSUME NEW q \in live, obj[q].iface = i PROVE Found(i)
    <3>1. <<i, q>> \in instances /\ q \in Objs
        BY <1>1, <2>1 DEF HeapInv
    <3> QED
        BY <3>1 DEF Found
  <2>2. ASSUME Found(i) PROVE \E q \in live : obj[q].iface = i
    <3>1. PICK q \in Objs : <<i, q>> \in instances
        BY <2>2 DEF Found
    <3>2. PICK p \in live : <<i, q>> = <<obj[p].iface, p>>
        BY <1>1, <3>1 DEF HeapInv
    <3> QED
        BY <3>2
  <2> QED
      BY <2>1, <2>2
<1>6. Found(i) <=> Active(i)
    BY <1>4, <1>5 DEF Active, Inactive
<1>7. (i \in WlanIfs => (if_cat[i] = "UNKNOWN_IF" <=> ~Active(i))) /\ (i \notin WlanIfs => if_cat[i] = Category(i))
    BY <1>2 DEF FollowAt, KindsAt
<1> QED
    BY <1>1, <1>6, <1>7 DEF Category, Ifaces

LEMMA ManagerCaught ==
    ASSUME TwoAccessPoints, CaughtInv, UNCHANGED present,
           \/ ManagerLinkUp \/ ManagerUsbLinkUp
           \/ ManagerWlanLinkUp("AP_LINK_UP", "WLAN_IF", "Q6_WAN")
           \/ ManagerWlanLinkUp("STA_LINK_UP", "WAN_IF", "WLAN_WAN")
    PROVE  ObjectsFollow'
<1>0. PICK i : i = evt.iface
    OBVIOUS
<1>1. IfaceInv /\ IfaceInv'
    BY ManagerStep DEF CaughtInv
<1>2. ASSUME NEW e \in ManagerEvents, Visiting(e), NEW cat, NEW mode, create_iface_instance(i, cat, mode),
             cat # "UNKNOWN_IF", ~Active(i), Made(e, i, KindFor(cat, mode))
      PROVE  ObjectsFollow'
  <2> DEFINE kind == KindFor(cat, mode)
  <2>1. ~Found(i) /\ i \in present /\ i \in Ifaces
      BY <1>0, <1>1, <1>2, FoundIs, Visited
  <2>2. kind = "wlan" => i \in WlanIfs
    <3>1. Made(e, i, kind)
        BY <1>2
    <3> HIDE DEF kind
    <3> QED
        BY <2>1, <3>1 DEF Made, KindsOf, Ifaces
  <2>3. ~ConstructorFails(kind)
    <3> HIDE DEF kind
    <3> QED
        BY <1>1, <2>1, <2>2, ConstructorRuns
  <2>4. PICK o \in Objs \ live : obj' = NewObject(o, kind, i) /\ iface_addr_query(i)
      BY <1>2, <2>1, <2>3 DEF create_iface_instance
  <2> HIDE DEF kind
  <2>5. Made(e, i, kind)
      BY <1>2 DEF kind
  <2> QED
      BY <1>0, <1>1, <1>2, <2>1, <2>4, <2>5, MadeFollows
<1>3. ASSUME NEW cat, NEW mode, create_iface_instance(i, cat, mode), Found(i) \/ cat = "UNKNOWN_IF"
      PROVE  UNCHANGED <<external, obj>>
    BY <1>3 DEF create_iface_instance
<1>4. CASE ManagerLinkUp
  <2>1. /\ Visiting("LINK_UP") /\ UNCHANGED if_cat /\ "LINK_UP" \in ManagerEvents
        /\ \/ if_cat[i] = "WAN_IF" /\ create_iface_instance(i, "WAN_IF", "Q6_WAN")
           \/ if_cat[i] # "WAN_IF" /\ UNCHANGED <<external, obj>>
      BY <1>0, <1>4 DEF ManagerLinkUp, ManagerEvents
  <2>2. "LINK_UP" \notin Ups(i)
      BY DEF Ups
  <2>3. CASE UNCHANGED <<external, obj>>
      BY <1>0, <2>1, <2>2, <2>3, ManagerIdle
  <2>4. CASE if_cat[i] = "WAN_IF" /\ create_iface_instance(i, "WAN_IF", "Q6_WAN") /\ ~Active(i)
    <3>1. i \notin WlanIfs /\ i \in WanIfs
        BY <1>0, <2>1, <2>4, FoundIs
    <3>2. Made("LINK_UP", i, KindFor("WAN_IF", "Q6_WAN"))
        BY <2>1, <3>1, IfacesAssumption DEF Made, KindFor, KindsOf
    <3> QED
        BY <1>2, <2>1, <2>4, <3>2
  <2>5. CASE create_iface_instance(i, "WAN_IF", "Q6_WAN") /\ Active(i)
    <3>1. Found(i)
        BY <1>0, <2>1, <2>5, FoundIs
    <3> QED
        BY <1>3, <2>3, <2>5, <3>1
  <2> QED
      BY <2>1, <2>3, <2>4, <2>5
<1>5. CASE ManagerUsbLinkUp
  <2>1. /\ Visiting("USB_LINK_UP") /\ UNCHANGED if_cat /\ "USB_LINK_UP" \in ManagerEvents
        /\ create_iface_instance(i, if_cat[i], IF if_cat[i] = "WAN_IF" THEN "ECM_WAN" ELSE "Q6_WAN")
      BY <1>0, <1>5 DEF ManagerUsbLinkUp, ManagerEvents
  <2>2. PICK mode : /\ create_iface_instance(i, if_cat[i], mode)
                    /\ mode = IF if_cat[i] = "WAN_IF" THEN "ECM_WAN" ELSE "Q6_WAN"
      BY <2>1
  <2>3. CASE Found(i) \/ if_cat[i] = "UNKNOWN_IF"
    <3>1. UNCHANGED <<external, obj>>
        BY <1>3, <2>2, <2>3
    <3>2. "USB_LINK_UP" \in Ups(i) => Has(i, "USB_LINK_UP")
        BY <1>0, <2>1, <2>3, FoundIs DEF Ups, Has
    <3> QED
        BY <1>0, <2>1, <3>1, <3>2, ManagerIdle
  <2>4. CASE ~(Found(i) \/ if_cat[i] = "UNKNOWN_IF")
    <3>1. /\ ~Active(i) /\ i \notin WlanIfs /\ if_cat[i] \in {"LAN_IF", "WAN_IF"}
          /\ (if_cat[i] = "LAN_IF" => i \in LanIfs) /\ (if_cat[i] = "WAN_IF" => i \in WanIfs)
        BY <1>0, <2>1, <2>4, FoundIs
    <3>2. KindFor(if_cat[i], mode) \in KindsOf(i)
        BY <2>2, <3>1, IfacesAssumption DEF KindFor, KindsOf
    <3>3. Made("USB_LINK_UP", i, KindFor(if_cat[i], mode))
        BY <2>1, <3>1, <3>2 DEF Made
    <3> QED
        BY <1>2, <2>1, <2>2, <2>4, <3>1, <3>3
  <2> QED
      BY <2>3, <2>4
<1>6. ASSUME NEW e, NEW cat, NEW mode, ManagerWlanLinkUp(e, cat, mode),
             \/ e = "AP_LINK_UP" /\ cat = "WLAN_IF" /\ mode = "Q6_WAN"
             \/ e = "STA_LINK_UP" /\ cat = "WAN_IF" /\ mode = "WLAN_WAN"
      PROVE  ObjectsFollow'
  <2>1. e \in ManagerEvents /\ Visiting(e) /\ cat # "UNKNOWN_IF"
      BY <1>6 DEF ManagerWlanLinkUp, ManagerEvents
  <2>2. /\ i \in Ifaces /\ (i \in WlanIfs => (if_cat[i] = "UNKNOWN_IF" <=> ~Active(i)))
        /\ (i \notin WlanIfs => if_cat[i] \in {"LAN_IF", "WAN_IF"})
      BY <1>0, <2>1, FoundIs
  <2>3. CASE if_cat[i] = "UNKNOWN_IF"
    <3>1. if_cat' = [if_cat EXCEPT ![i] = cat] /\ create_iface_instance(i, cat, mode)
        BY <1>0, <1>6, <2>3 DEF ManagerWlanLinkUp
    <3>2. i \in WlanIfs /\ ~Active(i)
        BY <2>2, <2>3
    <3>3. Made(e, i, KindFor(cat, mode))
        BY <1>6, <3>1, <3>2 DEF Made, KindFor, Ups
    <3> QED
        BY <1>2, <2>1, <3>1, <3>2, <3>3
  <2>4. CASE if_cat[i] # "UNKNOWN_IF"
    <3>1. UNCHANGED <<external, obj, if_cat>>
        BY <1>0, <1>6, <2>4 DEF ManagerWlanLinkUp
    <3>2. ASSUME e \in Ups(i) PROVE Has(i, e)
      <4>1. i \in WlanIfs /\ Active(i) /\ ~Gone(i)
          BY <1>6, <2>2, <2>4, <3>2 DEF Ups, Active, Gone
      <4>2. evt = Evt(e, i)
        <5>1. evt.event = e /\ evt.iface = i /\ evt \in OutsideEvents \cup DeleteEvents
            BY <1>0, <1>1, <2>1, Visited
        <5> QED
            BY <5>1 DEF OutsideEvents, DeleteEvents, Evt
      <4>3. Arrives(i)
          BY <2>2 DEF CaughtInv, ChangesInv, ChangeInv
      <4> QED
          BY <3>2, <4>1, <4>2, <4>3 DEF Arrives
    <3> QED
        BY <1>0, <2>1, <3>1, <3>2, ManagerIdle
  <2> QED
      BY <2>3, <2>4
<1> QED
    BY <1>4, <1>5, <1>6

(* The theorems *)

\* Every step of the threads and of the dispatcher preserves what is known of the events
\* under way and of the objects they lead to.
THEOREM CaughtNextInv == TwoAccessPoints /\ CaughtInv /\ [Next]_vars => CaughtInv'
<1> SUFFICES ASSUME TwoAccessPoints, CaughtInv, [Next]_vars
             PROVE  CaughtInv'
    OBVIOUS
<1>1. IfaceInv'
    BY IfaceNextInv DEF CaughtInv
<1>2. SUFFICES ASSUME ~(Outside /\ UNCHANGED present)
               PROVE  ObjectsFollow'
    BY <1>1, OutsideCaught DEF CaughtInv, ObjectsFollow
<1>3. CASE Next
  <2>1. UNCHANGED present /\ Dispatcher
      BY <1>2, <1>3 DEF Next
  <2>2. CASE TakeEvent
    <3>1. /\ UNCHANGED <<link, wlan, addr, obj, if_cat, listeners>> /\ evt = NULL /\ cursor' = Head(listeners)
        BY <2>2 DEF TakeEvent, env, registry
    <3>2. CASE internal # << >> /\ evt' = Head(internal) /\ UNCHANGED external
      <4>1. evt' \in DeleteEvents
          BY <3>2 DEF CaughtInv, IfaceInv, QueuesInv
      <4> QED
          BY <2>1, <3>1, <3>2, <4>1, TakeInternal
    <3>3. CASE internal = << >> /\ external # << >> /\ evt' = Head(external) /\ external' = Tail(external)
        BY <2>1, <3>1, <3>3, TakeExternal
    <3> QED
        BY <2>2, <3>2, <3>3 DEF TakeEvent
  <2>3. CASE Skip \/ EndOfWalk
      BY <2>1, <2>3, SkipCaught, EndCaught
  <2>4. CASE \/ ManagerLinkUp \/ ManagerUsbLinkUp
             \/ ManagerWlanLinkUp("AP_LINK_UP", "WLAN_IF", "Q6_WAN")
             \/ ManagerWlanLinkUp("STA_LINK_UP", "WAN_IF", "WLAN_WAN")
      BY <2>1, <2>4, ManagerCaught
  <2>5. ASSUME NEW o \in Objs,
               LanLinkDown(o) \/ LanDeleteSelf(o) \/ WanLinkDown(o) \/ AddrAdd(o) \/ NotMine(o)
        PROVE  ObjectsFollow'
      BY <2>1, <2>5, LinkDownCaught, DeleteSelfCaught, WanDownCaught, AddrAddCaught, NotMineCaught
  <2> QED
      BY <2>1, <2>2, <2>3, <2>4, <2>5 DEF Dispatcher, Callback
<1>4. CASE UNCHANGED vars
  <2>1. UNCHANGED <<link, wlan, addr, present, obj, if_cat, external, evt, cursor, listeners>>
      BY <1>4 DEF vars
  <2>2. \A n : Ahead(n)' <=> Ahead(n)
      BY <2>1 DEF Ahead
  <2>3. ASSUME NEW i \in Ifaces PROVE Arrives(i)'
    <3>1. SameObject(i) /\ Arrives(i)
        BY <2>1 DEF SameObject, live, CaughtInv, ChangesInv, ChangeInv
    <3>2. (\A d : Has(i, d)' <=> Has(i, d)) /\ (Gone(i)' <=> Gone(i))
        BY <3>1, SameHas
    <3> QED
        BY <2>1, <2>2, <3>1, <3>2 DEF Arrives
  <2> QED
      BY <2>1, <2>2, <2>3, WalkFollows
<1> QED
    BY <1>3, <1>4

LEMMA CaughtInit == Init => CaughtInv
<1> SUFFICES ASSUME Init
             PROVE  CaughtInv
    OBVIOUS
<1>1. IfaceInv
    BY IfaceInit
<1>2. /\ Len(external) = 0 /\ live = {} /\ evt = NULL /\ if_cat = [i \in Ifaces |-> Category(i)]
      /\ link = [i \in Ifaces |-> "down"] /\ wlan = [i \in WlanIfs |-> "down"]
    BY DEF Init, live
<1>3. WaitingInv
    BY <1>2 DEF WaitingInv, LastWaits, InTurn, UpsFollowed
<1>4. \A i : ~Active(i) /\ ~Inactive(i)
    BY <1>2 DEF Active, Inactive
<1>5. ASSUME NEW i \in Ifaces PROVE ChangeInv(i)
  <2>1. "LINK_UP" \in Events /\ Down(i) \in Events /\ Ups(i) \subseteq Events
      BY DEF Events, Down, Ups
  <2>2. ~Changes(i, evt) /\ evt # Evt("LINK_UP", i) /\ evt # Evt(Down(i), i) /\ \A e \in Ups(i) : evt # Evt(e, i)
      BY <1>2, <2>1, EvtTyped
  <2>3. Target(i) = Down(i) /\ Has(i, Down(i))
      BY <1>2, <1>4 DEF Target, Down, Has
  <2> QED
      BY <1>2, <1>4, <2>2, <2>3 DEF ChangeInv, Settled, Arrives, Leaves, NextIsUp
<1>6. KindsInv
    BY <1>2, <1>4, IfacesAssumption DEF KindsInv, Category, Ifaces
<1>7. AddressInv
    BY <1>2 DEF AddressInv
<1> QED
    BY <1>1, <1>3, <1>5, <1>6, <1>7 DEF CaughtInv, ChangesInv

\* On a device with at most two access points, whatever the order of the events: the last
\* change of an interface that waits is the one that leads to what the kernel or the WLAN
\* driver has, and where none waits the object is there, or the walk has yet to reach the
\* listener that makes or removes it.
THEOREM CaughtInvariant == TwoAccessPoints => (Spec => []CaughtInv)
<1> SUFFICES ASSUME TwoAccessPoints
             PROVE  Spec => []CaughtInv
    OBVIOUS
<1>1. CaughtInv /\ [Next]_vars => CaughtInv'
    BY CaughtNextInv
<1> QED
    BY <1>1, CaughtInit, PTL DEF Spec

LEMMA CaughtWhenIdle == CaughtInv => CaughtUp
<1> SUFFICES ASSUME CaughtInv, Idle
             PROVE  /\ \A i \in LanIfs : HasKind(i, {"lan"}) <=> link[i] = "running"
                    /\ \A i \in WanIfs : HasKind(i, {"Q6_WAN", "ECM_WAN"}) <=> link[i] = "running"
                    /\ \A i \in WlanIfs : /\ HasKind(i, {"wlan"}) <=> wlan[i] = "ap"
                                          /\ HasKind(i, {"WLAN_WAN"}) <=> wlan[i] = "sta"
                                          /\ if_cat[i] = "UNKNOWN_IF" <=> wlan[i] = "down"
                    /\ AddressKnown
    BY DEF CaughtUp
<1>1. evt = NULL /\ internal = << >> /\ Len(external) = 0 /\ IfaceInv /\ HeapInv /\ KindsInv /\ LinksInv
    BY DEF Idle, CaughtInv, IfaceInv
<1>2. ASSUME NEW i \in Ifaces PROVE Has(i, Target(i)) /\ ~Inactive(i)
  <2>1. ~Changes(i, evt) /\ evt # Evt(Target(i), i)
    <3>1. ~Changes(i, evt)
        BY <1>1, EvtTyped DEF Events
    <3> QED
        BY <3>1, TargetChanges
  <2>2. ~Waits(i, external)
      BY <1>1 DEF Waits
  <2> QED
      BY <1>1, <2>1, <2>2, NoneInactive DEF CaughtInv, ChangesInv, ChangeInv, Settled
<1>3. ASSUME NEW i \in Ifaces \ WlanIfs PROVE Active(i) <=> link[i] = "running"
  <2>1. link[i] = "running" => Active(i)
      BY <1>2 DEF Has, Target
  <2>2. link[i] # "running" => ~Active(i)
      BY <1>2 DEF Has, Target
  <2> QED
      BY <2>1, <2>2
<1>4. ASSUME NEW i \in Ifaces PROVE Active(i) <=> HasKind(i, KindsOf(i))
    BY <1>1 DEF Active, HasKind, KindsInv
<1>5. ASSUME NEW i \in LanIfs PROVE HasKind(i, {"lan"}) <=> link[i] = "running"
    BY <1>3, <1>4, IfacesAssumption DEF KindsOf, Ifaces
<1>6. ASSUME NEW i \in WanIfs PROVE HasKind(i, {"Q6_WAN", "ECM_WAN"}) <=> link[i] = "running"
    BY <1>3, <1>4, IfacesAssumption DEF KindsOf, Ifaces
<1>7. ASSUME NEW i \in WlanIfs
      PROVE  /\ HasKind(i, {"wlan"}) <=> wlan[i] = "ap"
             /\ HasKind(i, {"WLAN_WAN"}) <=> wlan[i] = "sta"
             /\ if_cat[i] = "UNKNOWN_IF" <=> wlan[i] = "down"
  <2>1. i \in Ifaces /\ wlan[i] \in {"down", "ap", "sta"} /\ (if_cat[i] = "UNKNOWN_IF" <=> ~Active(i))
      BY <1>1 DEF Ifaces, LinksInv, KindsInv
  <2>2. \A K : HasKind(i, K) => Active(i)
      BY DEF HasKind, Active
  <2>3. ~(HasKind(i, {"wlan"}) /\ HasKind(i, {"WLAN_WAN"}))
      BY <1>1 DEF HasKind, HeapInv
  <2>4. CASE wlan[i] = "ap"
    <3>1. HasKind(i, {"wlan"})
        BY <1>2, <2>1, <2>4 DEF Has, Target
    <3> QED
        BY <2>1, <2>2, <2>3, <2>4, <3>1
  <2>5. CASE wlan[i] = "sta"
    <3>1. HasKind(i, {"WLAN_WAN"})
        BY <1>2, <2>1, <2>5 DEF Has, Target
    <3> QED
        BY <2>1, <2>2, <2>3, <2>5, <3>1
  <2>6. CASE wlan[i] = "down"
    <3>1. ~Active(i)
        BY <1>2, <2>1, <2>6 DEF Has, Target
    <3> QED
        BY <2>1, <2>2, <2>6, <3>1
  <2> QED
      BY <2>1, <2>4, <2>5, <2>6
<1>8. AddressKnown
  <2> SUFFICES ASSUME NEW o \in live, addr[obj[o].iface], ~obj[o].addr PROVE FALSE
      BY DEF AddressKnown
  <2>1. Told(o) /\ obj[o].iface \in Ifaces /\ "ADDR_ADD" \in Events /\ Down(obj[o].iface) \in Events
      BY <1>1, PresentIfaces DEF CaughtInv, AddressInv, IfaceInv, HeapInv, Events, Down
  <2>2. evt # Evt("ADDR_ADD", obj[o].iface) /\ evt # Evt(Down(obj[o].iface), obj[o].iface)
      BY <1>1, <2>1, EvtTyped
  <2>3. obj[o].active
      BY <1>2, <2>1 DEF Inactive
  <2> QED
      BY <1>1, <2>1, <2>2, <2>3 DEF Told, In
<1> QED
    BY <1>5, <1>6, <1>7, <1>8

\* On a device with at most two access points the objects catch up with the links: once all
\* events are handled a LAN or modem interface has an object iff it runs, a WLAN interface
\* has one of the role the driver reported, and every object knows its address.
THEOREM ObjectsCatchUp == TwoAccessPoints => (Spec => []CaughtUp)
<1> SUFFICES ASSUME TwoAccessPoints
             PROVE  Spec => []CaughtUp
    OBVIOUS
<1>1. Spec => []CaughtInv
    BY CaughtInvariant
<1> QED
    BY <1>1, CaughtWhenIdle, PTL
===============================================================================
