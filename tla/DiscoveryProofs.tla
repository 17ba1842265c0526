--------------------------- MODULE DiscoveryProofs ---------------------------
(***************************************************************************)
(* Theorems of InterfaceDiscovery: the automatic choice is the best of the *)
(* listing it was made from, and a physical one - for every host, whatever *)
(* happens to it between the two programs and while the prompt waits.      *)
(***************************************************************************)
EXTENDS InterfaceDiscovery, SequenceLemmas

(* A listing says of every interface what it is, and nothing yet of ports  *)
(* while networksetup is still to answer.                                  *)
Says(n) ==
    /\ listing[n] \in
         [virtual : BOOLEAN, en : BOOLEAN, mac : BOOLEAN,
          port : Ports \cup {"None"}, link : BOOLEAN, up : BOOLEAN,
          ipv4 : {"none", "link_local", "routable"}]
    /\ listing[n].virtual = devices[n].virtual
    /\ listing[n].mac = devices[n].mac
    /\ pc = "ports" => listing[n].port = "None"

(* ifconfig prints every name once.                                        *)
PrintedOnce ==
    \A i, j \in DOMAIN order : i < j => order[i] # order[j]

(* The screen shows the list the program holds, and the answer is typed.   *)
Prompted ==
    /\ pc \in {"prompt", "answered"} => screen = _render_candidates(candidates)
    /\ pc = "answered" => answer \in [kind : Answers, n : Int]

DiscoveryInv ==
    /\ devices \in Seq(Device) /\ PrintedOnce
    /\ host \in [Names -> Conditions] /\ \A n \in Names : host[n] \in Possible(n)
    /\ DOMAIN listing \subseteq Names /\ \A n \in DOMAIN listing : Says(n)
    /\ pc \in {"idle", "ports", "prompt", "answered"}
    /\ pc # "idle" => chosen = 0 /\ result = "none"
    /\ Prompted

-----------------------------------------------------------------------------
(* Sorting: the first in rank has nothing ahead of it.                     *)
LEMMA ScoreIsNatural ==
    ASSUME NEW iface
    PROVE  Score(iface) \in Nat /\ Score(iface) <= 95
<1>1. ASSUME NEW n \in Nat, NEW c
      PROVE  Points(c, n) \in 0 .. n
  BY DEF Points
<1>2. /\ Points(iface.link, 40) \in 0 .. 40
      /\ Points(iface.port = "USB_LAN", 20) \in 0 .. 20
      /\ Points(iface.up, 5) \in 0 .. 5
  BY <1>1
<1>3. Points(iface.ipv4 = "link_local", 25) + Points(iface.ipv4 = "routable", 5)
        \in 0 .. 25
  BY DEF Points
<1> HIDE DEF Points
<1>4. /\ Points(iface.ipv4 = "link_local", 25) \in 0 .. 25
      /\ Points(iface.ipv4 = "routable", 5) \in 0 .. 5
  BY <1>1
<1> QED BY <1>2, <1>3, <1>4 DEF Score

LEMMA SomeoneIsFirst ==
    ASSUME NEW interfaces, DOMAIN interfaces \subseteq Nat,
           ethernet_interfaces(interfaces) # {}
    PROVE  \E n \in ethernet_interfaces(interfaces) :
              \A m \in ethernet_interfaces(interfaces) :
                 m # n => Before(interfaces, n, m)
<1> DEFINE E    == ethernet_interfaces(interfaces)
           S(n) == Score(interfaces[n])
           L    == {95 - S(n) : n \in E}
<1>1. E \subseteq Nat /\ \A n \in E : S(n) \in Nat /\ S(n) <= 95
  BY ScoreIsNatural DEF ethernet_interfaces
<1> HIDE DEF E, S
<1>2. L \subseteq Nat /\ L # {}
  BY <1>1 DEF E
<1>3. PICK x \in L : \A y \in L : x <= y
  BY <1>2, LeastNatural
<1>4. PICK b \in E : x = 95 - S(b)
  BY <1>3
<1>5. \A m \in E : S(b) >= S(m)
  <2> SUFFICES ASSUME NEW m \in E PROVE S(b) >= S(m)
    OBVIOUS
  <2>1. 95 - S(m) \in L
    OBVIOUS
  <2>2. 95 - S(b) <= 95 - S(m)
    BY <1>3, <1>4, <2>1
  <2> QED BY <1>1, <2>2
<1> DEFINE T == {n \in E : S(n) = S(b)}
<1>6. T \subseteq Nat /\ T # {}
  BY <1>1
<1>7. PICK n \in T : \A m \in T : n <= m
  BY <1>6, LeastNatural
<1>8. ASSUME NEW m \in E, m # n
      PROVE  Before(interfaces, n, m)
  <2>1. S(n) = S(b) /\ S(b) >= S(m) /\ n \in Nat /\ m \in Nat
        /\ S(n) \in Nat /\ S(m) \in Nat
    BY <1>1, <1>5, <1>7, <1>8
  <2>2. S(n) > S(m) \/ (S(n) = S(m) /\ n < m)
    <3>1. CASE S(m) = S(b)
      <4>1. m \in T
        BY <1>8, <3>1
      <4> QED BY <1>7, <1>8, <2>1, <4>1
    <3>2. CASE S(m) # S(b)
      BY <2>1, <3>2
    <3> QED BY <3>1, <3>2
  <2> QED BY <2>2 DEF Before, S
<1> QED BY <1>7, <1>8 DEF E

LEMMA FirstIsBest ==
    ASSUME NEW interfaces, DOMAIN interfaces \subseteq Nat,
           IsFiniteSet(DOMAIN interfaces),
           rank_candidates(interfaces) # <<>>, PrintedOnce,
           NEW n, n = rank_candidates(interfaces)[1]
    PROVE  /\ n \in ethernet_interfaces(interfaces)
           /\ \A m \in ethernet_interfaces(interfaces) :
                 ~Before(interfaces, m, n)
<1> DEFINE E == ethernet_interfaces(interfaces)
           A(x) == Ahead(interfaces, x)
           first(x) == Cardinality(A(x)) = 1 - 1
<1>1. E \subseteq Nat /\ E \in SUBSET DOMAIN interfaces
  BY DEF ethernet_interfaces
<1>2. IsFiniteSet(E)
  BY <1>1, FS_Subset
<1>3. \A x : IsFiniteSet(A(x))
  <2>1. \A x : A(x) \in SUBSET E
    BY DEF Ahead
  <2> QED BY <1>2, <2>1, FS_Subset
<1>4. Cardinality(E) \in Nat /\ Cardinality(E) # 0
  <2>1. Cardinality(E) \in Nat
    BY <1>2, FS_CardinalityType
  <2>2. ASSUME Cardinality(E) = 0
        PROVE  FALSE
    <3>1. 1 .. Cardinality(E) = {}
      BY <2>2
    <3>2. DOMAIN rank_candidates(interfaces) = {}
      BY <3>1 DEF rank_candidates
    <3>3. rank_candidates(interfaces)
            = [k \in {} |-> CHOOSE x \in E : Cardinality(A(x)) = k - 1]
      BY <3>1 DEF rank_candidates
    <3>4. rank_candidates(interfaces) = <<>>
      BY <3>3
    <3> QED BY <3>4
  <2> QED BY <2>1, <2>2
<1>5. n = CHOOSE x \in E : first(x)
  BY <1>4 DEF rank_candidates
<1>6. E # {}
  BY <1>2, <1>4, FS_EmptySet
<1>7. PICK b \in E : \A m \in E : m # b => Before(interfaces, b, m)
  BY <1>6, SomeoneIsFirst
<1>8. \A x, y \in E : Before(interfaces, x, y) => ~Before(interfaces, y, x)
  <2>1. ASSUME NEW x \in E
        PROVE  Score(interfaces[x]) \in Nat
    BY ScoreIsNatural
  <2> SUFFICES ASSUME NEW x \in E, NEW y \in E, Before(interfaces, x, y)
               PROVE  ~Before(interfaces, y, x)
    OBVIOUS
  <2> DEFINE sx == Score(interfaces[x])
             sy == Score(interfaces[y])
  <2>2. sx \in Nat /\ sy \in Nat /\ x \in Nat /\ y \in Nat
    BY <1>1, <2>1
  <2>3. sx > sy \/ (sx = sy /\ x < y)
    BY DEF Before
  <2> HIDE DEF sx, sy
  <2>4. ~(sy > sx) /\ ~(sy = sx /\ y < x)
    BY <2>2, <2>3
  <2> QED BY <2>4 DEF Before, sx, sy
<1>9. A(b) = {}
  <2>1. ASSUME NEW m \in A(b)
        PROVE  FALSE
    <3>1. /\ m \in E
          /\ Before(interfaces, m, b) \/ (~Before(interfaces, b, m) /\ Above(m, b))
      BY <2>1 DEF Ahead
    <3>2. CASE m # b
      BY <1>7, <1>8, <3>1, <3>2
    <3>3. CASE m = b
      <4>1. ~Above(b, b)
        BY DEF Above, PrintedOnce
      <4> QED BY <1>8, <3>1, <3>3, <4>1
    <3> QED BY <3>2, <3>3
  <2> QED BY <2>1
<1>10. first(b)
  BY <1>9, FS_EmptySet
<1>11. n \in E /\ first(n)
  BY <1>5, <1>7, <1>10
<1>12. A(n) = {}
  <2>1. Cardinality(A(n)) = 0
    BY <1>11
  <2> QED BY <1>3, <2>1, FS_EmptySet
<1> QED BY <1>11, <1>12 DEF Ahead

-----------------------------------------------------------------------------
LEMMA InitEstablishesDiscoveryInv == Init => DiscoveryInv
<1> SUFFICES ASSUME Init PROVE DiscoveryInv
  OBVIOUS
<1>1. devices \in Seq(Device)
  BY DiscoveryAssumption DEF Init
<1>2. Names = 1 .. Len(devices) /\ Len(devices) \in Nat
  BY <1>1, LenProperties DEF Names
<1>3. PrintedOnce
  <2> DEFINE up == [i \in Names |-> i]
  <2>1. /\ DOMAIN up = Names /\ up \in Seq(Nat) /\ Len(up) = Len(devices)
        /\ \A i \in Names : up[i] = i
    BY <1>2
  <2> HIDE DEF up
  <2>2. CASE order = up
    BY <1>2, <2>1, <2>2 DEF PrintedOnce
  <2>3. CASE order = Reverse(up)
    <3>1. order = [i \in 1 .. Len(devices) |-> up[(Len(devices) - i) + 1]]
      BY <2>1, <2>3 DEF Reverse
    <3>2. \A i \in DOMAIN order : order[i] = (Len(devices) - i) + 1
      BY <1>2, <2>1, <3>1
    <3>3. DOMAIN order = 1 .. Len(devices)
      BY <3>1
    <3> QED BY <1>2, <3>2, <3>3 DEF PrintedOnce
  <2> QED BY <2>2, <2>3 DEF Init, up
<1>4. listing = <<>> /\ DOMAIN <<>> = {}
  BY DEF Init
<1> QED BY <1>1, <1>3, <1>4 DEF Init, DiscoveryInv, Prompted

LEMMA NextKeepsDiscoveryInv == DiscoveryInv /\ [Next]_vars => DiscoveryInv'
<1> SUFFICES ASSUME DiscoveryInv, [Next]_vars
             PROVE  DiscoveryInv'
  OBVIOUS
<1> USE DEF world, program, prompt, Prompted
<1>0. DOMAIN <<>> = {}
  OBVIOUS
<1>1. ASSUME NEW r, NEW n, Return(r, n)
      PROVE  DiscoveryInv'
  BY <1>0, <1>1 DEF Return, DiscoveryInv, PrintedOnce, Names, Possible, Says
<1>2. ASSUME NEW command, List(command)
      PROVE  DiscoveryInv'
  <2>1. /\ UNCHANGED <<devices, order, host>> /\ pc' = "ports"
        /\ chosen' = 0 /\ result' = "none" /\ listing' \in {Ifconfig, <<>>}
    BY <1>2 DEF List
  <2>2. DOMAIN Ifconfig \subseteq Names
    BY DEF Ifconfig
  <2>3. ASSUME NEW n \in DOMAIN Ifconfig
        PROVE  /\ Ifconfig[n] \in
                     [virtual : BOOLEAN, en : BOOLEAN, mac : BOOLEAN,
                      port : Ports \cup {"None"}, link : BOOLEAN, up : BOOLEAN,
                      ipv4 : {"none", "link_local", "routable"}]
               /\ Ifconfig[n].virtual = devices[n].virtual
               /\ Ifconfig[n].mac = devices[n].mac
               /\ Ifconfig[n].port = "None"
    <3>1. n \in Names /\ Ifconfig[n] = Interface(n)
      BY DEF Ifconfig
    <3>2. devices[n] \in Device /\ host[n] \in Possible(n)
      BY <3>1, ElementOfSeq, LenProperties DEF DiscoveryInv, Names
    <3>3. /\ host[n].link \in BOOLEAN /\ host[n].up \in BOOLEAN
          /\ host[n].ipv4 \in {"none", "link_local", "routable"}
      <4>1. host[n] \in Conditions
        BY <3>2 DEF Possible
      <4>2. CASE host[n] = Absent
        BY <4>2 DEF Absent
      <4>3. CASE host[n] # Absent
        <5>1. host[n] \in
                [present : {TRUE}, link : BOOLEAN, up : BOOLEAN,
                 ipv4 : {"none", "link_local", "routable"},
                 catalogued : BOOLEAN]
          BY <4>1, <4>3 DEF Conditions
        <5> QED BY <5>1
      <4> QED BY <4>2, <4>3
    <3> QED BY <3>1, <3>2, <3>3 DEF Interface, Device
  <2>4. ASSUME NEW n \in DOMAIN listing'
        PROVE  Says(n)'
    <3>1. listing' = Ifconfig
      BY <1>0, <2>1, <2>4
    <3> QED BY <2>1, <2>3, <2>4, <3>1 DEF Says
  <2> QED BY <1>0, <2>1, <2>2, <2>4 DEF DiscoveryInv, PrintedOnce, Names, Possible
<1>3. ASSUME NEW interfaces \in {WithPorts, listing}, Listed(interfaces)
      PROVE  /\ DOMAIN interfaces = DOMAIN listing
             /\ \A n \in DOMAIN interfaces :
                   /\ interfaces[n] \in
                        [virtual : BOOLEAN, en : BOOLEAN, mac : BOOLEAN,
                         port : Ports \cup {"None"}, link : BOOLEAN,
                         up : BOOLEAN, ipv4 : {"none", "link_local", "routable"}]
                   /\ interfaces[n].virtual = devices[n].virtual
                   /\ interfaces[n].mac = devices[n].mac
  <2>1. CASE interfaces = listing
    BY <2>1 DEF DiscoveryInv, Says
  <2>2. CASE interfaces = WithPorts
    <3>1. DOMAIN interfaces = DOMAIN listing
      BY <2>2 DEF WithPorts
    <3>2. ASSUME NEW n \in DOMAIN interfaces
          PROVE  /\ interfaces[n] \in
                      [virtual : BOOLEAN, en : BOOLEAN, mac : BOOLEAN,
                       port : Ports \cup {"None"}, link : BOOLEAN,
                       up : BOOLEAN, ipv4 : {"none", "link_local", "routable"}]
                 /\ interfaces[n].virtual = devices[n].virtual
                 /\ interfaces[n].mac = devices[n].mac
      <4>1. /\ n \in DOMAIN listing /\ Says(n) /\ n \in Names
        BY <3>1 DEF DiscoveryInv
      <4>2. devices[n].port \in Ports
        <5>1. devices[n] \in Device
          BY <4>1, ElementOfSeq, LenProperties DEF DiscoveryInv, Names
        <5> QED BY <5>1 DEF Device
      <4> DEFINE port == IF host[n].catalogued THEN devices[n].port ELSE "None"
      <4>3. port \in Ports \cup {"None"}
        BY <4>2
      <4>4. interfaces[n] = [listing[n] EXCEPT !.port = port]
        BY <2>2, <3>1 DEF WithPorts
      <4> HIDE DEF port
      <4> QED BY <4>1, <4>3, <4>4 DEF Says
    <3> QED BY <3>1, <3>2
  <2> QED BY <2>1, <2>2
<1>4. CASE ResolveNamed
  BY <1>1, <1>4 DEF ResolveNamed, Resolve
<1>5. CASE ResolveAutomatic
  BY <1>1, <1>5 DEF ResolveAutomatic, Resolve
<1>6. CASE Show
  <2>1. PICK interfaces \in {WithPorts, listing} :
          /\ Listed(interfaces)
          /\ \/ \E r, n : Return(r, n)
             \/ /\ pc' = "prompt" /\ listing' = <<>>
                /\ screen' = _render_candidates(candidates')
                /\ UNCHANGED <<world, result, chosen>>
    BY <1>6 DEF Show
  <2>2. ASSUME pc' = "prompt", listing' = <<>>,
               screen' = _render_candidates(candidates'),
               UNCHANGED <<world, result, chosen>>
        PROVE  DiscoveryInv'
    <3>1. chosen = 0 /\ result = "none"
      BY <1>0, <2>1 DEF Listed, DiscoveryInv
    <3> QED BY <1>0, <2>2, <3>1 DEF DiscoveryInv, PrintedOnce, Names, Possible
  <2> QED BY <1>1, <2>1, <2>2
<1>7. CASE Type
  <2>1. /\ pc = "prompt" /\ pc' = "answered"
        /\ answer' \in [kind : Answers, n : Int]
        /\ UNCHANGED <<world, listing, candidates, screen, result, chosen>>
    BY <1>7 DEF Type
  <2> QED BY <2>1 DEF DiscoveryInv, PrintedOnce, Names, Possible, Says
<1>8. CASE Cancel \/ Select \/ SelectFails
  <2>1. \E r, n : Return(r, n)
    BY <1>8 DEF Cancel, Select, SelectFails
  <2> QED BY <1>1, <2>1
<1>9. CASE Configure
  BY <1>9 DEF Configure, DiscoveryInv, PrintedOnce, Names, Possible, Says
<1>10. CASE HostChanges
  <2>1. PICK n \in Names : \E c \in Possible(n) : host' = [host EXCEPT ![n] = c]
    BY <1>10 DEF HostChanges
  <2>2. UNCHANGED <<devices, order, pc, result, chosen, listing,
                   candidates, screen, answer>>
    BY <1>10 DEF HostChanges
  <2>3. ASSUME NEW m \in Names'
        PROVE  host'[m] \in Possible(m)'
    <3>1. m \in Names /\ host \in [Names -> Conditions]
      BY <2>2 DEF DiscoveryInv, Names
    <3>2. host'[m] \in Possible(m)
      BY <2>1, <3>1 DEF DiscoveryInv
    <3> QED BY <2>2, <3>2 DEF Possible
  <2>4. host' \in [Names' -> Conditions]
    <3>1. Names' = Names
      BY <2>2 DEF Names
    <3>2. \A c \in Possible(n) : c \in Conditions
      BY DEF Possible
    <3> QED BY <2>1, <3>1, <3>2 DEF DiscoveryInv
  <2> QED BY <2>2, <2>3, <2>4 DEF DiscoveryInv, PrintedOnce, Says, Names
<1>11. CASE UNCHANGED vars
  BY <1>11 DEF vars, DiscoveryInv, PrintedOnce, Names, Possible, Says
<1> QED
  BY <1>2, <1>4, <1>5, <1>6, <1>7, <1>8, <1>9, <1>10, <1>11
  DEF Next, Connect, NetworkSelect

(* A listing tells the truth about what an interface is, for every host.   *)
THEOREM DiscoveryInvariant == Spec => []DiscoveryInv
BY InitEstablishesDiscoveryInv, NextKeepsDiscoveryInv, PTL DEF Spec

-----------------------------------------------------------------------------
(* What an automatic selection picks is first in rank.                     *)
LEMMA PickIsFirst ==
    ASSUME DiscoveryInv, [Next]_vars, NEW n \in DOMAIN Heard, Picks(n)
    PROVE  /\ DOMAIN Heard \subseteq Names
           /\ n \in ethernet_interfaces(Heard)
           /\ \A m \in ethernet_interfaces(Heard) : ~Before(Heard, m, n)
           /\ Heard = WithPorts \/ uncatalogued'
<1> USE DEF world, program
<1>1. /\ DOMAIN Heard \subseteq Names /\ n \in Names
      /\ Names = 1 .. Len(devices) /\ Len(devices) \in Nat /\ n # 0
      /\ PrintedOnce
  <2>1. DOMAIN Heard = DOMAIN listing
    BY DEF Heard, WithPorts
  <2>2. Names = 1 .. Len(devices) /\ Len(devices) \in Nat
    BY LenProperties DEF DiscoveryInv, Names
  <2> QED BY <2>1, <2>2 DEF DiscoveryInv
<1>2. ResolveAutomatic
  <2>1. /\ pc = "ports" /\ call = "connect" /\ preferred = 0
        /\ chosen = 0 /\ chosen' # 0
    BY <1>1 DEF Picks, DiscoveryInv
  <2>2. ~ \E command : List(command)
    BY <2>1 DEF List
  <2> QED
    BY <2>1, <2>2
    DEF Next, vars, Connect, NetworkSelect, ResolveNamed, Show, Type, Cancel,
        Select, SelectFails, Configure, HostChanges
<1>3. PICK interfaces \in {WithPorts, listing} :
        /\ Listed(interfaces)
        /\ IF rank_candidates(interfaces) = <<>>
           THEN Return("InterfaceNotFoundError", 0)
           ELSE Resolve(interfaces, rank_candidates(interfaces)[1])
  BY <1>2 DEF ResolveAutomatic
<1>4. interfaces = Heard /\ (Heard = WithPorts \/ uncatalogued')
  BY <1>3 DEF Listed, Heard
<1>5. chosen' = n
  BY DEF Picks
<1>6. rank_candidates(Heard) # <<>> /\ n = rank_candidates(Heard)[1]
  BY <1>1, <1>3, <1>4, <1>5 DEF Return, Resolve
<1>7. DOMAIN Heard \subseteq Nat /\ IsFiniteSet(DOMAIN Heard)
  <2>1. IsFiniteSet(Names)
    BY <1>1, FS_Interval
  <2> QED BY <1>1, <2>1, FS_Subset
<1> QED BY <1>1, <1>4, <1>6, <1>7, FirstIsBest

(* The automatic choice has the highest score, and among equals the first  *)
(* name, whatever order the host lists its interfaces in.                  *)
THEOREM ChoiceIsBest == Spec => AutomaticChoiceIsBest
<1>1. DiscoveryInv /\ [Next]_vars =>
        \A n \in DOMAIN Heard : Picks(n) =>
          \A m \in ethernet_interfaces(Heard) :
            \/ Score(Heard[n]) > Score(Heard[m])
            \/ Score(Heard[n]) = Score(Heard[m]) /\ n <= m
  <2> SUFFICES ASSUME DiscoveryInv, [Next]_vars,
                      NEW n \in DOMAIN Heard, Picks(n),
                      NEW m \in ethernet_interfaces(Heard)
               PROVE  \/ Score(Heard[n]) > Score(Heard[m])
                      \/ Score(Heard[n]) = Score(Heard[m]) /\ n <= m
    OBVIOUS
  <2>1. ~Before(Heard, m, n)
    BY PickIsFirst
  <2>2. n \in Nat /\ m \in Nat
    <3>1. DOMAIN Heard \subseteq Names /\ m \in DOMAIN Heard
      BY PickIsFirst DEF ethernet_interfaces
    <3>2. Names \subseteq Nat
      BY LenProperties DEF DiscoveryInv, Names
    <3> QED BY <3>1, <3>2
  <2>3. Score(Heard[n]) \in Nat /\ Score(Heard[m]) \in Nat
    BY ScoreIsNatural
  <2> DEFINE a == Score(Heard[n])
             b == Score(Heard[m])
  <2>4. ~(b > a) /\ ~(b = a /\ m < n) /\ a \in Nat /\ b \in Nat
    BY <2>1, <2>3 DEF Before
  <2> HIDE DEF a, b
  <2>5. a > b \/ (a = b /\ n <= m)
    BY <2>2, <2>4
  <2> QED BY <2>5 DEF a, b
<1> QED BY <1>1, DiscoveryInvariant, PTL DEF Spec, AutomaticChoiceIsBest

(* An unplugged adapter is preferred to a plugged one only if it is        *)
(* external, has a self-assigned address, and no plugged one has.          *)
THEOREM LinkDecides == Spec => LinkComesFirst
<1>1. ASSUME DiscoveryInv, [Next]_vars, NEW n \in DOMAIN Heard, Picks(n),
             ~Heard[n].link,
             NEW m \in ethernet_interfaces(Heard), Heard[m].link
      PROVE  /\ Heard[n].port = "USB_LAN" /\ Heard[n].ipv4 = "link_local"
             /\ Heard[m].ipv4 # "link_local"
  <2> DEFINE a == Heard[n]
             b == Heard[m]
  <2>1. ~(Score(b) > Score(a))
    BY <1>1, PickIsFirst DEF Before
  <2>2. ~a.link /\ b.link
    BY <1>1
  <2> HIDE DEF a, b
  <2>3. /\ Points(a.link, 40) = 0 /\ Points(b.link, 40) = 40
        /\ Points(a.port = "USB_LAN", 20) \in {0, 20}
        /\ Points(b.port = "USB_LAN", 20) \in {0, 20}
        /\ Points(a.up, 5) \in {0, 5} /\ Points(b.up, 5) \in {0, 5}
        /\ Points(b.ipv4 = "routable", 5) \in {0, 5}
        /\ Points(b.ipv4 = "link_local", 25) \in {0, 25}
    BY <2>2 DEF Points
  <2>4. /\ a.port # "USB_LAN" => Points(a.port = "USB_LAN", 20) = 0
        /\ a.ipv4 # "link_local" => Points(a.ipv4 = "link_local", 25) = 0
        /\ b.ipv4 = "link_local" => Points(b.ipv4 = "link_local", 25) = 25
        /\ \/ /\ Points(a.ipv4 = "link_local", 25) = 25
              /\ Points(a.ipv4 = "routable", 5) = 0
           \/ /\ Points(a.ipv4 = "link_local", 25) = 0
              /\ Points(a.ipv4 = "routable", 5) \in {0, 5}
    BY DEF Points
  <2>5. /\ a.port = "USB_LAN" /\ a.ipv4 = "link_local"
        /\ b.ipv4 # "link_local"
    BY <2>1, <2>3, <2>4 DEF Score
  <2> QED BY <2>5 DEF a, b
<1>2. DiscoveryInv /\ [Next]_vars =>
        \A n \in DOMAIN Heard : Picks(n) /\ ~Heard[n].link =>
          \A m \in ethernet_interfaces(Heard) : Heard[m].link =>
             /\ Heard[n].port = "USB_LAN" /\ Heard[n].ipv4 = "link_local"
             /\ Heard[m].ipv4 # "link_local"
  BY <1>1
<1> QED BY <1>2, DiscoveryInvariant, PTL DEF Spec, LinkComesFirst

(* Nothing but a physical interface with a MAC address is chosen, and no   *)
(* Wi-Fi interface if networksetup answered.                               *)
THEOREM ChoiceIsPhysical == Spec => PhysicalOnly
<1>1. ASSUME DiscoveryInv, [Next]_vars, NEW n \in DOMAIN Heard, Picks(n)
      PROVE  /\ ~devices[n].virtual /\ devices[n].mac
             /\ devices[n].port = "Wi_Fi" => uncatalogued'
  <2>1. /\ ~Heard[n].virtual /\ Heard[n].mac /\ ~is_wireless(Heard[n])
        /\ Heard = WithPorts \/ uncatalogued'
    BY <1>1, PickIsFirst DEF ethernet_interfaces, is_ethernet_like
  <2>2. n \in DOMAIN listing /\ n \in Names /\ Says(n)
    BY <1>1 DEF Heard, WithPorts, DiscoveryInv
  <2>3. Heard[n].virtual = listing[n].virtual /\ Heard[n].mac = listing[n].mac
    BY <2>2 DEF Heard, WithPorts, Says
  <2>4. ASSUME devices[n].port = "Wi_Fi", Heard = WithPorts
        PROVE  FALSE
    <3>1. host[n].catalogued
      BY <1>1, <2>2, <2>4 DEF DiscoveryInv, Possible
    <3>2. WithPorts[n].port = "Wi_Fi"
      BY <2>2, <2>4, <3>1 DEF WithPorts, Says
    <3> QED BY <2>1, <2>4, <3>2 DEF is_wireless
  <2> QED BY <2>1, <2>2, <2>3, <2>4 DEF Says
<1>2. DiscoveryInv /\ [Next]_vars =>
        \A n \in DOMAIN Heard : Picks(n) =>
          LET device == devices[n]
          IN /\ ~device.virtual /\ device.mac
             /\ device.port = "Wi_Fi" => uncatalogued'
  BY <1>1
<1> QED BY <1>2, DiscoveryInvariant, PTL DEF Spec, PhysicalOnly

(* What an answer selects is what the user saw beside the number typed,    *)
(* whatever came and went while the prompt waited; an answer with nothing  *)
(* beside it selects nothing; and every number seen may be typed.          *)
THEOREM AnswersAreHonoured == Spec => AnswerMeansWhatWasShown
<1> DEFINE typed == IF answer.kind = "enter" THEN 1 ELSE answer.n
           listed == answer.kind \in {"enter", "number"} /\ typed \in DOMAIN screen
<1>1. ASSUME DiscoveryInv, [Next]_vars, pc = "answered", pc' # pc
      PROVE  IF listed THEN result' = "ok" /\ chosen' = screen[typed]
                       ELSE result' # "ok" /\ chosen' = 0
  <2>1. /\ screen = _render_candidates(candidates)
        /\ answer.kind \in Answers /\ answer.n \in Int
    BY <1>1 DEF DiscoveryInv, Prompted
  <2>2. /\ DOMAIN screen = 1 .. Len(candidates)
        /\ \A p \in 1 .. Len(candidates) : screen[p] = At(candidates, p - 1)
    BY <2>1 DEF _render_candidates
  <2>3. CASE Select
    <3>1. Index = IF answer.kind \in {"enter", "number"} THEN typed ELSE 0
      BY DEF Index
    <3>2. listed <=> Index \in 1 .. Len(candidates)
      BY <2>2, <3>1
    <3>3. CASE listed
      <4>1. result' = "ok" /\ chosen' = At(candidates, Index - 1)
        BY <2>3, <3>2, <3>3 DEF Select, Return
      <4> QED BY <2>2, <3>1, <3>2, <3>3, <4>1
    <3>4. CASE ~listed
      <4>1. result' = "refused" /\ chosen' = 0
        BY <2>3, <3>2, <3>4 DEF Select, Return
      <4> QED BY <3>4, <4>1
    <3> QED BY <3>3, <3>4
  <2>4. CASE SelectFails
    BY <2>4 DEF SelectFails, Return
  <2>5. CASE ~Select /\ ~SelectFails
    BY <1>1, <2>5
    DEF Next, vars, program, Connect, NetworkSelect, List, ResolveNamed,
        ResolveAutomatic, Listed, Show, Type, Cancel, Configure, HostChanges
  <2> QED BY <2>3, <2>4, <2>5
<1>2. DiscoveryInv /\ [Next]_vars =>
        (pc = "answered" /\ pc' # pc =>
           IF listed THEN result' = "ok" /\ chosen' = screen[typed]
                     ELSE result' # "ok" /\ chosen' = 0)
  BY <1>1
<1> QED BY <1>2, DiscoveryInvariant, PTL DEF Spec, AnswerMeansWhatWasShown
=============================================================================
