------------------------- MODULE InterfaceDiscovery -------------------------
(***************************************************************************)
(* Which interface the program uses (transport/ethernet.py): listing what  *)
(* the host has, ranking, and select_interface, as ENETTransport calls it  *)
(* to connect and the command `network select' to ask the user.            *)
(*                                                                         *)
(* A listing runs two programs one after the other, ifconfig and           *)
(* networksetup, and a prompt waits for its user: adapters come and go,    *)
(* get and lose addresses in between.  An interface is known by the place  *)
(* of its name in alphabetical order.  The text the programs print is      *)
(* abstracted to the facts it states, and either program may fail.         *)
(***************************************************************************)
EXTENDS Integers, Sequences, FiniteSets, SequencesExt

CONSTANTS
    Hosts,      \* sequences of devices, by name
    MaxChanges  \* bound: changes of the host per behaviour

\* "USB_LAN" stands for every external adapter, "Thunderbolt" for the plain port.
Ports == {"USB_LAN", "Ethernet", "Wi_Fi", "Thunderbolt"}
Device == [virtual : BOOLEAN, en : BOOLEAN, mac : BOOLEAN, port : Ports]

ASSUME DiscoveryAssumption == Hosts \subseteq Seq(Device) /\ MaxChanges \in Nat

VARIABLES
    \* the world
    devices,    \* what each name stands for
    order,      \* the names in the order ifconfig prints them
    host,       \* the condition of each
    changes,    \* how often that changed
    \* the program
    preferred,  \* [enet].interface, 0 for automatic
    pc, call,   \* where the program stands, and in which command
    listing,    \* name -> NetworkInterface, of the listing under way
    candidates, \* of the command `network select'
    screen,     \* what the user sees beside which number
    answer,     \* what the user typed
    result, chosen,
    \* history
    uncatalogued    \* networksetup failed in the latest listing

world   == <<devices, order, host, changes>>
prompt  == <<candidates, screen, answer>>
program == <<preferred, pc, call, listing, prompt, result, chosen>>
vars    == <<world, program, uncatalogued>>

Names == DOMAIN devices

\* Absent is a condition of its own; catalogued: networksetup knows it.
Absent == [present |-> FALSE, link |-> FALSE, up |-> FALSE,
           ipv4 |-> "none", catalogued |-> FALSE]
Conditions == {Absent} \cup
    [present : {TRUE}, link : BOOLEAN, up : BOOLEAN,
     ipv4 : {"none", "link_local", "routable"}, catalogued : BOOLEAN]

(* An external adapter comes and goes, and one plugged in lately may be     *)
(* missing from the catalogue; what is built in, Wi-Fi too, stays in both. *)
Possible(n) ==
    {c \in Conditions : /\ c.link => c.up
                        /\ devices[n].port # "USB_LAN" =>
                             c.present /\ c.catalogued}

Facts == {"link", "up", "ipv4", "catalogued"}

(* Plugged in, unplugged, or changed in one fact. *)
Differ(c, d) ==
    IF c.present /\ d.present
    THEN \E f \in Facts : c[f] # d[f] /\ \A g \in Facts \ {f} : c[g] = d[g]
    ELSE \/ c.present /\ d = Absent
         \/ c = Absent /\ d = [Absent EXCEPT !.present = TRUE]

(* Enter, a number, digits that are no number to int(), or anything else.  *)
Answers == {"enter", "number", "superscript", "other"}
NoAnswer == [kind |-> "none", n |-> 0]

Init ==
    /\ devices \in Hosts
    /\ order \in {[i \in Names |-> i], Reverse([i \in Names |-> i])}
    /\ host \in [Names -> Conditions]
    /\ \A n \in Names : host[n] \in Possible(n)
    /\ changes = 0
    /\ preferred \in {0} \cup Names
    /\ pc = "idle" /\ call = "none" /\ listing = <<>>
    /\ candidates = <<>> /\ screen = <<>> /\ answer = NoAnswer
    /\ result = "none" /\ chosen = 0 /\ uncatalogued = FALSE

-----------------------------------------------------------------------------
(* Listing and ranking.                                                    *)

(* parse_ifconfig: the interfaces, without their hardware ports. *)
Interface(n) ==
    [virtual |-> devices[n].virtual, en |-> devices[n].en,
     mac |-> devices[n].mac, port |-> "None", link |-> host[n].link,
     up |-> host[n].up, ipv4 |-> host[n].ipv4]

Ifconfig == [n \in {m \in Names : host[m].present} |-> Interface(n)]

\* Mutant: the ports are read and not attached.
WithoutPorts == listing

(* list_interfaces, once networksetup has answered. *)
WithPorts ==
    [n \in DOMAIN listing |->
        [listing[n] EXCEPT !.port = IF host[n].catalogued
                                    THEN devices[n].port ELSE "None"]]

is_wireless(iface) == iface.port = "Wi_Fi"

(* Without a hardware port, the naming convention decides. *)
is_ethernet_like(iface) ==
    /\ ~iface.virtual /\ ~is_wireless(iface) /\ iface.mac
    /\ \/ iface.port \in {"USB_LAN", "Ethernet"}
       \/ iface.port = "None" /\ iface.en

Points(condition, n) == IF condition THEN n ELSE 0

\* Mutant: the link counts for as much as an external adapter.
ScoreLinkLow(iface) ==
      Points(iface.link, 20)
    + Points(iface.port = "USB_LAN", 20)
    + Points(iface.ipv4 = "link_local", 25)
    + Points(iface.ipv4 = "routable", 5)
    + Points(iface.up, 5)

Score(iface) ==
      Points(iface.link, 40)
    + Points(iface.port = "USB_LAN", 20)
    + Points(iface.ipv4 = "link_local", 25)
    + Points(iface.ipv4 = "routable", 5)
    + Points(iface.up, 5)

\* Mutant: equal scores are left in the order of the listing.
BeforeByScore(interfaces, m, n) == Score(interfaces[m]) > Score(interfaces[n])

Before(interfaces, m, n) ==
    \/ Score(interfaces[m]) > Score(interfaces[n])
    \/ Score(interfaces[m]) = Score(interfaces[n]) /\ m < n

(* m stands above n in the listing. *)
Above(m, n) ==
    \E i, j \in DOMAIN order : i < j /\ order[i] = m /\ order[j] = n

ethernet_interfaces(interfaces) ==
    {n \in DOMAIN interfaces : is_ethernet_like(interfaces[n])}

(* Those that a stable sort puts in front of n. *)
Ahead(interfaces, n) ==
    {m \in ethernet_interfaces(interfaces) :
        \/ Before(interfaces, m, n)
        \/ ~Before(interfaces, n, m) /\ Above(m, n)}

rank_candidates(interfaces) ==
    [k \in 1 .. Cardinality(ethernet_interfaces(interfaces)) |->
        CHOOSE n \in ethernet_interfaces(interfaces) :
            Cardinality(Ahead(interfaces, n)) = k - 1]

-----------------------------------------------------------------------------
(* The commands.                                                           *)

Return(r, n) ==
    /\ pc' = "idle" /\ call' = "none" /\ listing' = <<>>
    /\ candidates' = <<>> /\ screen' = <<>> /\ answer' = NoAnswer
    /\ result' = r /\ chosen' = n
    /\ UNCHANGED <<world, preferred>>

(* The first half of list_interfaces; a failing ifconfig prints nothing.   *)
List(command) ==
    /\ pc = "idle"
    /\ pc' = "ports" /\ call' = command
    /\ listing' \in {Ifconfig, <<>>}
    /\ result' = "none" /\ chosen' = 0
    /\ UNCHANGED <<world, preferred, prompt, uncatalogued>>

Connect == List("connect")
NetworkSelect == List("select")

(* networksetup answered, or it failed and the listing goes without ports. *)
Listed(interfaces) ==
    /\ pc = "ports"
    /\ \/ interfaces = WithPorts /\ uncatalogued' = FALSE
       \/ interfaces = listing /\ uncatalogued' = TRUE

(* resolve_interface: a link is asked for, nothing else. *)
Resolve(interfaces, n) ==
    Return(IF interfaces[n].link THEN "ok" ELSE "InterfaceUnavailableError", n)

(* get_interface: it need not be an Ethernet one. *)
ResolveNamed ==
    /\ call = "connect" /\ preferred # 0
    /\ \E interfaces \in {WithPorts, listing} :
         /\ Listed(interfaces)
         /\ IF preferred \in DOMAIN interfaces
            THEN Resolve(interfaces, preferred)
            ELSE Return("InterfaceNotFoundError", 0)

ResolveAutomatic ==
    /\ call = "connect" /\ preferred = 0
    /\ \E interfaces \in {WithPorts, listing} :
         /\ Listed(interfaces)
         /\ LET ranked == rank_candidates(interfaces)
            IN IF ranked = <<>> THEN Return("InterfaceNotFoundError", 0)
                                ELSE Resolve(interfaces, ranked[1])

(* list[i] of Python: counted from 0, or, if negative, from the end. *)
At(list, i) == list[IF i < 0 THEN Len(list) + i + 1 ELSE i + 1]

(* enumerate(candidates, start=1) *)
_render_candidates(list) ==
    [position \in 1 .. Len(list) |-> At(list, position - 1)]

(* Without a terminal nobody is asked, and the first is taken.             *)
Show ==
    /\ call = "select"
    /\ \E interfaces \in {WithPorts, listing} :
         /\ Listed(interfaces)
         /\ LET ranked == rank_candidates(interfaces)
            IN IF ranked = <<>> THEN Return("nothing_to_select", 0)
               ELSE \/ Return("ok", At(ranked, 0))
                    \/ /\ pc' = "prompt" /\ candidates' = ranked
                       /\ screen' = _render_candidates(ranked)
                       /\ listing' = <<>>
                       /\ UNCHANGED <<world, preferred, call, answer, result,
                                      chosen>>

(* The user types; numbers beyond the list are all alike.                  *)
Type ==
    /\ pc = "prompt"
    /\ \E kind \in Answers, n \in 0 .. Len(screen) + 1 :
          /\ kind # "number" => n = 0
          /\ answer' = [kind |-> kind, n |-> n]
    /\ pc' = "answered"
    /\ UNCHANGED <<world, preferred, call, listing, candidates, screen, result,
                   chosen, uncatalogued>>

(* Ctrl-C, or the end of the input. *)
Cancel ==
    /\ pc = "prompt"
    /\ Return("cancelled", 0)
    /\ UNCHANGED uncatalogued

Index == CASE answer.kind = "enter"  -> 1
           [] answer.kind = "number" -> answer.n
           [] OTHER                  -> 0

\* Mutant: only the upper bound is checked, and 0 selects the last.
SelectUnbounded ==
    /\ pc = "answered" /\ answer.kind # "superscript"
    /\ IF Index <= Len(candidates)
       THEN Return("ok", At(candidates, Index - 1))
       ELSE Return("refused", 0)
    /\ UNCHANGED uncatalogued

Select ==
    /\ pc = "answered" /\ answer.kind # "superscript"
    /\ IF Index \in 1 .. Len(candidates)
       THEN Return("ok", At(candidates, Index - 1))
       ELSE Return("refused", 0)
    /\ UNCHANGED uncatalogued

(* isdigit() takes a superscript two, int() does not, and nothing catches  *)
(* what it raises.                                                         *)
SelectFails ==
    /\ pc = "answered" /\ answer.kind = "superscript"
    /\ Return("ValueError", 0)
    /\ UNCHANGED uncatalogued

(* The user puts the selected interface into the configuration. *)
Configure ==
    /\ pc = "idle" /\ chosen # 0
    /\ preferred' = chosen
    /\ UNCHANGED <<world, pc, call, listing, prompt, result, chosen,
                   uncatalogued>>

HostChanges ==
    /\ changes < MaxChanges /\ changes' = changes + 1
    /\ \E n \in Names :
         \E c \in Possible(n) : /\ Differ(host[n], c)
                                /\ host' = [host EXCEPT ![n] = c]
    /\ UNCHANGED <<devices, order, program, uncatalogued>>

Next ==
    \/ Connect \/ NetworkSelect \/ ResolveNamed \/ ResolveAutomatic \/ Show
    \/ Type \/ Cancel \/ Select \/ SelectFails \/ Configure \/ HostChanges

Spec == Init /\ [][Next]_vars
-----------------------------------------------------------------------------
(* Properties.                                                             *)

(* What the listing that ends in this step says, and the step in which an  *)
(* automatic selection picks one of it.                                    *)
Heard == IF uncatalogued' THEN listing ELSE WithPorts
Picks(n) == /\ pc = "ports" /\ call = "connect" /\ preferred = 0
            /\ chosen' = n

(* The automatic choice has the highest score, and among equals the first  *)
(* name - whatever order the host lists its interfaces in, so that two     *)
(* selections on an unchanged host agree.                                  *)
AutomaticChoiceIsBest ==
    [][\A n \in DOMAIN Heard : Picks(n) =>
         \A m \in ethernet_interfaces(Heard) :
            \/ Score(Heard[n]) > Score(Heard[m])
            \/ Score(Heard[n]) = Score(Heard[m]) /\ n <= m]_vars

(* An unplugged adapter is preferred to a plugged one in one case only: it *)
(* is external, still has a self-assigned address, and no plugged one has. *)
LinkComesFirst ==
    [][\A n \in DOMAIN Heard : Picks(n) /\ ~Heard[n].link =>
         \A m \in ethernet_interfaces(Heard) : Heard[m].link =>
            /\ Heard[n].port = "USB_LAN" /\ Heard[n].ipv4 = "link_local"
            /\ Heard[m].ipv4 # "link_local"]_vars

(* Nothing but a physical interface with a MAC address is chosen, and no   *)
(* Wi-Fi interface if networksetup answered.  (If it fails, the naming     *)
(* convention takes en0, Wi-Fi as it is, for a possible ENET link.)        *)
PhysicalOnly ==
    [][\A n \in DOMAIN Heard : Picks(n) =>
         LET device == devices[n]
         IN /\ ~device.virtual /\ device.mac
            /\ device.port = "Wi_Fi" => uncatalogued']_vars

(* What an answer selects is what the user saw beside the number typed,    *)
(* whatever came and went while the prompt waited; an answer with nothing  *)
(* beside it selects nothing; and every number seen may be typed.          *)
AnswerMeansWhatWasShown ==
    [][pc = "answered" /\ pc' # pc =>
         LET typed == IF answer.kind = "enter" THEN 1 ELSE answer.n
         IN IF answer.kind \in {"enter", "number"} /\ typed \in DOMAIN screen
            THEN result' = "ok" /\ chosen' = screen[typed]
            ELSE result' # "ok" /\ chosen' = 0]_vars
=============================================================================
