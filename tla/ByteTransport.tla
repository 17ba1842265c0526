--------------------------- MODULE ByteTransport ---------------------------
(***************************************************************************)
(* What every transport of f10diag promises its caller, whatever carries   *)
(* the bytes: the abstract methods of transport/base.py with the           *)
(* exceptions they document.  A caller sees four things: the lifecycle     *)
(* state of the link, how many payload bytes the observers were shown in   *)
(* each direction, and how its last call ended.                            *)
(*                                                                         *)
(* ENETTransport, MockTransport and ReplayTransport are checked against    *)
(* this module through refinement mappings.                                *)
(***************************************************************************)
EXTENDS Integers

VARIABLES
    link,       \* the ConnectionState
    sent,       \* bytes shown to the observers as TX
    received,   \* bytes shown to the observers as RX
    outcome     \* how the last call ended, "pending" while one runs

contract == <<link, sent, received, outcome>>

ConnectionState == {"disconnected", "connecting", "connected", "error"}

(* connect() failed in a way that leaves the transport in ERROR. *)
OpenErrors == {"InterfaceNotFoundError", "InterfaceUnavailableError",
               "ConnectionFailedError"}

(* The call was turned down, or torn away from the program, before the     *)
(* transport could decide anything: no state belongs to these outcomes.    *)
Escapes == {"UnverifiedParameterError", "ReplayMismatchError",
            "OSError", "OverflowError", "TypeError", "ValueError",
            "KeyboardInterrupt"}

Outcomes == {"none", "pending", "ok", "NotConnectedError",
             "TransportTimeoutError", "ConnectionLostError"}
              \cup OpenErrors \cup Escapes

Quiet == UNCHANGED <<sent, received>>

Begin ==
    /\ outcome' = "pending"
    /\ UNCHANGED link /\ Quiet

Opening ==
    /\ link' = "connecting"
    /\ outcome' = "pending"
    /\ Quiet

Opened ==
    /\ link' = "connected"
    /\ outcome' = "ok"
    /\ Quiet

(* "pending" is the failed attempt of a reconnect() that tries again, the  *)
(* last two what the delay before that may be refused with.                *)
OpenFailed ==
    /\ link' = "error"
    /\ outcome' \in OpenErrors \cup {"pending", "OverflowError", "ValueError"}
    /\ Quiet

(* disconnect() keeps ERROR visible. *)
Closed ==
    /\ link' = IF link = "error" THEN "error" ELSE "disconnected"
    /\ outcome' = "ok"
    /\ Quiet

Refused ==
    /\ link # "connected"
    /\ outcome' = "NotConnectedError"
    /\ UNCHANGED link /\ Quiet

Transmitted ==
    /\ link = "connected" /\ UNCHANGED link
    /\ sent' >= sent /\ UNCHANGED received
    /\ outcome' \in {"ok", "pending"}

(* "pending": observers are being told, or receive_exactly() needs more. *)
Delivered ==
    /\ link = "connected" /\ UNCHANGED link
    /\ received' > received /\ UNCHANGED sent
    /\ outcome' \in {"ok", "pending"}

(* Nothing arrived in time: the link is as good as before. *)
TimedOut ==
    /\ outcome' = "TransportTimeoutError"
    /\ UNCHANGED link /\ Quiet

(* A send that timed out leaves an unknown part of its payload on the wire. *)
Stalled ==
    /\ link = "connected" /\ link' = "error"
    /\ outcome' = "TransportTimeoutError"
    /\ Quiet

Lost ==
    /\ link = "connected" /\ link' = "error"
    /\ outcome' = "ConnectionLostError"
    /\ Quiet

Escaped ==
    /\ outcome' \in Escapes
    /\ link' \in {link, "disconnected"} /\ Quiet

(* A call that needed nothing from the link, such as reading zero bytes. *)
Trivial ==
    /\ outcome' = "ok"
    /\ UNCHANGED link /\ Quiet

Init ==
    /\ link = "disconnected"
    /\ sent = 0 /\ received = 0
    /\ outcome = "none"

Next ==
    \/ Begin \/ Opening \/ Opened \/ OpenFailed \/ Closed
    \/ Refused \/ Transmitted \/ Delivered \/ TimedOut \/ Stalled
    \/ Lost \/ Escaped \/ Trivial

Spec == Init /\ [][Next]_contract
=============================================================================
