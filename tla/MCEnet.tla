------------------------------- MODULE MCEnet -------------------------------
(* Instances of EnetTransport for TLC. *)
EXTENDS EnetTransport

Sound == [gateway |-> "valid", bind |-> TRUE, connect_timeout |-> 1,
          receive_timeout |-> 1, reconnect_attempts |-> 0,
          reconnect_delay |-> 0]

(* What a validated configuration file can say, at its smallest. *)
FileConfigs ==
    {Sound,
     [Sound EXCEPT !.bind = FALSE, !.receive_timeout = 2],
     [Sound EXCEPT !.reconnect_attempts = 2, !.reconnect_delay = 1],
     [Sound EXCEPT !.gateway = "unset"]}

(* And more seconds than a socket takes. *)
HugeConfigs ==
    {[Sound EXCEPT !.connect_timeout = 3], [Sound EXCEPT !.receive_timeout = 3]}

(* What --host, --port and --timeout add, unvalidated. *)
OverrideConfigs ==
    {[Sound EXCEPT !.gateway = "bad_port", !.reconnect_attempts = 1,
                   !.reconnect_delay = 3],
     [Sound EXCEPT !.gateway = "bad_host", !.bind = FALSE],
     [Sound EXCEPT !.receive_timeout = -1],
     [Sound EXCEPT !.receive_timeout = 0]}   \* a non-blocking socket

Retrying == {[Sound EXCEPT !.reconnect_attempts = 1, !.reconnect_delay = 1]}

AllConfigs == FileConfigs \cup HugeConfigs \cup OverrideConfigs
=============================================================================
