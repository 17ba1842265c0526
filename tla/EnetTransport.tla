---------------------------- MODULE EnetTransport ---------------------------
(***************************************************************************)
(* ENETTransport (transport/enet.py) on top of the Transport base class    *)
(* (transport/base.py): one object, used by a single-threaded program,     *)
(* against a world that moves on its own - the host's network interface,   *)
(* the TCP peer, the clock and the operator's Ctrl-C.                      *)
(*                                                                         *)
(* A public method is one action up to the first point where it blocks or  *)
(* where the host may change between two of its reads; each stretch        *)
(* between two such points is one more action.  `pc' names the point       *)
(* where the running call stands:                                          *)
(*   resolve    about to ask the host for its interfaces                   *)
(*   dial       interface known, socket about to be bound and connected    *)
(*   handshake  inside socket.connect                                      *)
(*   sleep      between two attempts of reconnect()                        *)
(*   send, recv inside socket.sendall / socket.recv                        *)
(*   loop       head of the loop of receive_exactly()                      *)
(* Payloads are abstracted to their lengths: the byte stream is consumed   *)
(* in order by construction of TCP, and nothing here inspects a byte.      *)
(* Time is relative: a running wait counts down to its timeout.            *)
(***************************************************************************)
EXTENDS Integers

CONSTANTS
    Configs,    \* the ENETConfig values (and bind_to_interface) considered
    Sizes,      \* the payload sizes callers ask for
    Timeouts,   \* the explicit `timeout' arguments callers pass
    MaxTimeout, \* the most seconds settimeout() and sleep() take: 2^63 ns
    MaxBytes    \* bound: bytes sent, and bytes received, per behaviour

(* bad_port: above 65535; bad_host: a name that IDNA cannot encode. *)
Gateways == {"unset", "valid", "bad_port", "bad_host"}

(* Infinity and not-a-number are seconds beyond MaxTimeout.  A             *)
(* connect_timeout of 0 comes from no file and no flag.                    *)
ENETConfig == [gateway: Gateways, bind: BOOLEAN, connect_timeout: Int \ {0},
               receive_timeout: Int, reconnect_attempts: Int,
               reconnect_delay: Nat]

ASSUME ConfigsAssumption == Configs \subseteq ENETConfig
ASSUME BoundsAssumption ==
    /\ Sizes \subseteq Nat /\ MaxBytes \in Nat /\ MaxTimeout \in Nat
    /\ Timeouts \subseteq 0 .. MaxTimeout

VARIABLES
    \* the object's attributes
    config, state, last_error,
    socket,     \* _socket: "none", or what the kernel knows of its peer
    timeout,    \* socket.gettimeout()
    iface,      \* _interface: "none", or the condition of its snapshot
    bytes_sent, bytes_received,
    \* the running call
    pc, op,
    wait,       \* seconds until the blocking step times out
    result,     \* how the last call ended
    \* the world outside
    nic,        \* the selected interface as the host would report it now
    peer,       \* what answers a SYN sent to host:port; "refusing" stands
                \* for every immediate OSError, no route included
    inbox,      \* bytes of the current connection waiting to be read
    \* history, read by properties only
    unseen      \* bytes of this connection on the wire, not (yet) observed

given      == <<config, nic, peer>>
connection == <<socket, timeout, inbox, unseen>>
counters   == <<bytes_sent, bytes_received>>
frame      == <<pc, op, wait, result>>
rest       == <<given, state, last_error, connection, iface, counters>>
vars       == <<frame, rest>>

ConnectionState == {"disconnected", "connecting", "connected", "error"}
Snapshots  == {"link", "addressed"}      \* has_link, without/with IPv4
NicStates  == {"absent", "no_link"} \cup Snapshots
PeerStates == {"listening", "refusing", "silent"}
\* "dead": the kernel gave up retransmitting (ETIMEDOUT)
SocketStates == {"none", "open", "fin", "rst", "dead"}
Calls    == {"none", "connect", "reconnect", "send", "receive",
             "receive_exactly"}
Blocking == {"resolve", "handshake", "sleep", "send", "recv"}
Results  == {"none", "pending", "ok", "UnverifiedParameterError",
             "InterfaceNotFoundError", "InterfaceUnavailableError",
             "ConnectionFailedError", "NotConnectedError",
             "TransportTimeoutError", "ConnectionLostError",
             "OSError", "OverflowError", "TypeError", "ValueError",
             "KeyboardInterrupt"}

(* The locals of the running call. *)
Frames == [kind: Calls, attempt: Nat, size: Nat, got: Nat,
           previous: Int, left: Int]
NoCall == [kind |-> "none", attempt |-> 0, size |-> 0, got |-> 0,
           previous |-> 0, left |-> 0]

Init ==
    /\ config \in Configs
    /\ state = "disconnected" /\ last_error = "none"
    /\ socket = "none" /\ timeout = 0 /\ iface = "none"
    /\ bytes_sent = 0 /\ bytes_received = 0
    /\ pc = "idle" /\ op = NoCall /\ wait = 0 /\ result = "none"
    /\ nic \in NicStates /\ peer \in PeerStates
    /\ inbox = 0 /\ unseen = 0

-----------------------------------------------------------------------------
(* Pieces the methods share.                                               *)

(* _set_state without, and with, an error message. *)
SetState(s) ==
    /\ state' = s
    /\ last_error' = IF s = "connected" THEN "none" ELSE last_error
Fail ==
    /\ state' = "error"
    /\ last_error' = "failure"

(* _emit: a failing observer only leaves a note in last_error. *)
Emit == last_error' \in {last_error, "observer"}

Return(r) ==
    /\ pc' = "idle" /\ op' = NoCall /\ wait' = 0
    /\ result' = r

Block(at, call, seconds) ==
    /\ pc' = at /\ op' = call /\ wait' = seconds
    /\ result' = "pending"

\* Mutant: an OSError of shutdown() skips close() and the rest.
CloseUnlessReset ==
    IF socket = "rst" THEN UNCHANGED connection
    ELSE socket' = "none" /\ timeout' = 0 /\ inbox' = 0 /\ unseen' = 0
CloseSocket ==
    /\ socket' = "none" /\ timeout' = 0
    /\ inbox' = 0 /\ unseen' = 0

\* Mutant: disconnect() without _set_state(ERROR) before it.
LoseWithoutError ==
    /\ SetState("disconnected")
    /\ CloseSocket
    /\ Return("ConnectionLostError")
    /\ UNCHANGED <<given, iface, counters>>

(* ERROR first, so that the disconnect() that follows keeps it. *)
LoseConnection ==
    /\ Fail
    /\ CloseSocket
    /\ Return("ConnectionLostError")
    /\ UNCHANGED <<given, iface, counters>>

(* What settimeout() and sleep() take, and raise at all else. *)
Usable(seconds) == seconds \in 0 .. MaxTimeout
TimeoutErrors(seconds) ==
    IF seconds \in -MaxTimeout .. 0 THEN {"ValueError"}
                                    ELSE {"OverflowError", "ValueError"}

Attempts == IF config.reconnect_attempts + 1 > 1
            THEN config.reconnect_attempts + 1 ELSE 1

-----------------------------------------------------------------------------
(* Opening the connection.                                                 *)

(* connect() entered as attempt n of a call, with the state being `from'.  *)
EnterConnect(kind, n, from) ==
    /\ \/ /\ config.gateway = "unset"
          /\ state' = from
          /\ Return("UnverifiedParameterError")
       \/ /\ config.gateway # "unset"
          /\ state' = "connecting"
          /\ Block("resolve",
                   [NoCall EXCEPT !.kind = kind, !.attempt = n], 0)
    /\ UNCHANGED <<given, last_error, iface, counters>>

ConnectAgain ==
    /\ pc = "idle" /\ state = "connected"
    /\ Return("ok")
    /\ UNCHANGED rest

Connect ==
    /\ pc = "idle" /\ state # "connected"
    /\ EnterConnect("connect", 1, state)
    /\ UNCHANGED connection

(* disconnect(), then the first attempt from a clean DISCONNECTED. *)
Reconnect ==
    /\ pc = "idle"
    /\ CloseSocket
    /\ EnterConnect("reconnect", 1, "disconnected")

Retry ==
    /\ pc = "sleep" /\ wait = 0
    /\ EnterConnect("reconnect", op.attempt + 1, "disconnected")
    /\ UNCHANGED connection

\* Mutants: one attempt too few; no end of attempts.
RetryOneLess ==
    \/ /\ op.kind = "connect" \/ op.attempt + 1 >= Attempts
       /\ Return("ConnectionFailedError")
    \/ /\ op.kind = "reconnect" /\ op.attempt + 1 < Attempts
       /\ Usable(config.reconnect_delay)
       /\ Block("sleep", op, config.reconnect_delay)
RetryForever ==
    \/ /\ op.kind = "connect"
       /\ Return("ConnectionFailedError")
    \/ /\ op.kind = "reconnect" /\ Usable(config.reconnect_delay)
       /\ Block("sleep", [op EXCEPT !.attempt = 0], config.reconnect_delay)

(* Only ConnectionFailedError is retried; `wait' = 0 is "no delay".  What  *)
(* sleep() raises escapes from the `except' it is called in.               *)
RetryOrRaise ==
    \/ /\ op.kind = "connect" \/ op.attempt >= Attempts
       /\ Return("ConnectionFailedError")
    \/ /\ op.kind = "reconnect" /\ op.attempt < Attempts
       /\ \/ /\ Usable(config.reconnect_delay)
             /\ Block("sleep", op, config.reconnect_delay)
          \/ /\ ~Usable(config.reconnect_delay)
             /\ \E r \in TimeoutErrors(config.reconnect_delay) : Return(r)

AttemptFails ==
    /\ Fail
    /\ RetryOrRaise
    /\ UNCHANGED <<given, connection, iface, counters>>

\* Mutant: no `except' around resolve_interface().
ResolveFailsUncaught ==
    /\ pc = "resolve" /\ nic \notin Snapshots
    /\ Return("InterfaceNotFoundError")
    /\ UNCHANGED rest

(* resolve_interface() sets _interface only when it succeeds. *)
ResolveFails ==
    /\ pc = "resolve" /\ nic \notin Snapshots
    /\ Fail
    /\ Return(IF nic = "absent" THEN "InterfaceNotFoundError"
                                ELSE "InterfaceUnavailableError")
    /\ UNCHANGED <<given, connection, iface, counters>>

ResolveInterface ==
    /\ pc = "resolve" /\ nic \in Snapshots
    /\ iface' = nic
    /\ Block("dial", op, 0)
    /\ UNCHANGED <<given, state, last_error, connection, counters>>

(* socket() and setsockopt() stand outside the try: the host may be short  *)
(* of descriptors, and what they raise leaves the state as it is.          *)
SocketFails ==
    /\ pc = "dial"
    /\ Return("OSError")
    /\ UNCHANGED rest

(* So does settimeout(connect_timeout). *)
ConnectTimeoutRefused ==
    /\ pc = "dial" /\ ~Usable(config.connect_timeout)
    /\ \E r \in TimeoutErrors(config.connect_timeout) : Return(r)
    /\ UNCHANGED rest

SocketReady == pc = "dial" /\ Usable(config.connect_timeout)

(* The snapshot's address is bound; the host may have dropped it since. *)
BindFailing == config.bind /\ iface = "addressed" /\ nic # "addressed"

BindFails ==
    /\ SocketReady /\ BindFailing
    /\ AttemptFails

(* socket.connect takes neither gateway, with errors that are no OSError.  *)
GatewayRefused ==
    /\ SocketReady /\ ~BindFailing
    /\ \/ config.gateway = "bad_port" /\ Return("OverflowError")
       \/ config.gateway = "bad_host" /\ Return("TypeError")
    /\ UNCHANGED rest

(* The name is looked up before the port is looked at. *)
LookupFails ==
    /\ SocketReady /\ ~BindFailing /\ config.gateway = "bad_port"
    /\ AttemptFails

Dial ==
    /\ SocketReady /\ ~BindFailing /\ config.gateway = "valid"
    /\ Block("handshake", op, config.connect_timeout)
    /\ UNCHANGED rest

HandshakeFails ==
    /\ pc = "handshake"
    /\ wait = 0 \/ peer = "refusing"
    /\ AttemptFails

Accepted ==
    /\ pc = "handshake" /\ peer = "listening" /\ Usable(config.receive_timeout)
    /\ socket' = "open" /\ timeout' = config.receive_timeout
    /\ inbox' = 0 /\ unseen' = 0
    /\ SetState("connected")
    /\ Return("ok")
    /\ UNCHANGED <<given, iface, counters>>

(* settimeout(receive_timeout) stands outside the try as well: what it     *)
(* raises drops the accepted socket.                                       *)
AcceptedBadTimeout ==
    /\ pc = "handshake" /\ peer = "listening" /\ ~Usable(config.receive_timeout)
    /\ \E r \in TimeoutErrors(config.receive_timeout) : Return(r)
    /\ UNCHANGED rest

Disconnect ==
    /\ pc = "idle"
    /\ CloseSocket
    /\ state' = IF state = "error" THEN "error" ELSE "disconnected"
    /\ Return("ok")
    /\ UNCHANGED <<given, last_error, iface, counters>>

-----------------------------------------------------------------------------
(* Moving bytes.                                                           *)

(* _require_connected *)
Refused ==
    /\ pc = "idle" /\ state # "connected"
    /\ Return("NotConnectedError")
    /\ UNCHANGED rest

Send(n) ==
    /\ pc = "idle" /\ state = "connected"
    /\ bytes_sent + unseen + n <= MaxBytes
    /\ Block("send", [NoCall EXCEPT !.kind = "send", !.size = n], timeout)
    /\ UNCHANGED rest

(* A send of nothing still asks the kernel once. *)
Unsent == op.got < op.size \/ op.size = 0

SendDone ==
    /\ pc = "send" /\ op.got = op.size
    /\ op.size = 0 => socket \in {"open", "fin"}
    /\ bytes_sent' = bytes_sent + op.size
    /\ unseen' = unseen - op.size
    /\ Emit
    /\ Return("ok")
    /\ UNCHANGED <<given, state, socket, timeout, inbox, iface,
                   bytes_received>>

\* Mutant: the state stays CONNECTED, as after a receive that timed out.
SendTimesOutQuietly ==
    /\ pc = "send" /\ Unsent
    /\ \/ wait = 0 /\ timeout > 0 /\ socket \in {"open", "fin"}
       \/ socket = "dead"
    /\ Return("TransportTimeoutError")
    /\ UNCHANGED rest

(* The socket is kept: only an OSError disconnects.  ETIMEDOUT is a        *)
(* TimeoutError too.                                                       *)
SendTimesOut ==
    /\ pc = "send" /\ Unsent
    /\ \/ wait = 0 /\ timeout > 0 /\ socket \in {"open", "fin"}
       \/ socket = "dead"
    /\ Fail
    /\ Return("TransportTimeoutError")
    /\ UNCHANGED <<given, connection, iface, counters>>

(* A reset, or BlockingIOError from a socket whose timeout is 0. *)
SendBreaks ==
    /\ pc = "send" /\ Unsent
    /\ \/ socket = "rst"
       \/ timeout = 0 /\ socket # "dead" /\ op.got < op.size
    /\ LoseConnection

(* receive(): the socket's timeout is replaced for the length of the call. *)
EnterRecv(call, seconds) ==
    /\ timeout' = seconds
    /\ Block("recv", [call EXCEPT !.previous = timeout], seconds)
    /\ UNCHANGED <<given, state, last_error, socket, inbox, unseen, iface,
                   counters>>

Receive(size, seconds) ==
    /\ pc = "idle" /\ state = "connected"
    /\ EnterRecv([NoCall EXCEPT !.kind = "receive", !.size = size], seconds)

Want == op.size - op.got

(* recv() hands over what is there, up to what was asked for. *)
Chunk == IF inbox < Want THEN inbox ELSE Want

(* receive() is done, or receive_exactly() goes round its loop. *)
ReadOn(got) ==
    \/ /\ op.kind = "receive" \/ got = op.size
       /\ Return("ok")
    \/ /\ op.kind = "receive_exactly" /\ got < op.size
       /\ Block("loop", [op EXCEPT !.got = got], 0)

RecvData ==
    /\ pc = "recv" /\ Want > 0 /\ inbox > 0
    /\ inbox' = inbox - Chunk
    /\ bytes_received' = bytes_received + Chunk
    /\ Emit
    /\ timeout' = op.previous
    /\ ReadOn(op.got + Chunk)
    /\ UNCHANGED <<given, state, socket, unseen, iface, bytes_sent>>

\* Mutants: `except OSError' before `except socket.timeout', which it
\* includes; a timeout that is treated as in send().
RecvTimeoutIsOSError ==
    /\ pc = "recv" /\ Want > 0 /\ inbox = 0
    /\ wait = 0 \/ socket = "dead"
    /\ LoseConnection
RecvTimeoutIsError ==
    /\ pc = "recv" /\ Want > 0 /\ inbox = 0
    /\ wait = 0 /\ timeout > 0 /\ socket = "open"
    /\ Fail
    /\ timeout' = op.previous
    /\ Return("TransportTimeoutError")
    /\ UNCHANGED <<given, socket, inbox, unseen, iface, counters>>

\* Mutant: the timeout is not taken back when the read times out.
RecvTimesOutUnrestored ==
    /\ pc = "recv" /\ Want > 0 /\ inbox = 0
    /\ \/ wait = 0 /\ timeout > 0 /\ socket = "open" /\ UNCHANGED socket
       \/ socket = "dead" /\ socket' = "fin"
    /\ Return("TransportTimeoutError")
    /\ UNCHANGED <<given, state, last_error, timeout, inbox, unseen, iface, counters>>

(* A chunk already read by receive_exactly() is dropped with the call.     *)
RecvTimesOut ==
    /\ pc = "recv" /\ Want > 0 /\ inbox = 0
    /\ \/ wait = 0 /\ timeout > 0 /\ socket = "open" /\ UNCHANGED socket
       \/ socket = "dead" /\ socket' = "fin"    \* ETIMEDOUT is reported once
    /\ timeout' = op.previous
    /\ Return("TransportTimeoutError")
    /\ UNCHANGED <<given, state, last_error, inbox, unseen, iface, counters>>

(* A reset, or BlockingIOError from recv with timeout 0. *)
RecvBreaks ==
    /\ pc = "recv" /\ Want > 0 /\ inbox = 0
    /\ socket = "rst" \/ (timeout = 0 /\ socket = "open")
    /\ LoseConnection

(* b"" is taken for end of stream, also when nothing was asked for. *)
RecvEmpty ==
    /\ pc = "recv"
    /\ Want = 0 \/ (inbox = 0 /\ socket = "fin")
    /\ LoseConnection

(* An empty read asks nothing of the link, not even to be connected. *)
ReceiveNothing ==
    /\ pc = "idle"
    /\ Return("ok")
    /\ UNCHANGED rest

ReceiveExactly(size, seconds) ==
    /\ pc = "idle" /\ size > 0
    /\ Block("loop", [NoCall EXCEPT !.kind = "receive_exactly",
                                    !.size = size, !.left = seconds], 0)
    /\ UNCHANGED rest

LoopExpires ==
    /\ pc = "loop" /\ op.left <= 0
    /\ Return("TransportTimeoutError")
    /\ UNCHANGED rest

LoopRefused ==
    /\ pc = "loop" /\ op.left > 0 /\ state # "connected"
    /\ Return("NotConnectedError")
    /\ UNCHANGED rest

\* Mutant: each chunk gets the configured timeout.
LoopReceivesAfresh ==
    /\ pc = "loop" /\ op.left > 0 /\ state = "connected"
    /\ EnterRecv(op, config.receive_timeout)

(* Each chunk may wait for what is left of the whole read's deadline. *)
LoopReceives ==
    /\ pc = "loop" /\ op.left > 0 /\ state = "connected"
    /\ EnterRecv(op, op.left)

-----------------------------------------------------------------------------
(* Clock, operator, kernel, peer and host.                                 *)

Tick ==
    /\ \/ /\ pc \in {"handshake", "sleep", "send", "recv"} /\ wait > 0
          /\ wait' = wait - 1
       \/ /\ pc = "loop" /\ op.left > 0
          /\ UNCHANGED wait
    /\ op' = IF op.kind = "receive_exactly"
             THEN [op EXCEPT !.left = op.left - 1] ELSE op
    /\ UNCHANGED <<pc, result, rest>>

(* Ctrl-C raises KeyboardInterrupt where the program waits.  Only recv     *)
(* has a `finally'.                                                        *)
Interrupt ==
    /\ pc \in Blocking
    /\ timeout' = IF pc = "recv" THEN op.previous ELSE timeout
    /\ Return("KeyboardInterrupt")
    /\ UNCHANGED <<given, state, last_error, socket, inbox, unseen, iface,
                   counters>>

KernelAccepts ==
    /\ pc = "send" /\ op.got < op.size /\ socket \in {"open", "fin"}
    /\ op' = [op EXCEPT !.got = op.got + 1]
    /\ unseen' = unseen + 1
    /\ UNCHANGED <<pc, wait, result, given, state, last_error, socket,
                   timeout, inbox, iface, counters>>

PeerSends ==
    /\ socket = "open" /\ bytes_received + inbox < MaxBytes
    /\ inbox' = inbox + 1
    /\ UNCHANGED <<frame, given, state, last_error, socket, timeout,
                   unseen, iface, counters>>

(* Retransmission is only given up when something was sent. *)
ConnectionEnds ==
    /\ \/ socket = "open" /\ socket' \in {"fin", "rst"}
       \/ socket = "fin" /\ socket' = "rst"
       \/ socket = "open" /\ socket' = "dead" /\ bytes_sent + unseen > 0
    /\ UNCHANGED <<frame, given, state, last_error, timeout, inbox,
                   unseen, iface, counters>>

HostChanges ==
    /\ \/ nic' \in NicStates \ {nic} /\ UNCHANGED peer
       \/ peer' \in PeerStates \ {peer} /\ UNCHANGED nic
    /\ UNCHANGED <<frame, config, state, last_error, connection, iface, counters>>

-----------------------------------------------------------------------------
DefaultOr(seconds) == seconds \cup {config.receive_timeout}

CallerSteps ==
    \/ Connect \/ ConnectAgain \/ Reconnect \/ Disconnect \/ Refused
    \/ \E n \in Sizes : Send(n)
    \/ \E n \in Sizes, t \in DefaultOr(Timeouts) :
          Receive(n, t) \/ ReceiveExactly(n, t)
    \/ 0 \in Sizes /\ ReceiveNothing

OpeningSteps ==
    \/ ResolveInterface \/ ResolveFails
    \/ SocketFails \/ ConnectTimeoutRefused
    \/ BindFails \/ GatewayRefused \/ LookupFails \/ Dial
    \/ HandshakeFails \/ Accepted \/ AcceptedBadTimeout \/ Retry

TransferSteps ==
    \/ SendDone \/ SendTimesOut \/ SendBreaks
    \/ RecvData \/ RecvTimesOut \/ RecvBreaks \/ RecvEmpty
    \/ LoopExpires \/ LoopRefused \/ LoopReceives

WorldSteps ==
    \/ Tick \/ Interrupt \/ KernelAccepts \/ PeerSends \/ ConnectionEnds
    \/ HostChanges

Next == CallerSteps \/ OpeningSteps \/ TransferSteps \/ WorldSteps

Spec == Init /\ [][Next]_vars

(* A running program takes its next step, and time passes; nothing is      *)
(* assumed of the callers, the peer, the host or the operator.             *)
Fairness ==
    /\ WF_vars(OpeningSteps \/ TransferSteps)
    /\ WF_vars(Tick)

FairSpec == Spec /\ Fairness

-----------------------------------------------------------------------------
(* Properties.                                                             *)

(* The variables stay in their types.                                      *)
TypeOK ==
    /\ config \in Configs
    /\ state \in ConnectionState
    /\ last_error \in {"none", "failure", "observer"}
    /\ socket \in SocketStates /\ timeout \in Int
    /\ iface \in {"none"} \cup Snapshots
    /\ bytes_sent \in Nat /\ bytes_received \in Nat
    /\ pc \in {"idle", "dial", "loop"} \cup Blocking
    /\ op \in Frames
    /\ wait \in Int /\ result \in Results
    /\ nic \in NicStates /\ peer \in PeerStates
    /\ inbox \in Nat /\ unseen \in Nat

(* CONNECTED and a held socket go together - send() and receive() assert   *)
(* it - and once DISCONNECTED no socket is left open.  ERROR promises      *)
(* neither: a send that timed out keeps the socket.                        *)
SocketMatchesState ==
    /\ state = "connected" => socket # "none"
    /\ state = "disconnected" => socket = "none"

(* However a read ends - data, timeout, Ctrl-C - the socket is left with   *)
(* the configured timeout for the next call.                               *)
TimeoutRestored ==
    socket # "none" /\ pc # "recv" => timeout = config.receive_timeout

(* receive_exactly(): the overall deadline applies to the whole read - no  *)
(* recv inside it may wait beyond what is left.                            *)
WholeReadDeadline ==
    pc = "recv" /\ op.kind = "receive_exactly" => wait <= op.left

(* A transport in ERROR can say why. *)
ErrorExplained == state = "error" => last_error # "none"

(* Where a call stands, what it assumes: attempts of reconnect() run with   *)
(* the old socket closed, transfers run on a connected socket whose        *)
(* timeout they will restore, and a call is pending exactly while it runs. *)
PhaseOK ==
    /\ result = "pending" <=> pc # "idle"
    /\ pc = "idle" => op = NoCall
    /\ pc \in {"resolve", "dial", "handshake"} =>
          state = "connecting" /\ op.kind \in {"connect", "reconnect"}
    /\ op.kind = "reconnect" => socket = "none"
    /\ pc = "sleep" => state = "error" /\ op.kind = "reconnect"
    /\ pc = "send" => state = "connected" /\ op.kind = "send"
                         /\ op.got <= op.size /\ op.got <= unseen
    /\ pc = "recv" => /\ state = "connected"
                      /\ op.kind \in {"receive", "receive_exactly"}
                      /\ op.previous = config.receive_timeout
                      /\ op.got <= op.size
    /\ pc = "loop" => op.kind = "receive_exactly" /\ op.got < op.size

(* The inductive invariant behind the theorems of EnetProofs. *)
IInv == /\ TypeOK /\ PhaseOK /\ SocketMatchesState /\ TimeoutRestored
        /\ WholeReadDeadline /\ ErrorExplained

(* A payload is counted and shown to the observers once it is all handed   *)
(* to the kernel; a failed send never leaves a connection usable that      *)
(* carries bytes no observer saw.  (Ctrl-C in sendall does.)               *)
FailedSendEndsLink ==
    [][pc = "send" /\ result' \notin {"pending", "KeyboardInterrupt"}
         /\ unseen' > unseen - op.got => state' # "connected"]_vars

(* ConnectionLostError: the peer closed or reset the link - unless nothing *)
(* was waited for: a non-blocking call and a read of no bytes are taken    *)
(* for a loss of a healthy link.                                           *)
LostMeansPeerGone ==
    [][pc # "idle" /\ result' = "ConnectionLostError"
         => \/ socket \in {"fin", "rst"}
            \/ timeout = 0
            \/ pc = "recv" /\ Want = 0]_vars

(* A receive() that timed out can be called again: connection, stream and  *)
(* counters are as before, which the listening loop of the CLI relies on.  *)
(* So can receive_exactly(): what it had read until then is lost to its    *)
(* caller but was counted, and the rest is still to be read.  With no time *)
(* at all it times out even where it is not connected.                     *)
TimedOutReadIsHarmless ==
    [][op.kind \in {"receive", "receive_exactly"}
         /\ result' = "TransportTimeoutError"
         => /\ \/ state' = "connected" /\ socket' # "none"
               \/ op.kind = "receive_exactly" /\ pc = "loop"
            /\ UNCHANGED <<state, inbox, bytes_received, last_error>>]_vars

(* reconnect() raises ConnectionFailedError only after all its attempts.   *)
FailureSpendsAttempts ==
    [][op.kind = "reconnect" /\ result' = "ConnectionFailedError"
         => op.attempt = Attempts]_vars

(* A transport is left CONNECTING only by an exception that is none of     *)
(* f10diag's own.                                                          *)
Foreign == {"OSError", "OverflowError", "TypeError", "ValueError",
            "KeyboardInterrupt"}
ConnectingIsTransient ==
    [][pc # "idle" /\ pc' = "idle" /\ state' = "connecting"
         => \/ result' \in Foreign
            \/ op.kind \notin {"connect", "reconnect"}]_vars

(* What a running call has left to do: attempts and the phases of one, or  *)
(* the bytes still wanted.                                                 *)
AttemptsLeft == IF op.kind = "reconnect" THEN Attempts - op.attempt ELSE 0
Phase == CASE pc = "resolve" -> 4 [] pc = "dial" -> 3
           [] pc = "handshake" -> 2 [] OTHER -> 1

Remaining ==
    CASE pc \in {"resolve", "dial", "handshake", "sleep"} ->
           4 * AttemptsLeft + Phase
      [] pc = "loop" -> 2 * Want + 1
      [] pc = "recv" -> 2 * Want
      [] OTHER -> Want

(* And the seconds it has left for the step it is at.                      *)
Clock == IF pc = "loop" THEN op.left ELSE wait

(* A call that goes on comes nearer to its end with all it does: it has    *)
(* less left to do, or less time for the same (the retries of reconnect(), *)
(* the loops of receive_exactly() and sendall).  It cannot go on for ever, *)
(* then, unless it waits for ever.                                         *)
CallsRunDown ==
    [][pc # "idle" /\ pc' # "idle"
         => \/ UNCHANGED frame
            \/ Remaining' \in 0 .. Remaining - 1
            \/ Remaining' = Remaining /\ Clock' \in 0 .. Clock - 1]_vars

(* The transport keeps the contract of its base class.                     *)
Contract == INSTANCE ByteTransport
    WITH link <- state, sent <- bytes_sent, received <- bytes_received,
         outcome <- result
ImplementsContract == Contract!Spec

(* Every call returns.                                                     *)
CallsReturn == pc # "idle" ~> pc = "idle"

=============================================================================
