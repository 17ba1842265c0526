---------------------------- MODULE MockTransport ----------------------------
(***************************************************************************)
(* MockTransport (transport/mock.py), the scripted in-memory transport the *)
(* tests and the demo run on, with the observers of the base class.        *)
(*                                                                         *)
(* Response bytes are numbered in the order in which they are queued, so   *)
(* that a payload is a sequence of distinct numbers and splitting,         *)
(* reordering, losing or repeating bytes shows.  Sent payloads are lengths.*)
(* The latency of each I/O call is left out: it sleeps after the state was *)
(* checked, and nothing else runs meanwhile.                               *)
(***************************************************************************)
EXTENDS Transport

CONSTANTS
    Sizes,      \* payload and read sizes
    DropAfters, \* values of drop_after_sends, NoDrop standing for None
    NoDrop,
    MaxBytes,   \* bound: response bytes queued per behaviour
    MaxCalls    \* bound: sends, connects and disconnects each

ASSUME MockAssumption ==
    /\ Sizes \subseteq Nat \ {0}
    /\ DropAfters \subseteq Nat \cup {NoDrop}
    /\ MaxBytes \in Nat /\ MaxCalls \in Nat

VARIABLES
    queue,              \* payloads not yet received
    sent,               \* how many payloads send() accepted
    fail_on_connect, connect_calls, disconnect_calls, drop_after_sends,
    responder,          \* reply size, 0 for a responder that stays silent
    pc,                 \* "idle", or in _emit for "tx" or "rx"
    result,
    queued,             \* response bytes numbered so far
    delivered,          \* history: the bytes receive() returned, in order
    shown_tx, shown_rx, \* history: bytes shown to the observers
    succeeded           \* history: the sends that returned to the caller

script == <<fail_on_connect, drop_after_sends, responder>>
tally  == <<connect_calls, disconnect_calls>>
shown  == <<shown_tx, shown_rx, succeeded>>
stream == <<queue, queued, delivered>>
vars   == <<base, stream, sent, script, tally, pc, result, shown>>

Init ==
    /\ TransportInit
    /\ queue = <<>> /\ queued = 0 /\ delivered = <<>>
    /\ sent = 0 /\ connect_calls = 0 /\ disconnect_calls = 0
    /\ fail_on_connect \in BOOLEAN /\ responder \in Sizes \cup {0}
    /\ drop_after_sends \in DropAfters
    /\ pc = "idle" /\ result = "none"
    /\ shown_tx = 0 /\ shown_rx = 0 /\ succeeded = 0

Fresh(n) == [i \in 1..n |-> queued + i]

QueueResponse(n) ==
    /\ pc = "idle" /\ queued + n <= MaxBytes
    /\ queue' = Append(queue, Fresh(n)) /\ queued' = queued + n
    /\ UNCHANGED <<base, delivered, sent, script, tally, pc, result, shown>>

SetFailOnConnect(armed) ==
    /\ pc = "idle"
    /\ fail_on_connect' = armed
    /\ UNCHANGED <<base, stream, sent, drop_after_sends, responder, tally, pc, result, shown>>

\* Mutant: the peer of a new connection counts anew.
ConnectCountsAnew ==
    /\ pc = "idle" /\ connect_calls < MaxCalls
    /\ connect_calls' = connect_calls + 1 /\ sent' = 0
    /\ \/ fail_on_connect /\ Fail /\ result' = "ConnectionFailedError"
       \/ ~fail_on_connect /\ SetState("connected") /\ result' = "ok"
    /\ UNCHANGED <<observers, snapshot, called, stream, script,
                   disconnect_calls, pc, shown>>

(* An open transport is opened again without complaint - or fails.         *)
Connect ==
    /\ pc = "idle" /\ connect_calls < MaxCalls
    /\ connect_calls' = connect_calls + 1
    /\ \/ fail_on_connect /\ Fail /\ result' = "ConnectionFailedError"
       \/ ~fail_on_connect /\ SetState("connected") /\ result' = "ok"
    /\ UNCHANGED <<observers, snapshot, called, stream, sent, script,
                   disconnect_calls, pc, shown>>

Disconnect ==
    /\ pc = "idle" /\ disconnect_calls < MaxCalls
    /\ disconnect_calls' = disconnect_calls + 1
    /\ IF state = "error" THEN UNCHANGED <<state, last_error>>
                          ELSE SetState("disconnected")
    /\ result' = "ok"
    /\ UNCHANGED <<observers, snapshot, called, stream, sent, script,
                   connect_calls, pc, shown>>

Refused ==
    /\ pc = "idle" /\ state # "connected"
    /\ result' = "NotConnectedError"
    /\ UNCHANGED <<base, stream, sent, script, tally, pc, shown>>

Dropping == drop_after_sends # NoDrop /\ sent >= drop_after_sends

\* Mutant: a dropped send does not leave ERROR.
SendDroppedQuietly ==
    /\ pc = "idle" /\ state = "connected" /\ Dropping
    /\ SetState("disconnected")
    /\ result' = "ConnectionLostError"
    /\ UNCHANGED <<observers, snapshot, called, stream, sent, script, tally,
                   pc, shown>>

SendDropped ==
    /\ pc = "idle" /\ state = "connected" /\ Dropping
    /\ Fail
    /\ result' = "ConnectionLostError"
    /\ UNCHANGED <<observers, snapshot, called, stream, sent, script, tally,
                   pc, shown>>

Send(n) ==
    /\ pc = "idle" /\ state = "connected" /\ ~Dropping
    /\ sent < MaxCalls /\ queued + responder <= MaxBytes
    /\ sent' = sent + 1
    /\ BeginEmit /\ shown_tx' = shown_tx + n
    /\ pc' = "tx" /\ result' = "pending"
    /\ UNCHANGED <<state, last_error, observers, stream, script, tally,
                   shown_rx, succeeded>>

Callback ==
    /\ pc # "idle"
    /\ Notify
    /\ UNCHANGED <<stream, sent, script, tally, pc, result, shown>>

(* The observers have seen the request before its reply is queued. *)
SendReturns ==
    /\ pc = "tx" /\ EndEmit
    /\ IF responder > 0
       THEN /\ queue' = Append(queue, Fresh(responder))
            /\ queued' = queued + responder
       ELSE UNCHANGED <<queue, queued>>
    /\ pc' = "idle" /\ result' = "ok" /\ succeeded' = succeeded + 1
    /\ UNCHANGED <<delivered, sent, script, tally, shown_tx, shown_rx>>

ReceiveNothing ==
    /\ pc = "idle" /\ state = "connected" /\ queue = <<>>
    /\ result' = "TransportTimeoutError"
    /\ UNCHANGED <<base, stream, sent, script, tally, pc, shown>>

\* Mutant: append where the code appends on the left.
RemainderLast(payload, size) ==
    IF Len(payload) <= size THEN Tail(queue)
    ELSE Append(Tail(queue), SubSeq(payload, size + 1, Len(payload)))

(* A partial read leaves the remainder at the head of the queue. *)
Remainder(payload, size) ==
    IF Len(payload) <= size THEN Tail(queue)
    ELSE <<SubSeq(payload, size + 1, Len(payload))>> \o Tail(queue)

Receive(size) ==
    /\ pc = "idle" /\ state = "connected" /\ queue # <<>>
    /\ LET payload == Head(queue)
           chunk   == SubSeq(payload, 1, IF Len(payload) > size
                                         THEN size ELSE Len(payload))
       IN  /\ queue' = Remainder(payload, size)
           /\ delivered' = delivered \o chunk
           /\ shown_rx' = shown_rx + Len(chunk)
    /\ BeginEmit
    /\ pc' = "rx" /\ result' = "pending"
    /\ UNCHANGED <<state, last_error, observers, queued, sent, script, tally,
                   shown_tx, succeeded>>

ReceiveReturns ==
    /\ pc = "rx" /\ EndEmit
    /\ pc' = "idle" /\ result' = "ok"
    /\ UNCHANGED <<stream, sent, script, tally, shown>>

ObserverSteps ==
    /\ pc = "idle"
    /\ \E o \in Observers : AddObserver(o) \/ RemoveObserver(o)
    /\ UNCHANGED <<stream, sent, script, tally, pc, result, shown>>

Next ==
    \/ Connect \/ Disconnect \/ Refused \/ ObserverSteps
    \/ \E n \in Sizes : QueueResponse(n) \/ Send(n) \/ Receive(n)
    \/ \E armed \in BOOLEAN : SetFailOnConnect(armed)
    \/ SendDropped \/ Callback \/ SendReturns
    \/ ReceiveNothing \/ ReceiveReturns

Spec == Init /\ [][Next]_vars

-----------------------------------------------------------------------------
(* Like a stream socket: however reads split the responses, the bytes come *)
(* out once each, in the order they were queued, and none is lost; and no  *)
(* payload of the queue is empty, which would look like the end of it.     *)
StreamInOrder ==
    /\ delivered \o FlattenSeq(queue) = [i \in 1..queued |-> i]
    /\ \A i \in DOMAIN queue : queue[i] # <<>>

(* Every callback registered when a packet is emitted is called for it, in *)
(* order, as often as it is registered - whatever another one raises or    *)
(* does to the list meanwhile.                                             *)
EveryObserverHears ==
    pc # "idle" /\ Emitted => called = snapshot

(* "Simulate the peer disappearing after this many successful sends"       *)
(* (mock.py:64): a send is lost when exactly so many returned to their     *)
(* callers, neither earlier nor later, however often the transport is      *)
(* disconnected, fails to connect or is connected again in between.        *)
PeerDisappears ==
    /\ result = "ConnectionLostError" => succeeded = drop_after_sends
    /\ drop_after_sends # NoDrop => succeeded <= drop_after_sends

(* The mock keeps the contract of its base class. *)
Contract == INSTANCE ByteTransport
    WITH link <- state, sent <- shown_tx, received <- shown_rx,
         outcome <- result
ImplementsContract == Contract!Spec
=============================================================================
