--------------------------- MODULE ReplayTransport ---------------------------
(***************************************************************************)
(* ReplayTransport (transport/replay.py): a recorded list of packets       *)
(* walked by a cursor.  send() consumes the next recorded TX packet,       *)
(* receive() yields the next recorded RX packet, each skipping packets of  *)
(* the other direction; a read shorter than the packet inserts the rest of *)
(* it into the list.                                                       *)
(*                                                                         *)
(* Recorded RX bytes are distinct numbers, increasing along the capture,   *)
(* so that a byte replayed twice or out of order shows.                    *)
(***************************************************************************)
EXTENDS Naturals, Sequences, SequencesExt

CONSTANTS
    Captures,       \* lists of packets to replay
    Payloads,       \* what callers may send besides what was recorded
    Sizes,          \* read sizes
    MaxPackets,     \* bound: length of the list, with what splits insert
    MaxMismatches,  \* bound: mismatches recorded
    MaxShown        \* bound: bytes replayed per behaviour, over all passes

Packet == [direction : {"TX", "RX"}, data : Seq(Nat)]

Increasing(s) == \A i, j \in DOMAIN s : i < j => s[i] < s[j]
Below(s, t)   == \A i \in DOMAIN s, j \in DOMAIN t : s[i] < t[j]

(* How bytes are numbered; no transport shows an empty packet as received. *)
Numbered(ps) ==
    \A i \in DOMAIN ps : ps[i].direction = "RX" =>
       /\ ps[i].data # <<>> /\ Increasing(ps[i].data)
       /\ \A j \in DOMAIN ps : i < j /\ ps[j].direction = "RX" =>
             Below(ps[i].data, ps[j].data)

ASSUME ReplayAssumption ==
    /\ Captures \subseteq Seq(Packet) /\ \A c \in Captures : Numbered(c)
    /\ Payloads \subseteq Seq(Nat) /\ Sizes \subseteq Nat \ {0}

VARIABLES
    state, last_error,
    packets,        \* _packets
    cursor,         \* _cursor, counting from 0
    mismatches,     \* _mismatches, as <<index, payload>>
    strict,
    result,
    capture,        \* history: the list as it was loaded
    grown,          \* history: the list had grown when this pass began
    read, wrote,    \* history: bytes read, payloads sent, in this pass
    shown_tx, shown_rx  \* history: bytes shown to the observers

given == <<strict, capture>>
pass  == <<read, wrote, grown>>
shown == <<shown_tx, shown_rx>>
vars  == <<state, last_error, packets, cursor, mismatches, result, given,
           pass, shown>>

Init ==
    /\ capture \in Captures /\ packets = capture
    /\ strict \in BOOLEAN
    /\ state = "disconnected" /\ last_error = "none" /\ result = "none"
    /\ cursor = 0 /\ mismatches = <<>>
    /\ grown = FALSE /\ read = <<>> /\ wrote = <<>>
    /\ shown_tx = 0 /\ shown_rx = 0

(* _emit *)
Emit == last_error' \in {last_error, "observer"}

(* The packets of a direction the cursor has not passed, by index. *)
Ahead(d) == {i \in cursor .. Len(packets) - 1 : packets[i + 1].direction = d}

(* _next_index *)
NextIndex(d) == CHOOSE i \in Ahead(d) : \A j \in Ahead(d) : i <= j

StartPass ==
    /\ cursor' = 0 /\ mismatches' = <<>>
    /\ read' = <<>> /\ wrote' = <<>>
    /\ grown' = (Len(packets) > Len(capture))

Rewind ==
    /\ StartPass
    /\ result' = "ok"
    /\ UNCHANGED <<state, last_error, packets, given, shown>>

Connect ==
    /\ packets # <<>>
    /\ StartPass
    /\ state' = "connected" /\ last_error' = "none" /\ result' = "ok"
    /\ UNCHANGED <<packets, given, shown>>

\* Mutant: the failure does not change the state.
ConnectEmptyQuietly ==
    /\ packets = <<>>
    /\ result' = "ConnectionFailedError"
    /\ UNCHANGED <<state, last_error, packets, cursor, mismatches, given,
                   pass, shown>>

ConnectEmpty ==
    /\ packets = <<>>
    /\ state' = "error" /\ last_error' = "failure"
    /\ result' = "ConnectionFailedError"
    /\ UNCHANGED <<packets, cursor, mismatches, given, pass, shown>>

Disconnect ==
    /\ state' = IF state = "error" THEN "error" ELSE "disconnected"
    /\ result' = "ok"
    /\ UNCHANGED <<last_error, packets, cursor, mismatches, given, pass,
                   shown>>

Refused ==
    /\ state # "connected"
    /\ result' = "NotConnectedError"
    /\ UNCHANGED <<state, last_error, packets, cursor, mismatches, given,
                   pass, shown>>

(* send() or receive() with nothing of its direction ahead. *)
Exhausted(d) ==
    /\ state = "connected" /\ Ahead(d) = {}
    /\ result' = "TransportTimeoutError"
    /\ UNCHANGED <<state, last_error, packets, cursor, mismatches, given,
                   pass, shown>>

Matches(index, payload) == packets[index + 1].data = payload

\* Mutant: the mismatch is recorded, strict mode forgotten.
Tolerated(index, payload) == TRUE

(* Strict mode refuses a mismatch without moving the cursor. *)
Acceptable(index, payload) == Matches(index, payload) \/ ~strict

NoteMismatch(index, payload) ==
    IF Matches(index, payload) THEN UNCHANGED mismatches
    ELSE /\ Len(mismatches) < MaxMismatches
         /\ mismatches' = Append(mismatches, <<index, payload>>)

Send(payload) ==
    /\ state = "connected" /\ Ahead("TX") # {}
    /\ shown_tx + shown_rx < MaxShown
    /\ LET index == NextIndex("TX")
       IN  /\ Acceptable(index, payload)
           /\ NoteMismatch(index, payload)
           /\ cursor' = index + 1
    /\ wrote' = Append(wrote, payload)
    /\ shown_tx' = shown_tx + Len(payload)
    /\ Emit
    /\ result' = "ok"
    /\ UNCHANGED <<state, packets, given, read, grown, shown_rx>>

SendMismatch(payload) ==
    /\ state = "connected" /\ Ahead("TX") # {}
    /\ ~Acceptable(NextIndex("TX"), payload)
    /\ NoteMismatch(NextIndex("TX"), payload)
    /\ result' = "ReplayMismatchError"
    /\ UNCHANGED <<state, last_error, packets, cursor, given, pass, shown>>

\* Mutants: the rest of a split packet is dropped; it goes in front of
\* the packet itself.
DropRest(index, size) == packets
KeepRestInFront(index, size) ==
    LET p == packets[index + 1]
    IN  IF Len(p.data) <= size THEN packets
        ELSE InsertAt(packets, index + 1,
                 [p EXCEPT !.data = SubSeq(p.data, size + 1, Len(p.data))])

(* The list after a read of packet `index': the rest of a split packet     *)
(* comes right after it, while the packet itself stays whole.              *)
KeepRest(index, size) ==
    LET p == packets[index + 1]
    IN  IF Len(p.data) <= size THEN packets
        ELSE InsertAt(packets, index + 2,
                 [p EXCEPT !.data = SubSeq(p.data, size + 1, Len(p.data))])

Receive(size) ==
    /\ state = "connected" /\ Ahead("RX") # {}
    /\ shown_tx + shown_rx < MaxShown
    /\ LET index == NextIndex("RX")
           data  == packets[index + 1].data
           chunk == SubSeq(data, 1, IF Len(data) > size THEN size
                                                        ELSE Len(data))
       IN  /\ packets' = KeepRest(index, size)
           /\ cursor' = index + 1
           /\ read' = read \o chunk
           /\ shown_rx' = shown_rx + Len(chunk)
    /\ Len(packets') <= MaxPackets
    /\ Emit
    /\ result' = "ok"
    /\ UNCHANGED <<state, mismatches, given, wrote, grown, shown_tx>>

(* The payloads that were recorded as sent. *)
Requests == {p.data : p \in {q \in ToSet(capture) : q.direction = "TX"}}

Next ==
    \/ Rewind \/ Connect \/ ConnectEmpty \/ Disconnect \/ Refused
    \/ \E d \in {"TX", "RX"} : Exhausted(d)
    \/ \E p \in Payloads \cup Requests : Send(p) \/ SendMismatch(p)
    \/ \E n \in Sizes : Receive(n)

Spec == Init /\ [][Next]_vars

-----------------------------------------------------------------------------
(* A replay only ever returns bytes that were observed: within a pass each *)
(* recorded byte comes at most once and in the recorded order, however     *)
(* reads split the packets.                                                *)
OnceInOrder == Increasing(read)

(* The same for passes over the list as it was loaded; and however reads   *)
(* split it, no read is empty, which would look like a closed link.        *)
FirstPassOnceInOrder ==
    /\ ~grown => OnceInOrder
    /\ \A i \in DOMAIN packets :
          packets[i].direction = "RX" => packets[i].data # <<>>

(* The bytes of each packet, as far as it was received. *)
Received(ps) ==
    [i \in DOMAIN ps |-> IF ps[i].direction = "RX" THEN ps[i].data ELSE <<>>]

(* A reader that never sends gets every recorded byte before it is told    *)
(* that nothing more is there.                                             *)
NothingWithheld ==
    [][result' = "TransportTimeoutError" /\ Ahead("RX") = {}
         /\ wrote = <<>> /\ ~grown /\ state = "connected"
         => read = FlattenSeq(Received(capture))]_vars

(* What was sent is what was recorded, in that order, possibly with gaps   *)
(* where reads skipped a request: always in strict mode, and in a tolerant *)
(* replay that reports no mismatch.                                        *)
SentFollowsRecording ==
    strict \/ mismatches = <<>> =>
      \E at \in [DOMAIN wrote -> DOMAIN capture] :
         /\ Increasing(at)
         /\ \A i \in DOMAIN wrote :
               capture[at[i]] = [direction |-> "TX", data |-> wrote[i]]

(* The replay keeps the contract of its base class. *)
Contract == INSTANCE ByteTransport
    WITH link <- state, sent <- shown_tx, received <- shown_rx,
         outcome <- result
ImplementsContract == Contract!Spec
=============================================================================
