----------------------------- MODULE MockProofs -----------------------------
(***************************************************************************)
(* Theorems of MockTransport, and with it of the base class: observers are *)
(* heard, the scripted peer disappears when it should, the contract of     *)
(* the base class is kept - for every set of observers, sizes and scripts. *)
(***************************************************************************)
EXTENDS MockTransport, SequenceLemmas

Payload == Seq(Nat) \ {<<>>}

Types ==
    /\ observers \in Seq(Observers) /\ snapshot \in Seq(Observers)
    /\ called \in Seq(Observers)
    /\ queue \in Seq(Payload) /\ queued \in Nat /\ delivered \in Seq(Nat)
    /\ sent \in Nat /\ shown_tx \in Nat /\ shown_rx \in Nat
    /\ responder \in Sizes \cup {0} /\ drop_after_sends \in DropAfters
    /\ pc \in {"idle", "tx", "rx"}
    /\ pc # "idle" => result = "pending" /\ state = "connected"

(* The callbacks made so far are the first of the snapshot.                *)
Heard ==
    pc # "idle" =>
      /\ Len(called) <= Len(snapshot)
      /\ \A i \in 1 .. Len(called) : called[i] = snapshot[i]

(* Sends are counted before they return; no more than scripted are, and a  *)
(* loss comes when they were.                                              *)
Counted ==
    /\ succeeded \in Nat
    /\ sent = IF pc = "tx" THEN succeeded + 1 ELSE succeeded
    /\ drop_after_sends # NoDrop => sent <= drop_after_sends
    /\ result = "ConnectionLostError" => sent = drop_after_sends

MockInv == Types /\ Heard /\ Counted

-----------------------------------------------------------------------------
LEMMA InitEstablishesMockInv == Init => MockInv
<1> SUFFICES ASSUME Init PROVE MockInv
  OBVIOUS
<1>1. <<>> \in Seq(Observers) /\ <<>> \in Seq(Payload) /\ <<>> \in Seq(Nat)
  BY EmptySeq
<1> QED
  BY <1>1, MockAssumption
  DEF Init, TransportInit, MockInv, Types, Heard, Counted

(* A response of n > 0 bytes is a payload.                                 *)
LEMMA FreshIsPayload ==
    ASSUME queued \in Nat, NEW n \in Nat, n > 0
    PROVE  Fresh(n) \in Payload /\ Len(Fresh(n)) = n
<1>1. Fresh(n) \in [1 .. n -> Nat] /\ \A i \in 1 .. n : queued + i \in Nat
  BY DEF Fresh
<1>2. Fresh(n) \in Seq(Nat) /\ Len(Fresh(n)) = n
  BY <1>1
<1>3. Fresh(n) # <<>>
  BY <1>2, EmptySeq
<1> QED BY <1>2, <1>3 DEF Payload

(* Any one callback is the next of the snapshot.                           *)
LEMMA CallbackKeepsMockInv ==
    ASSUME MockInv, Callback
    PROVE  MockInv'
<1>1. PICK o : /\ Len(called) < Len(snapshot)
               /\ o = snapshot[Len(called) + 1]
               /\ called' = Append(called, o)
               /\ \/ observers' = observers
                  \/ observers' = RemoveFirst(observers, o)
                  \/ \E new \in Observers :
                        observers' = Append(observers, new)
               /\ UNCHANGED <<state, snapshot, stream, sent, script, pc,
                              result, shown>>
  BY DEF Callback, Notify, Walked
<1>2. /\ called \in Seq(Observers) /\ snapshot \in Seq(Observers)
      /\ observers \in Seq(Observers)
      /\ Len(called) \in Nat /\ Len(snapshot) \in Nat
  BY LenProperties DEF MockInv, Types
<1>3. o \in Observers
  BY <1>1, <1>2, ElementOfSeq
<1>4. observers' \in Seq(Observers)
  <2>1. RemoveFirst(observers, o) \in Seq(Observers)
    BY <1>2, RemovingKeepsType
  <2>2. \A new \in Observers : Append(observers, new) \in Seq(Observers)
    BY <1>2, AppendProperties
  <2> QED BY <1>1, <1>2, <2>1, <2>2
<1>5. /\ called' \in Seq(Observers) /\ Len(called') = Len(called) + 1
      /\ \A i \in 1 .. Len(called) : called'[i] = called[i]
      /\ called'[Len(called) + 1] = o
  BY <1>1, <1>2, <1>3, AppendProperties
<1>6. Heard'
  <2>1. \A i \in 1 .. Len(called) : called[i] = snapshot[i]
    BY DEF MockInv, Heard, Callback
  <2>2. \A i \in 1 .. Len(called) + 1 :
           i \in 1 .. Len(called) \/ i = Len(called) + 1
    BY <1>2
  <2> QED BY <1>1, <1>2, <1>5, <2>1, <2>2 DEF Heard
<1> QED
  BY <1>1, <1>4, <1>5, <1>6
  DEF MockInv, Types, Counted, stream, script, shown

(* A read takes a payload, or the first part of one, from the queue.       *)
LEMMA ReadTakes ==
    ASSUME Types, NEW n \in Sizes, Receive(n)
    PROVE  /\ queue' \in Seq(Payload) /\ delivered' \in Seq(Nat)
           /\ shown_rx' \in Nat /\ shown_rx' > shown_rx
<1> DEFINE payload == Head(queue)
           k == IF Len(payload) > n THEN n ELSE Len(payload)
           chunk == SubSeq(payload, 1, k)
<1>1. n \in Nat /\ n > 0
  BY MockAssumption
<1>2. /\ queue \in Seq(Payload) /\ queue # <<>>
      /\ payload \in Seq(Nat) /\ payload # <<>> /\ Tail(queue) \in Seq(Payload)
  BY HeadTailProperties DEF Receive, Types, Payload
<1>3. Len(payload) \in Nat /\ Len(payload) > 0
  BY <1>2, EmptySeq
<1>4. /\ queue' = Remainder(payload, n) /\ delivered' = delivered \o chunk
      /\ shown_rx' = shown_rx + Len(chunk)
  BY DEF Receive
<1> HIDE DEF payload
<1>5. k \in 1 .. Len(payload)
  BY <1>1, <1>3
<1>6. \A i \in 1 .. Len(payload) : payload[i] \in Nat
  BY <1>2, ElementOfSeq
<1> HIDE DEF k
<1>7. chunk \in Seq(Nat) /\ Len(chunk) = k /\ k \in Nat /\ k > 0
  <2>1. \A i \in 1 .. k : payload[i] \in Nat
    BY <1>3, <1>5, <1>6
  <2> QED BY <1>3, <1>5, <2>1, SubSeqProperties
<1>8. Remainder(payload, n) \in Seq(Payload)
  <2>1. CASE Len(payload) <= n
    BY <1>2, <2>1 DEF Remainder
  <2>2. CASE Len(payload) > n
    <3> DEFINE rest == SubSeq(payload, n + 1, Len(payload))
    <3>1. \A i \in n + 1 .. Len(payload) : payload[i] \in Nat
      BY <1>1, <1>3, <1>6
    <3>2. rest \in Seq(Nat) /\ Len(rest) = Len(payload) - (n + 1) + 1
      BY <1>1, <1>3, <2>2, <3>1, SubSeqProperties
    <3>3. rest # <<>>
      <4>1. Len(rest) > 0
        BY <1>1, <1>3, <2>2, <3>2
      <4> HIDE DEF rest
      <4> QED BY <4>1, EmptySeq
    <3>4. Remainder(payload, n) = <<rest>> \o Tail(queue)
      BY <1>1, <1>3, <2>2 DEF Remainder
    <3> HIDE DEF rest
    <3>5. <<rest>> \in Seq(Payload)
      BY <3>2, <3>3 DEF Payload
    <3> QED BY <1>2, <3>4, <3>5, ConcatProperties
  <2> QED BY <1>1, <1>3, <2>1, <2>2
<1> HIDE DEF chunk
<1>9. delivered' \in Seq(Nat)
  BY <1>4, <1>7, ConcatProperties DEF Types
<1> QED BY <1>4, <1>7, <1>8, <1>9 DEF Types

(* Registering and leaving.                                                *)
LEMMA RegisteringKeepsType ==
    ASSUME observers \in Seq(Observers), NEW o \in Observers,
           AddObserver(o) \/ RemoveObserver(o)
    PROVE  observers' \in Seq(Observers)
<1>1. CASE AddObserver(o)
  BY <1>1, AppendProperties DEF AddObserver
<1>2. CASE RemoveObserver(o)
  <2>1. RemoveFirst(observers, o) \in Seq(Observers)
    BY RemovingKeepsType
  <2> QED BY <1>2, <2>1 DEF RemoveObserver
<1> QED BY <1>1, <1>2

(* A responder's reply is queued like any other.                           *)
LEMMA ReplyKeepsType ==
    ASSUME Types, SendReturns
    PROVE  queue' \in Seq(Payload) /\ queued' \in Nat
<1>1. responder \in Nat /\ queue \in Seq(Payload) /\ queued \in Nat
  BY MockAssumption DEF Types
<1>2. CASE responder > 0
  <2>1. Fresh(responder) \in Payload
    BY <1>1, <1>2, FreshIsPayload
  <2>2. Append(queue, Fresh(responder)) \in Seq(Payload)
    BY <1>1, <2>1, AppendProperties
  <2>3. /\ queue' = Append(queue, Fresh(responder))
        /\ queued' = queued + responder
    BY <1>2 DEF SendReturns
  <2> QED BY <1>1, <2>2, <2>3
<1>3. CASE ~(responder > 0)
  BY <1>1, <1>3 DEF SendReturns
<1> QED BY <1>2, <1>3

(* The calls, and what ends them.                                          *)
LEMMA CallsKeepMockInv ==
    ASSUME MockInv, Next, ~Callback
    PROVE  MockInv'
<1> USE DEF MockInv, Types, Heard, Counted, stream, script, shown,
            tally, base
<1>0. /\ <<>> \in Seq(Observers) /\ Len(<<>>) = 0
      /\ Sizes \subseteq Nat \ {0}
      /\ Len(observers) \in Nat
  BY EmptySeq, MockAssumption, LenProperties
<1>1. CASE Connect \/ Disconnect
  BY <1>1 DEF Connect, Disconnect, Fail, SetState
<1>2. CASE Refused \/ ReceiveNothing
  BY <1>2 DEF Refused, ReceiveNothing
<1>3. ASSUME NEW o \in Observers, AddObserver(o) \/ RemoveObserver(o),
             ObserverSteps
      PROVE  MockInv'
  <2>1. observers' \in Seq(Observers)
    BY <1>3, RegisteringKeepsType
  <2> QED BY <1>3, <2>1 DEF AddObserver, RemoveObserver, ObserverSteps
<1>4. ASSUME NEW n \in Sizes, QueueResponse(n)
      PROVE  MockInv'
  <2>1. queue' \in Seq(Payload) /\ queued' \in Nat
    BY <1>0, <1>4, FreshIsPayload, AppendProperties DEF QueueResponse
  <2> QED BY <1>4, <2>1 DEF QueueResponse
<1>5. ASSUME NEW n \in Sizes, Send(n)
      PROVE  MockInv'
  <2>1. drop_after_sends # NoDrop => drop_after_sends \in Nat
    BY MockAssumption
  <2>2. Counted'
    BY <1>5, <2>1 DEF Send, Dropping
  <2>3. shown_tx' \in Nat
    BY <1>0, <1>5 DEF Send
  <2>4. Heard'
    BY <1>0, <1>5 DEF Send, BeginEmit
  <2> QED BY <1>0, <1>5, <2>2, <2>3, <2>4 DEF Send, BeginEmit
<1>6. ASSUME NEW n \in Sizes, Receive(n)
      PROVE  MockInv'
  <2>1. Heard'
    BY <1>0, <1>6 DEF Receive, BeginEmit
  <2> QED BY <1>0, <1>6, <2>1, ReadTakes DEF Receive, BeginEmit
<1>7. ASSUME NEW armed \in BOOLEAN, SetFailOnConnect(armed)
      PROVE  MockInv'
  BY <1>7 DEF SetFailOnConnect
<1>8. CASE SendDropped
  <2>1. drop_after_sends # NoDrop => drop_after_sends \in Nat
    BY MockAssumption
  <2> QED BY <1>8, <2>1 DEF SendDropped, Dropping, Fail
<1>9. CASE SendReturns
  <2>1. queue' \in Seq(Payload) /\ queued' \in Nat
    BY <1>9, ReplyKeepsType
  <2> QED BY <1>0, <1>9, <2>1 DEF SendReturns, EndEmit
<1>10. CASE ReceiveReturns
  BY <1>0, <1>10 DEF ReceiveReturns, EndEmit
<1>11. ObserverSteps =>
          \E o \in Observers : AddObserver(o) \/ RemoveObserver(o)
  BY DEF ObserverSteps
<1> QED
  BY <1>1, <1>2, <1>3, <1>4, <1>5, <1>6, <1>7, <1>8, <1>9, <1>10, <1>11
  DEF Next

LEMMA StepKeepsMockInv == MockInv /\ [Next]_vars => MockInv'
<1>1. MockInv /\ UNCHANGED vars => MockInv'
  BY DEF MockInv, Types, Heard, Counted, vars, base, stream, script,
         tally, shown
<1> QED BY <1>1, CallbackKeepsMockInv, CallsKeepMockInv

(* Types, observers and script agree in every reachable state.             *)
THEOREM MockInvariant == Spec => []MockInv
BY InitEstablishesMockInv, StepKeepsMockInv, PTL DEF Spec

-----------------------------------------------------------------------------
(* The stream.                                                             *)

Numbers(n) == [i \in 1 .. n |-> i]

InOrder == delivered \o FlattenSeq(queue) = Numbers(queued)

LEMMA Associative ==
    \A s, t, u \in Seq(Nat) : (s \o t) \o u = s \o (t \o u)
BY SMTT(40), ConcatAssociative

(* The queue as one stretch of bytes.                                      *)
LEMMA QueueTypes ==
    ASSUME Types
    PROVE  queue \in Seq(Seq(Nat)) /\ FlattenSeq(queue) \in Seq(Nat)
<1>1. queue \in Seq(Seq(Nat))
  BY SeqMonotonic DEF Types, Payload
<1> QED BY <1>1, FlattenKeepsType

(* A payload more.                                                         *)
LEMMA QueueingKeepsOrder ==
    ASSUME Types, InOrder, NEW n \in Nat, n > 0,
           queue' = Append(queue, Fresh(n)), queued' = queued + n,
           delivered' = delivered
    PROVE  InOrder'
<1>1. /\ Fresh(n) \in Seq(Nat) /\ Len(Fresh(n)) = n
      /\ \A i \in 1 .. n : Fresh(n)[i] = queued + i
      /\ queued \in Nat
  BY FreshIsPayload DEF Types, Payload, Fresh
<1>2. FlattenSeq(queue') = FlattenSeq(queue) \o Fresh(n)
  BY <1>1, QueueTypes, FlattenAppend
<1>3. delivered' \o FlattenSeq(queue') = Numbers(queued) \o Fresh(n)
  <2>1. delivered \in Seq(Nat) /\ FlattenSeq(queue) \in Seq(Nat)
    BY QueueTypes DEF Types
  <2>2. delivered \o (FlattenSeq(queue) \o Fresh(n))
          = (delivered \o FlattenSeq(queue)) \o Fresh(n)
    BY <1>1, <2>1, Associative
  <2> QED BY <1>2, <2>2 DEF InOrder
<1> DEFINE s == Numbers(queued)
           t == Numbers(queued + n)
<1>4. /\ s \in Seq(Nat) /\ Len(s) = queued
      /\ \A i \in 1 .. queued : s[i] = i
  BY <1>1 DEF Numbers
<1>5. /\ t \in Seq(Nat) /\ Len(t) = queued + n
      /\ \A i \in 1 .. queued + n : t[i] = i
  BY <1>1 DEF Numbers
<1> HIDE DEF s, t
<1>6. /\ s \o Fresh(n) \in Seq(Nat)
      /\ Len(s \o Fresh(n)) = Len(s) + Len(Fresh(n))
      /\ \A i \in 1 .. Len(s) + Len(Fresh(n)) :
            (s \o Fresh(n))[i] = IF i <= Len(s) THEN s[i]
                                                ELSE Fresh(n)[i - Len(s)]
  BY <1>1, <1>4, ConcatProperties
<1>7. \A i \in 1 .. queued + n : (s \o Fresh(n))[i] = t[i]
  <2> SUFFICES ASSUME NEW i \in 1 .. queued + n
               PROVE  (s \o Fresh(n))[i] = t[i]
    OBVIOUS
  <2>1. CASE i <= queued
    BY <1>1, <1>4, <1>5, <1>6, <2>1
  <2>2. CASE ~(i <= queued)
    <3>1. i - queued \in 1 .. n /\ queued + (i - queued) = i
      BY <1>1, <2>2
    <3> QED BY <1>1, <1>4, <1>5, <1>6, <2>2, <3>1
  <2> QED BY <2>1, <2>2
<1>8. s \o Fresh(n) = t
  BY <1>1, <1>4, <1>5, <1>6, <1>7, SeqEqual
<1> QED BY <1>3, <1>8 DEF InOrder, s, t

(* A read, whole or in part, moves bytes from the head of the queue.       *)
LEMMA ReadKeepsOrder ==
    ASSUME Types, InOrder, NEW n \in Sizes, Receive(n)
    PROVE  InOrder'
<1> DEFINE payload == Head(queue)
           k == IF Len(payload) > n THEN n ELSE Len(payload)
           chunk == SubSeq(payload, 1, k)
           tail == FlattenSeq(Tail(queue))
<1>1. n \in Nat /\ n > 0
  BY MockAssumption
<1>2. queue \in Seq(Seq(Nat)) /\ queue # <<>>
  BY QueueTypes DEF Receive
<1>3. /\ payload \in Seq(Nat) /\ Tail(queue) \in Seq(Seq(Nat))
      /\ queue = <<payload>> \o Tail(queue)
  <2>1. /\ payload \in Seq(Nat) /\ Tail(queue) \in Seq(Seq(Nat))
        /\ Len(Tail(queue)) = Len(queue) - 1
        /\ \A i \in 1 .. Len(Tail(queue)) : Tail(queue)[i] = queue[i + 1]
    BY <1>2, HeadTailProperties
  <2>2. 1 \in 1 .. Len(queue) /\ Len(queue) \in 1 .. Len(queue)
    BY <1>2, EmptySeq
  <2>3. SubSeq(queue, 1, Len(queue))
          = <<queue[1]>> \o SubSeq(queue, 1 + 1, Len(queue))
    BY <1>2, <2>2, SubSeqRecursiveFirst
  <2>4. SubSeq(queue, 1, Len(queue)) = queue
    BY <1>2, SubSeqFull
  <2>5. SubSeq(queue, 1 + 1, Len(queue)) = Tail(queue)
    BY <1>2, TailIsSubSeq
  <2>6. payload = queue[1]
    OBVIOUS
  <2> QED BY <2>1, <2>3, <2>4, <2>5, <2>6
<1>4. tail \in Seq(Nat) /\ FlattenSeq(queue) = payload \o tail
  BY <1>3, FlattenPrepend, FlattenKeepsType
<1>5. queue' = Remainder(payload, n) /\ delivered' = delivered \o chunk
      /\ queued' = queued
  BY DEF Receive
<1> HIDE DEF payload
<1>6. Len(payload) \in Nat
  BY <1>3, LenProperties
<1>7. PICK rest \in Seq(Nat) :
         /\ chunk \in Seq(Nat) /\ chunk \o rest = payload
         /\ FlattenSeq(Remainder(payload, n)) = rest \o tail
  <2>1. CASE Len(payload) <= n
    <3>1. chunk = payload
      BY <1>1, <1>3, <1>6, <2>1, SubSeqFull
    <3>2. Remainder(payload, n) = Tail(queue)
      BY <2>1 DEF Remainder
    <3>3. <<>> \in Seq(Nat) /\ payload \o <<>> = payload /\ <<>> \o tail = tail
      BY <1>3, <1>4, EmptySeq, ConcatEmptySeq
    <3> QED BY <1>3, <3>1, <3>2, <3>3
  <2>2. CASE Len(payload) > n
    <3> DEFINE rest == SubSeq(payload, n + 1, Len(payload))
    <3>1. chunk = SubSeq(payload, 1, n)
      BY <2>2
    <3>2. chunk \o rest = payload
      <4>1. /\ 1 \in 1 .. Len(payload) + 1 /\ n \in 1 - 1 .. Len(payload)
            /\ Len(payload) \in n .. Len(payload)
        BY <1>1, <1>6, <2>2
      <4>2. SubSeq(payload, 1, n) \o rest = SubSeq(payload, 1, Len(payload))
        BY <1>3, <4>1, ConcatAdjacentSubSeq
      <4>3. SubSeq(payload, 1, Len(payload)) = payload
        BY <1>3, SubSeqFull
      <4> QED BY <3>1, <4>2, <4>3
    <3>3. Remainder(payload, n) = <<rest>> \o Tail(queue)
      BY <1>1, <1>6, <2>2 DEF Remainder
    <3>4. rest \in Seq(Nat) /\ chunk \in Seq(Nat)
      <4>1. \A i \in 1 .. Len(payload) : payload[i] \in Nat
        BY <1>3, ElementOfSeq
      <4>2. /\ \A i \in n + 1 .. Len(payload) : payload[i] \in Nat
            /\ \A i \in 1 .. n : payload[i] \in Nat
            /\ n + 1 \in Int /\ Len(payload) \in Int /\ n \in Int
        BY <1>1, <1>6, <2>2, <4>1
      <4>3. SubSeq(payload, 1, n) \in Seq(Nat)
        BY <4>2, SubSeqProperties
      <4>4. rest \in Seq(Nat)
        BY <4>2, SubSeqProperties
      <4> QED BY <3>1, <4>3, <4>4
    <3> HIDE DEF rest, chunk
    <3>5. FlattenSeq(<<rest>> \o Tail(queue)) = rest \o tail
      BY <1>3, <3>4, FlattenPrepend
    <3> QED BY <3>2, <3>3, <3>4, <3>5
  <2>3. Len(payload) <= n \/ Len(payload) > n
    BY <1>1, <1>6
  <2> QED BY <2>1, <2>2, <2>3
<1> HIDE DEF chunk, tail
<1>8. delivered \in Seq(Nat)
  BY DEF Types
<1>9. (delivered \o chunk) \o (rest \o tail)
        = delivered \o (payload \o tail)
  <2>1. (delivered \o chunk) \o (rest \o tail)
          = delivered \o (chunk \o (rest \o tail))
    <3>1. rest \o tail \in Seq(Nat)
      BY <1>4, ConcatProperties
    <3> QED BY <1>7, <1>8, <3>1, Associative
  <2>2. chunk \o (rest \o tail) = (chunk \o rest) \o tail
    BY <1>4, <1>7, Associative
  <2> QED BY <1>7, <2>1, <2>2
<1> QED BY <1>4, <1>5, <1>7, <1>9 DEF InOrder

LEMMA StepKeepsOrder ==
    ASSUME MockInv, InOrder, [Next]_vars
    PROVE  InOrder'
<1>1. Types
  BY DEF MockInv
<1>2. ASSUME NEW n \in Sizes, QueueResponse(n)
      PROVE  InOrder'
  BY <1>1, <1>2, MockAssumption, QueueingKeepsOrder DEF QueueResponse
<1>3. ASSUME NEW n \in Sizes, Receive(n)
      PROVE  InOrder'
  BY <1>1, <1>3, ReadKeepsOrder
<1>4. CASE SendReturns
  <2>1. CASE responder > 0
    <3>1. responder \in Nat
      BY <1>1, MockAssumption DEF Types
    <3> QED BY <1>1, <1>4, <2>1, <3>1, QueueingKeepsOrder DEF SendReturns
  <2>2. CASE ~(responder > 0)
    BY <1>4, <2>2 DEF SendReturns, InOrder
  <2> QED BY <2>1, <2>2
<1>5. ASSUME NEW n \in Sizes, Send(n)
      PROVE  UNCHANGED stream
  BY <1>5 DEF Send
<1>6. CASE UNCHANGED stream
  BY <1>6 DEF stream, InOrder
<1>7. CASE \/ Connect \/ Disconnect \/ Refused \/ ObserverSteps
           \/ \E armed \in BOOLEAN : SetFailOnConnect(armed)
           \/ SendDropped \/ Callback \/ ReceiveNothing \/ ReceiveReturns
           \/ UNCHANGED vars
  <2>1. UNCHANGED stream
    BY <1>7 DEF Connect, Disconnect, Refused, ObserverSteps, SendDropped,
       SetFailOnConnect, Callback, ReceiveNothing, ReceiveReturns, vars
  <2> QED BY <1>6, <2>1
<1> QED BY <1>2, <1>3, <1>4, <1>5, <1>6, <1>7 DEF Next

(* However reads split the responses, all bytes come out once and in the   *)
(* order they were queued; no read sees the end of a link that is open.    *)
THEOREM StreamStaysInOrder == Spec => []StreamInOrder
<1>1. Init => InOrder
  <2> SUFFICES ASSUME Init PROVE InOrder
    OBVIOUS
  <2>1. <<>> \o <<>> = <<>> /\ Numbers(0) = <<>>
    BY EmptySeq, ConcatEmptySeq DEF Numbers
  <2> QED BY <2>1, FlattenEmpty DEF Init, InOrder
<1>2. MockInv /\ InOrder /\ [Next]_vars => InOrder'
  BY StepKeepsOrder
<1>3. MockInv /\ InOrder => StreamInOrder
  <2> SUFFICES ASSUME MockInv, InOrder PROVE StreamInOrder
    OBVIOUS
  <2>1. /\ DOMAIN queue = 1 .. Len(queue)
        /\ \A i \in 1 .. Len(queue) : queue[i] \in Payload
    BY LenProperties, ElementOfSeq DEF MockInv, Types
  <2> QED BY <2>1 DEF InOrder, Numbers, StreamInOrder, Payload
<1> QED BY <1>1, <1>2, <1>3, MockInvariant, PTL DEF Spec

-----------------------------------------------------------------------------
(* However often a script lets the peer come back, a send is lost when     *)
(* exactly drop_after_sends returned to their callers, and none is taken   *)
(* beyond them.                                                            *)
THEOREM PeerIsGone == Spec => []PeerDisappears
<1>1. MockInv => PeerDisappears
  <2> SUFFICES ASSUME MockInv PROVE PeerDisappears
    OBVIOUS
  <2>1. drop_after_sends # NoDrop => drop_after_sends \in Nat
    BY MockAssumption DEF MockInv, Types
  <2> QED BY <2>1 DEF MockInv, Types, Counted, PeerDisappears
<1> QED BY <1>1, MockInvariant, PTL

(* A callback that raises, leaves or brings in another takes no packet     *)
(* from the others: _emit walks a copy.                                    *)
THEOREM ObserversAreHeard == Spec => []EveryObserverHears
<1>1. MockInv => EveryObserverHears
  <2> SUFFICES ASSUME MockInv, pc # "idle", Emitted
               PROVE  called = snapshot
    BY DEF EveryObserverHears
  <2>1. /\ called \in Seq(Observers) /\ snapshot \in Seq(Observers)
        /\ Len(called) \in Nat /\ Len(snapshot) \in Nat
    BY LenProperties DEF MockInv, Types
  <2>2. Len(called) = Len(snapshot)
    BY <2>1 DEF MockInv, Heard, Emitted, Walked
  <2> QED BY <2>1, <2>2, SeqEqual DEF MockInv, Heard
<1> QED BY <1>1, MockInvariant, PTL

(* Every step of the mock is one the contract of the base class allows.    *)
LEMMA MockStepKeepsContract ==
    ASSUME MockInv, [Next]_vars
    PROVE  [Contract!Next]_(Contract!contract)
<1> USE DEF Contract!contract, Contract!Quiet, shown, base, stream
<1>0. Sizes \subseteq Nat \ {0} /\ shown_tx \in Nat
  BY MockAssumption DEF MockInv, Types
<1>1. CASE Connect
  <2>1. Contract!Opened \/ Contract!OpenFailed
    BY <1>1 DEF Connect, Fail, SetState, Contract!Opened,
       Contract!OpenFailed, Contract!OpenErrors
  <2> QED BY <2>1 DEF Contract!Next
<1>2. CASE Disconnect
  <2>1. Contract!Closed
    BY <1>2 DEF Disconnect, SetState, Contract!Closed
  <2> QED BY <2>1 DEF Contract!Next
<1>3. CASE Refused
  BY <1>3 DEF Refused, Contract!Refused, Contract!Next
<1>4. CASE ObserverSteps
  BY <1>4 DEF ObserverSteps, AddObserver, RemoveObserver
<1>5. ASSUME NEW n \in Sizes, QueueResponse(n)
      PROVE  UNCHANGED Contract!contract
  BY <1>5 DEF QueueResponse
<1>6. ASSUME NEW n \in Sizes, Send(n)
      PROVE  Contract!Transmitted
  BY <1>0, <1>6 DEF Send, Contract!Transmitted
<1>7. ASSUME NEW n \in Sizes, Receive(n)
      PROVE  Contract!Delivered
  BY <1>7, ReadTakes DEF Receive, Contract!Delivered, MockInv
<1>8. ASSUME NEW armed \in BOOLEAN, SetFailOnConnect(armed)
      PROVE  UNCHANGED Contract!contract
  BY <1>8 DEF SetFailOnConnect
<1>9. CASE SendDropped
  BY <1>9 DEF SendDropped, Fail, Contract!Lost, Contract!Next
<1>10. CASE Callback
  BY <1>10 DEF Callback, Notify
<1>11. CASE SendReturns \/ ReceiveReturns
  BY <1>11 DEF SendReturns, ReceiveReturns, EndEmit, Contract!Trivial,
     Contract!Next
<1>12. CASE ReceiveNothing
  BY <1>12 DEF ReceiveNothing, Contract!TimedOut, Contract!Next
<1>13. CASE UNCHANGED vars
  BY <1>13 DEF vars
<1> QED
  BY <1>1, <1>2, <1>3, <1>4, <1>5, <1>6, <1>7, <1>8, <1>9, <1>10, <1>11,
     <1>12, <1>13
  DEF Next, Contract!Next

(* What a test finds true of the mock's lifecycle is what the base class   *)
(* promises of every transport.                                            *)
THEOREM MockImplementsContract == Spec => ImplementsContract
<1>1. Init => Contract!Init
  BY DEF Init, TransportInit, Contract!Init
<1>2. MockInv /\ [Next]_vars => [Contract!Next]_(Contract!contract)
  BY MockStepKeepsContract
<1> QED
  BY <1>1, <1>2, MockInvariant, PTL
  DEF Spec, ImplementsContract, Contract!Spec
=============================================================================
