----------------------------- MODULE EnetProofs -----------------------------
(***************************************************************************)
(* Theorems of EnetTransport, for every set of configurations, sizes and   *)
(* timeouts.  IInv is inductive; the safety invariants the runs check are  *)
(* its conjuncts.                                                          *)
(***************************************************************************)
EXTENDS EnetTransport, TLAPS

(* The initial states satisfy the inductive invariant. *)
LEMMA InitEstablishesIInv == Init => IInv
  BY ConfigsAssumption
  DEF Init, IInv, TypeOK, PhaseOK, SocketMatchesState, TimeoutRestored,
      WholeReadDeadline, ErrorExplained, NoCall, Frames, ConnectionState,
      SocketStates, Calls, Results, Blocking, Snapshots, NicStates,
      PeerStates

(* A configuration's fields have their types. *)
LEMMA ConfigType == config \in Configs => config \in ENETConfig
  BY ConfigsAssumption

(* Entering connect() either turns the call down or starts an attempt. *)
LEMMA EnterConnectCases ==
    ASSUME NEW kind, NEW n, NEW from, EnterConnect(kind, n, from)
    PROVE  /\ UNCHANGED <<config, nic, peer, last_error, iface, bytes_sent,
                          bytes_received>>
           /\ wait' = 0
           /\ \/ /\ pc' = "idle" /\ op' = NoCall /\ state' = from
                 /\ result' = "UnverifiedParameterError"
              \/ /\ pc' = "resolve" /\ state' = "connecting"
                 /\ op' = [kind |-> kind, attempt |-> n, size |-> 0, got |-> 0,
                           previous |-> 0, left |-> 0]
                 /\ result' = "pending"
  BY DEF EnterConnect, NoCall, Return, Block, given, counters

(* The opening steps - everything between connect() and its outcome - keep *)
(* the invariant.                                                          *)
LEMMA OpeningKeepsIInv ==
    ASSUME IInv,
           \/ Connect \/ ConnectAgain \/ Reconnect \/ Disconnect
           \/ OpeningSteps
    PROVE  IInv'
<1> USE DEF IInv, TypeOK, PhaseOK, SocketMatchesState, TimeoutRestored,
        WholeReadDeadline, ErrorExplained, NoCall, Frames, ConnectionState,
        SocketStates, Calls, Results, Blocking, Snapshots, NicStates,
        PeerStates, Return, Block, rest, given, connection, counters
<1>0. config \in ENETConfig
  BY ConfigType
<1>1. CASE Connect
  <2>1. /\ state \in ConnectionState /\ UNCHANGED connection
        /\ EnterConnect("connect", 1, state)
    BY <1>1 DEF Connect
  <2>2. pc = "idle" /\ wait' = 0
    BY <1>1, <2>1, EnterConnectCases DEF Connect
  <2>3. CASE pc' = "idle"
    BY <2>1, <2>2, <2>3, EnterConnectCases, SMT
  <2>4. CASE pc' = "resolve"
    BY <2>1, <2>2, <2>4, EnterConnectCases, SMT
  <2> QED BY <2>1, <2>3, <2>4, EnterConnectCases
<1>2. CASE ConnectAgain
  BY <1>2 DEF ConnectAgain
<1>3. CASE Reconnect
  <2>1. CloseSocket /\ EnterConnect("reconnect", 1, "disconnected")
    BY <1>3 DEF Reconnect
  <2> QED BY <2>1, EnterConnectCases, SMT DEF CloseSocket
<1>4. CASE Disconnect
  BY <1>4 DEF Disconnect, CloseSocket
<1>5. CASE ResolveInterface
  BY <1>5 DEF ResolveInterface
<1>6. CASE ResolveFails
  BY <1>6 DEF ResolveFails, Fail
<1>7. CASE BindFails \/ LookupFails \/ HandshakeFails
  BY <1>0, <1>7 DEF BindFails, LookupFails, HandshakeFails, SocketReady,
     AttemptFails, RetryOrRaise, TimeoutErrors, Fail, ENETConfig
<1>8. CASE \/ SocketFails \/ ConnectTimeoutRefused \/ GatewayRefused
           \/ AcceptedBadTimeout
  BY <1>8 DEF SocketFails, ConnectTimeoutRefused, GatewayRefused,
     SocketReady, AcceptedBadTimeout, TimeoutErrors
<1>9. CASE Dial
  BY <1>0, <1>9 DEF Dial, SocketReady, ENETConfig
<1>10. CASE Accepted
  BY <1>0, <1>10 DEF Accepted, SetState, Usable, ENETConfig
<1>11. CASE Retry
  <2>1. /\ op.attempt + 1 \in Nat /\ op.kind = "reconnect"
        /\ UNCHANGED connection
        /\ EnterConnect("reconnect", op.attempt + 1, "disconnected")
    BY <1>11 DEF Retry
  <2> QED BY <2>1, EnterConnectCases, SMT
<1> QED
  BY <1>1, <1>2, <1>3, <1>4, <1>5, <1>6, <1>7, <1>8, <1>9, <1>10, <1>11
  DEF OpeningSteps

(* The transfer steps, and the calls that start them, keep it.             *)
LEMMA TransferKeepsIInv ==
    ASSUME IInv,
           \/ Refused \/ ReceiveNothing \/ TransferSteps
           \/ \E n \in Sizes : Send(n)
           \/ \E n \in Sizes, t \in DefaultOr(Timeouts) :
                Receive(n, t) \/ ReceiveExactly(n, t)
    PROVE  IInv'
<1> USE DEF IInv, TypeOK, PhaseOK, SocketMatchesState, TimeoutRestored,
        WholeReadDeadline, ErrorExplained, NoCall, Frames, ConnectionState,
        SocketStates, Calls, Results, Blocking, Snapshots, NicStates,
        PeerStates, Return, Block, rest, given, connection, counters
<1>0. config \in ENETConfig
  BY ConfigType
<1>1. CASE Refused \/ ReceiveNothing
  BY <1>1 DEF Refused, ReceiveNothing
<1>2. ASSUME NEW n \in Sizes, Send(n)
      PROVE  IInv'
  <2>1. n \in Nat
    BY BoundsAssumption
  <2>2. op' \in Frames /\ op'.kind = "send" /\ op'.got = 0 /\ op'.size = n
    <3>1. op' = [kind |-> "send", attempt |-> 0, size |-> n, got |-> 0,
                 previous |-> 0, left |-> 0]
      BY <1>2 DEF Send
    <3> QED BY <2>1, <3>1
  <2>3. /\ state = "connected" /\ pc' = "send" /\ result' = "pending"
        /\ wait' = timeout /\ UNCHANGED rest
    BY <1>2 DEF Send
  <2>4. TypeOK'
    BY <2>2, <2>3
  <2>5. PhaseOK'
    BY <2>1, <2>2, <2>3
  <2>6. /\ SocketMatchesState' /\ TimeoutRestored' /\ WholeReadDeadline'
        /\ ErrorExplained'
    BY <1>2, <2>2, <2>3 DEF Send
  <2> QED BY <2>4, <2>5, <2>6
<1>3. ASSUME NEW n \in Sizes, NEW t \in DefaultOr(Timeouts),
             Receive(n, t) \/ ReceiveExactly(n, t)
      PROVE  IInv'
  <2>1. n \in Nat /\ t \in Int
    BY <1>0, BoundsAssumption DEF DefaultOr, ENETConfig
  <2>2. CASE Receive(n, t)
    <3>1. /\ op' \in Frames /\ op'.kind = "receive" /\ op'.got = 0
          /\ op'.previous = timeout
      BY <2>1, <2>2 DEF Receive, EnterRecv
    <3>2. /\ pc = "idle" /\ state = "connected" /\ pc' = "recv"
          /\ result' = "pending" /\ wait' = t /\ timeout' = t
          /\ UNCHANGED <<given, state, last_error, socket, inbox, unseen,
                         iface, counters>>
      BY <2>2 DEF Receive, EnterRecv
    <3> QED BY <2>1, <3>1, <3>2
  <2>3. CASE ReceiveExactly(n, t)
    <3>1. /\ op' \in Frames /\ op'.kind = "receive_exactly" /\ op'.got = 0
          /\ op'.size = n
      BY <2>1, <2>3 DEF ReceiveExactly
    <3>2. /\ pc = "idle" /\ n > 0 /\ pc' = "loop"
          /\ result' = "pending" /\ wait' = 0 /\ UNCHANGED rest
      BY <2>3 DEF ReceiveExactly
    <3> QED BY <2>1, <3>1, <3>2
  <2> QED BY <1>3, <2>2, <2>3
<1>4. CASE SendDone
  BY <1>4 DEF SendDone, Emit
<1>5. CASE SendTimesOut
  BY <1>5 DEF SendTimesOut, Fail
<1>6. CASE SendBreaks \/ RecvBreaks \/ RecvEmpty
  BY <1>6 DEF SendBreaks, RecvBreaks, RecvEmpty, LoseConnection, Fail,
     CloseSocket
<1>7. CASE RecvData
  <2>1. /\ Chunk \in Nat /\ Chunk <= inbox /\ Chunk <= Want
        /\ op.got + Chunk \in Nat /\ op.got + Chunk <= op.size
    BY <1>7 DEF RecvData, Chunk, Want
  <2>2. inbox' \in Nat /\ bytes_received' \in Nat
    BY <1>7, <2>1 DEF RecvData
  <2>3. CASE pc' = "idle"
    BY <1>7, <2>2, <2>3 DEF RecvData, ReadOn, Emit
  <2>4. CASE pc' = "loop"
    <3>1. /\ op' \in Frames /\ op'.kind = "receive_exactly"
          /\ op'.got < op'.size
      <4>1. /\ op.kind = "receive_exactly" /\ op.got + Chunk < op.size
            /\ op' = [op EXCEPT !.got = op.got + Chunk]
        BY <1>7, <2>4 DEF RecvData, ReadOn
      <4> QED BY <2>1, <4>1
    <3>2. /\ wait' = 0 /\ result' = "pending" /\ timeout' = op.previous
          /\ last_error' \in {last_error, "observer"} /\ pc = "recv"
          /\ UNCHANGED <<given, state, socket, unseen, iface, bytes_sent>>
      BY <1>7, <2>4 DEF RecvData, ReadOn, Emit
    <3>3. TypeOK' /\ SocketMatchesState' /\ TimeoutRestored'
      BY <2>2, <2>4, <3>1, <3>2
    <3>4. PhaseOK'
      BY <2>4, <3>1, <3>2
    <3>5. WholeReadDeadline' /\ ErrorExplained'
      BY <2>4, <3>2
    <3> QED BY <3>3, <3>4, <3>5
  <2> QED BY <1>7, <2>3, <2>4 DEF RecvData, ReadOn
<1>8. CASE RecvTimesOut
  BY <1>8 DEF RecvTimesOut
<1>9. CASE LoopExpires \/ LoopRefused
  BY <1>9 DEF LoopExpires, LoopRefused
<1>10. CASE LoopReceives
  BY <1>10 DEF LoopReceives, EnterRecv
<1> QED
  BY <1>1, <1>2, <1>3, <1>4, <1>5, <1>6, <1>7, <1>8, <1>9, <1>10
  DEF TransferSteps

(* What the world does - time, Ctrl-C, kernel, peer, host - keeps it.      *)
LEMMA WorldKeepsIInv ==
    ASSUME IInv, WorldSteps
    PROVE  IInv'
<1> USE DEF IInv, TypeOK, PhaseOK, SocketMatchesState, TimeoutRestored,
        WholeReadDeadline, ErrorExplained, NoCall, Frames, ConnectionState,
        SocketStates, Calls, Results, Blocking, Snapshots, NicStates,
        PeerStates, Return, Block, rest, given, connection, counters, frame
<1>1. CASE Tick
  <2>1. op' \in Frames
        /\ op'.kind = op.kind /\ op'.got = op.got /\ op'.size = op.size
        /\ op'.previous = op.previous
        /\ op.kind = "receive_exactly" => op'.left = op.left - 1
    BY <1>1 DEF Tick
  <2> QED BY <1>1, <2>1 DEF Tick
<1>2. CASE Interrupt
  BY <1>2 DEF Interrupt
<1>3. CASE KernelAccepts
  BY <1>3 DEF KernelAccepts
<1>4. CASE PeerSends \/ ConnectionEnds
  BY <1>4 DEF PeerSends, ConnectionEnds
<1>5. CASE HostChanges
  BY <1>5 DEF HostChanges
<1> QED
  BY <1>1, <1>2, <1>3, <1>4, <1>5 DEF WorldSteps

(* The invariant is inductive and holds throughout every behaviour.        *)
THEOREM InductiveInvariant == Spec => []IInv
<1>1. IInv /\ [Next]_vars => IInv'
  <2> SUFFICES ASSUME IInv, [Next]_vars PROVE IInv'
    OBVIOUS
  <2>1. CASE Next
    BY <2>1, OpeningKeepsIInv, TransferKeepsIInv, WorldKeepsIInv
    DEF Next, CallerSteps
  <2>2. CASE UNCHANGED vars
    BY <2>2
    DEF IInv, TypeOK, PhaseOK, SocketMatchesState, TimeoutRestored,
        WholeReadDeadline, ErrorExplained, vars, frame, rest, given,
        connection, counters
  <2> QED BY <2>1, <2>2
<1> QED
  BY <1>1, InitEstablishesIInv, PTL DEF Spec

(* The variables keep their types, for all constants.                      *)
THEOREM TypeCorrect == Spec => []TypeOK
<1>1. IInv => TypeOK
  BY DEF IInv
<1> QED BY <1>1, InductiveInvariant, PTL

(* send() and receive() can rely on a held socket when CONNECTED, and a    *)
(* transport that is DISCONNECTED has left none open.                      *)
THEOREM ConnectedMeansSocket == Spec => []SocketMatchesState
<1>1. IInv => SocketMatchesState
  BY DEF IInv
<1> QED BY <1>1, InductiveInvariant, PTL

(* No way out of a read - data, timeout, loss, Ctrl-C - leaves the socket  *)
(* with the timeout of that read.                                          *)
THEOREM TimeoutAlwaysRestored == Spec => []TimeoutRestored
<1>1. IInv => TimeoutRestored
  BY DEF IInv
<1> QED BY <1>1, InductiveInvariant, PTL

(* The deadline of receive_exactly() bounds the whole read, whatever the   *)
(* chunking and the pauses between chunks.                                 *)
THEOREM DeadlineCoversWholeRead == Spec => []WholeReadDeadline
<1>1. IInv => WholeReadDeadline
  BY DEF IInv
<1> QED BY <1>1, InductiveInvariant, PTL

(* Every step is one the contract of the base class allows, or leaves      *)
(* unchanged what the contract speaks of.                                  *)
LEMMA StepKeepsContract ==
    ASSUME IInv, Next
    PROVE  [Contract!Next]_(Contract!contract)
<1> USE DEF IInv, PhaseOK, Return, Block, rest, frame, given, connection,
        counters, Contract!contract, Contract!Quiet
<1>1. CASE Connect \/ Reconnect \/ Retry
  <2>1. /\ UNCHANGED <<bytes_sent, bytes_received>>
        /\ \/ /\ state' \in {state, "disconnected"}
              /\ result' = "UnverifiedParameterError"
           \/ state' = "connecting" /\ result' = "pending"
    BY <1>1, EnterConnectCases DEF Connect, Reconnect, Retry
  <2>2. Contract!Escaped \/ Contract!Opening
    BY <2>1 DEF Contract!Escaped, Contract!Opening, Contract!Escapes
  <2> QED BY <2>2 DEF Contract!Next
<1>2. CASE ConnectAgain \/ ReceiveNothing
  <2>1. Contract!Trivial
    BY <1>2 DEF ConnectAgain, ReceiveNothing, Contract!Trivial
  <2> QED BY <2>1 DEF Contract!Next
<1>3. CASE Disconnect
  <2>1. Contract!Closed
    BY <1>3 DEF Disconnect, CloseSocket, Contract!Closed
  <2> QED BY <2>1 DEF Contract!Next
<1>4. CASE Refused \/ LoopRefused
  <2>1. Contract!Refused
    BY <1>4 DEF Refused, LoopRefused, Contract!Refused
  <2> QED BY <2>1 DEF Contract!Next
<1>5. CASE \/ ResolveInterface \/ Dial \/ LoopReceives
           \/ \E n \in Sizes : Send(n)
           \/ \E n \in Sizes, t \in DefaultOr(Timeouts) :
                 Receive(n, t) \/ ReceiveExactly(n, t)
  <2>1. Contract!Begin
    BY <1>5 DEF ResolveInterface, Dial, LoopReceives, Send, Receive,
       ReceiveExactly, EnterRecv, Contract!Begin
  <2> QED BY <2>1 DEF Contract!Next
<1>6. CASE ResolveFails \/ BindFails \/ LookupFails \/ HandshakeFails
  <2>1. Contract!OpenFailed
    BY <1>6 DEF ResolveFails, BindFails, LookupFails, HandshakeFails,
       AttemptFails, RetryOrRaise, TimeoutErrors, Fail, Contract!OpenFailed,
       Contract!OpenErrors
  <2> QED BY <2>1 DEF Contract!Next
<1>7. CASE \/ SocketFails \/ ConnectTimeoutRefused \/ GatewayRefused
           \/ AcceptedBadTimeout \/ Interrupt
  <2>1. Contract!Escaped
    BY <1>7 DEF SocketFails, ConnectTimeoutRefused, GatewayRefused,
       AcceptedBadTimeout, TimeoutErrors, Interrupt,
       Contract!Escaped, Contract!Escapes
  <2> QED BY <2>1 DEF Contract!Next
<1>8. CASE Accepted
  <2>1. Contract!Opened
    BY <1>8 DEF Accepted, SetState, Contract!Opened
  <2> QED BY <2>1 DEF Contract!Next
<1>9. CASE SendDone
  <2>1. Contract!Transmitted
    BY <1>9 DEF SendDone, Contract!Transmitted, TypeOK, Frames
  <2> QED BY <2>1 DEF Contract!Next
<1>10. CASE SendTimesOut
  <2>1. Contract!Stalled
    BY <1>10 DEF SendTimesOut, Fail, Contract!Stalled
  <2> QED BY <2>1 DEF Contract!Next
<1>11. CASE SendBreaks \/ RecvBreaks \/ RecvEmpty
  <2>1. Contract!Lost
    BY <1>11 DEF SendBreaks, RecvBreaks, RecvEmpty, LoseConnection, Fail,
       CloseSocket, Contract!Lost
  <2> QED BY <2>1 DEF Contract!Next
<1>12. CASE RecvData
  <2>1. bytes_received' > bytes_received
    BY <1>12 DEF RecvData, Chunk, Want, TypeOK, Frames
  <2>2. Contract!Delivered
    BY <1>12, <2>1 DEF RecvData, ReadOn, Contract!Delivered
  <2> QED BY <2>2 DEF Contract!Next
<1>13. CASE RecvTimesOut \/ LoopExpires
  <2>1. Contract!TimedOut
    BY <1>13 DEF RecvTimesOut, LoopExpires, Contract!TimedOut
  <2> QED BY <2>1 DEF Contract!Next
<1>14. CASE \/ Tick \/ KernelAccepts \/ PeerSends \/ ConnectionEnds
            \/ HostChanges
  BY <1>14 DEF Tick, KernelAccepts, PeerSends, ConnectionEnds, HostChanges
<1> QED
  BY <1>1, <1>2, <1>3, <1>4, <1>5, <1>6, <1>7, <1>8, <1>9, <1>10, <1>11,
     <1>12, <1>13, <1>14
  DEF Next, CallerSteps, OpeningSteps, TransferSteps, WorldSteps

(* ENETTransport keeps the contract of Transport: traffic moves only while *)
(* CONNECTED, a loss or a failed connect leaves ERROR, a read that times   *)
(* out leaves the link as it was.                                          *)
THEOREM EnetImplementsContract == Spec => ImplementsContract
<1>1. Init => Contract!Init
  BY DEF Init, Contract!Init
<1>2. IInv /\ [Next]_vars => [Contract!Next]_(Contract!contract)
  <2> SUFFICES ASSUME IInv, [Next]_vars
               PROVE  [Contract!Next]_(Contract!contract)
    OBVIOUS
  <2>1. CASE Next
    BY <2>1, StepKeepsContract
  <2>2. CASE UNCHANGED vars
    BY <2>2 DEF vars, frame, rest, counters, Contract!contract
  <2> QED BY <2>1, <2>2
<1> QED
  BY <1>1, <1>2, InductiveInvariant, PTL
  DEF Spec, ImplementsContract, Contract!Spec

(* Which actions can be the next one while a call is in progress.          *)
LEMMA OpeningOnly ==
    ASSUME IInv, Next, op.kind \in {"connect", "reconnect"}
    PROVE  /\ pc # "idle" /\ result = "pending"
           /\ OpeningSteps \/ WorldSteps
<1> USE DEF IInv, PhaseOK, NoCall
<1>1. pc \in {"resolve", "dial", "handshake", "sleep"}
  BY DEF TypeOK, Blocking
<1>2. ~CallerSteps
  BY <1>1 DEF CallerSteps, Connect, ConnectAgain, Reconnect, Disconnect,
     Refused, Send, Receive, ReceiveExactly, ReceiveNothing
<1>3. ~TransferSteps
  BY <1>1 DEF TransferSteps, SendDone, SendTimesOut, SendBreaks, RecvData,
     RecvTimesOut, RecvBreaks, RecvEmpty, LoopExpires, LoopRefused,
     LoopReceives
<1> QED BY <1>1, <1>2, <1>3 DEF Next

(* An attempt is never one too many; before another one there is one left. *)
AttemptsCounted ==
    op.kind = "reconnect" =>
      op.attempt <= Attempts /\ (pc = "sleep" => op.attempt < Attempts)

LEMMA AttemptsStayCounted ==
    ASSUME IInv, AttemptsCounted, [Next]_vars
    PROVE  AttemptsCounted'
<1> USE DEF AttemptsCounted
<1>1. /\ config.reconnect_attempts \in Int /\ Attempts \in Int
      /\ Attempts >= 1 /\ op.attempt \in Nat
  BY ConfigType DEF IInv, TypeOK, Frames, ENETConfig, Attempts
<1>2. config' = config => Attempts' = Attempts
  BY DEF Attempts
<1>3. CASE UNCHANGED vars
  BY <1>2, <1>3 DEF vars, frame, rest, given
<1>4. ASSUME Next, op.kind \notin {"connect", "reconnect"},
             op'.kind = "reconnect"
      PROVE  op'.attempt = 1 /\ pc' # "sleep" /\ config' = config
  <2> USE DEF Return, Block, NoCall
  <2>1. CASE CallerSteps
    <3>1. CASE Connect \/ Reconnect
      BY <1>4, <3>1, EnterConnectCases DEF Connect, Reconnect
    <3>2. CASE ConnectAgain \/ Disconnect \/ Refused \/ ReceiveNothing
      BY <1>4, <3>2 DEF ConnectAgain, Disconnect, Refused, ReceiveNothing
    <3>3. ASSUME NEW n \in Sizes, Send(n)
          PROVE  op'.kind = "send"
      BY <3>3 DEF Send
    <3>4. ASSUME NEW n \in Sizes, NEW t \in DefaultOr(Timeouts),
                 Receive(n, t) \/ ReceiveExactly(n, t)
          PROVE  op'.kind \in {"receive", "receive_exactly"}
      BY <3>4 DEF Receive, ReceiveExactly, EnterRecv
    <3> QED BY <1>4, <2>1, <3>1, <3>2, <3>3, <3>4 DEF CallerSteps
  <2>2. CASE OpeningSteps
    BY <1>4, <2>2 DEF OpeningSteps, ResolveInterface, ResolveFails, BindFails,
       SocketFails, ConnectTimeoutRefused, GatewayRefused, SocketReady,
       LookupFails, Dial, HandshakeFails, Accepted, AcceptedBadTimeout, Retry,
       AttemptFails, RetryOrRaise, TimeoutErrors, IInv, PhaseOK
  <2>3. CASE TransferSteps
    <3>1. CASE RecvData \/ LoopReceives
      <4>1. op'.kind \in {op.kind, "none"}
        BY <3>1 DEF RecvData, ReadOn, LoopReceives, EnterRecv, IInv, TypeOK,
           Frames
      <4> QED BY <1>4, <4>1
    <3> QED
      BY <1>4, <2>3, <3>1 DEF TransferSteps, SendDone, SendTimesOut,
         SendBreaks, RecvTimesOut, RecvBreaks, RecvEmpty, LoseConnection,
         LoopExpires, LoopRefused
  <2>4. CASE WorldSteps
    <3>1. op'.kind \in {op.kind, "none"}
      BY <2>4 DEF WorldSteps, Tick, Interrupt, KernelAccepts, PeerSends,
         ConnectionEnds, HostChanges, frame, IInv, TypeOK, Frames
    <3> QED BY <1>4, <3>1
  <2> QED BY <1>4, <2>1, <2>2, <2>3, <2>4 DEF Next
<1>5. ASSUME Next, op.kind \in {"connect", "reconnect"},
             op'.kind = "reconnect"
      PROVE  AttemptsCounted'
  <2> USE DEF Return, Block, NoCall
  <2>1. OpeningSteps \/ WorldSteps
    BY <1>5, OpeningOnly
  <2>2. CASE Retry
    <3>1. /\ op.kind = "reconnect" /\ pc = "sleep" /\ config' = config
          /\ op'.attempt = op.attempt + 1 /\ pc' = "resolve"
      BY <1>5, <2>2, EnterConnectCases DEF Retry, IInv, PhaseOK
    <3> QED BY <1>1, <1>2, <3>1
  <2>3. CASE WorldSteps
    <3>1. config' = config /\ ((op' = op /\ pc' = pc) \/ op'.kind = "none")
      BY <1>5, <2>3 DEF WorldSteps, Tick, Interrupt, KernelAccepts,
         PeerSends, ConnectionEnds, HostChanges, frame, rest, given, IInv,
         PhaseOK
    <3> QED BY <1>2, <1>5, <3>1
  <2>4. CASE OpeningSteps /\ ~Retry
    <3>1. /\ config' = config /\ op' = op
          /\ pc' = "sleep" => op.attempt < Attempts
      BY <1>5, <2>4 DEF OpeningSteps, ResolveInterface, ResolveFails,
         BindFails, SocketFails, ConnectTimeoutRefused, GatewayRefused,
         SocketReady, LookupFails, Dial, HandshakeFails, Accepted,
         AcceptedBadTimeout, AttemptFails, RetryOrRaise, TimeoutErrors, rest,
         given
    <3> QED BY <1>2, <1>5, <3>1
  <2> QED BY <2>1, <2>2, <2>3, <2>4
<1> QED BY <1>1, <1>2, <1>3, <1>4, <1>5 DEF Attempts

(* reconnect() gives up neither early nor late.                            *)
THEOREM AttemptsAreSpent == Spec => FailureSpendsAttempts
<1>1. Init => AttemptsCounted
  BY DEF Init, NoCall, AttemptsCounted
<1>2. IInv /\ AttemptsCounted /\ [Next]_vars => AttemptsCounted'
  BY AttemptsStayCounted
<1>3. ASSUME IInv, AttemptsCounted, [Next]_vars,
             op.kind = "reconnect", result' = "ConnectionFailedError"
      PROVE  op.attempt = Attempts \/ UNCHANGED vars
  <2> USE DEF Return, Block
  <2>1. /\ Attempts \in Int /\ op.attempt \in Nat /\ op.attempt <= Attempts
    BY <1>3, ConfigType DEF IInv, TypeOK, Frames, ENETConfig, Attempts,
       AttemptsCounted
  <2>2. CASE Next
    <3>1. result = "pending" /\ (OpeningSteps \/ WorldSteps)
      BY <1>3, <2>2, OpeningOnly
    <3>2. ~WorldSteps
      BY <1>3, <3>1 DEF WorldSteps, Tick, Interrupt, KernelAccepts,
         PeerSends, ConnectionEnds, HostChanges, frame
    <3>3. ~Retry
      BY <1>3, EnterConnectCases DEF Retry
    <3>4. AttemptFails
      BY <1>3, <3>1, <3>2, <3>3 DEF OpeningSteps, ResolveInterface,
         ResolveFails, BindFails, SocketFails, ConnectTimeoutRefused,
         GatewayRefused, SocketReady, LookupFails, Dial, HandshakeFails,
         Accepted, AcceptedBadTimeout, TimeoutErrors
    <3> QED BY <1>3, <2>1, <3>4 DEF AttemptFails, RetryOrRaise, TimeoutErrors
  <2> QED BY <1>3, <2>2
<1> QED
  BY <1>1, <1>2, <1>3, InductiveInvariant, PTL
  DEF Spec, FailureSpendsAttempts

(* A read that timed out can be repeated: nothing was lost or torn down.   *)
THEOREM TimeoutsAreHarmless == Spec => TimedOutReadIsHarmless
<1>1. ASSUME IInv, [Next]_vars,
             op.kind \in {"receive", "receive_exactly"},
             result' = "TransportTimeoutError"
      PROVE  \/ /\ \/ state' = "connected" /\ socket' # "none"
                   \/ op.kind = "receive_exactly" /\ pc = "loop"
                /\ UNCHANGED <<state, inbox, bytes_received, last_error>>
             \/ UNCHANGED vars
  <2> USE DEF Return, Block
  <2>1. CASE Next
    <3>1. pc \in {"recv", "loop"} /\ result = "pending"
      BY <1>1 DEF IInv, TypeOK, Blocking, PhaseOK, NoCall
    <3>2. ~CallerSteps
      BY <3>1 DEF CallerSteps, Connect, ConnectAgain, Reconnect, Disconnect,
         Refused, Send, Receive, ReceiveExactly, ReceiveNothing
    <3>3. ~OpeningSteps
      BY <3>1 DEF OpeningSteps, ResolveInterface, ResolveFails, BindFails,
         SocketFails, ConnectTimeoutRefused, GatewayRefused, SocketReady,
         LookupFails, Dial, HandshakeFails, Accepted, AcceptedBadTimeout,
         Retry
    <3>4. ~WorldSteps
      BY <1>1, <3>1 DEF WorldSteps, Tick, Interrupt, KernelAccepts,
         PeerSends, ConnectionEnds, HostChanges, frame
    <3>5. TransferSteps
      BY <2>1, <3>2, <3>3, <3>4 DEF Next
    <3>6. RecvTimesOut \/ LoopExpires
      <4>1. ~RecvData /\ ~LoopReceives
        BY <1>1 DEF RecvData, ReadOn, LoopReceives, EnterRecv
      <4> QED
        BY <1>1, <3>1, <3>5, <4>1 DEF TransferSteps, SendDone,
           SendTimesOut, SendBreaks, RecvBreaks, RecvEmpty, LoseConnection,
           LoopRefused
    <3>7. CASE RecvTimesOut
      BY <1>1, <3>7 DEF RecvTimesOut, IInv, PhaseOK, counters
    <3>8. CASE LoopExpires
      BY <1>1, <3>8 DEF LoopExpires, IInv, PhaseOK, rest, connection, counters
    <3> QED BY <1>1, <3>6, <3>7, <3>8
  <2> QED BY <1>1, <2>1
<1> QED
  BY <1>1, InductiveInvariant, PTL DEF Spec, TimedOutReadIsHarmless

(* No f10diag error leaves the transport CONNECTING.                       *)
THEOREM ConnectingEnds == Spec => ConnectingIsTransient
<1>1. ASSUME IInv, [Next]_vars,
             pc # "idle", pc' = "idle", state' = "connecting"
      PROVE  \/ result' \in Foreign
             \/ op.kind \notin {"connect", "reconnect"}
             \/ UNCHANGED vars
  <2> SUFFICES ASSUME Next, op.kind \in {"connect", "reconnect"}
               PROVE  result' \in Foreign
    BY <1>1
  <2> USE DEF Return, Block, Foreign
  <2>1. OpeningSteps \/ WorldSteps
    BY OpeningOnly, <1>1
  <2>2. CASE WorldSteps
    BY <1>1, <2>2 DEF WorldSteps, Tick, Interrupt, KernelAccepts, PeerSends,
       ConnectionEnds, HostChanges, frame
  <2>3. CASE Retry
    BY <1>1, <2>3, EnterConnectCases DEF Retry
  <2>4. CASE OpeningSteps /\ ~Retry
    BY <1>1, <2>4 DEF OpeningSteps, ResolveInterface, ResolveFails, BindFails,
       SocketFails, ConnectTimeoutRefused, GatewayRefused, SocketReady,
       LookupFails, Dial, HandshakeFails, Accepted, SetState,
       AcceptedBadTimeout, AttemptFails, RetryOrRaise, TimeoutErrors, Fail
  <2> QED BY <2>1, <2>2, <2>3, <2>4
<1> QED
  BY <1>1, InductiveInvariant, PTL DEF Spec, ConnectingIsTransient

(* ConnectionLostError is about the peer, or about a call that waited for  *)
(* nothing.                                                                *)
THEOREM LossesAreReal == Spec => LostMeansPeerGone
<1>1. ASSUME IInv, [Next]_vars,
             pc # "idle", result' = "ConnectionLostError"
      PROVE  \/ socket \in {"fin", "rst"} \/ timeout = 0
             \/ pc = "recv" /\ Want = 0
             \/ UNCHANGED vars
  <2> SUFFICES ASSUME Next
               PROVE  \/ socket \in {"fin", "rst"} \/ timeout = 0
                      \/ pc = "recv" /\ Want = 0
    BY <1>1
  <2> USE DEF Return, Block
  <2>1. result = "pending"
    BY <1>1 DEF IInv, PhaseOK
  <2>2. ~CallerSteps
    BY <1>1 DEF CallerSteps, Connect, ConnectAgain, Reconnect, Disconnect,
       Refused, Send, Receive, ReceiveExactly, ReceiveNothing
  <2>3. ~OpeningSteps
    <3>1. ~Retry
      BY <1>1, EnterConnectCases DEF Retry
    <3> QED
      BY <1>1, <3>1 DEF OpeningSteps, ResolveInterface, ResolveFails,
         BindFails, SocketFails, ConnectTimeoutRefused, GatewayRefused,
         SocketReady, LookupFails, Dial, HandshakeFails, Accepted,
         AcceptedBadTimeout, AttemptFails, RetryOrRaise, TimeoutErrors
  <2>4. ~WorldSteps
    BY <1>1, <2>1 DEF WorldSteps, Tick, Interrupt, KernelAccepts,
       PeerSends, ConnectionEnds, HostChanges, frame
  <2>5. TransferSteps
    BY <2>2, <2>3, <2>4 DEF Next
  <2>6. ~RecvData /\ ~LoopReceives
    BY <1>1 DEF RecvData, ReadOn, LoopReceives, EnterRecv
  <2> QED
    BY <1>1, <2>5, <2>6 DEF TransferSteps, SendDone, SendTimesOut,
       SendBreaks, RecvTimesOut, RecvBreaks, RecvEmpty, LoopExpires,
       LoopRefused
<1> QED
  BY <1>1, InductiveInvariant, PTL DEF Spec, LostMeansPeerGone

(* Bytes on the wire that no observer saw cost the connection.             *)
THEOREM FailedSendsEndTheLink == Spec => FailedSendEndsLink
<1>1. ASSUME IInv, [Next]_vars,
             pc = "send", result' \notin {"pending", "KeyboardInterrupt"},
             unseen' > unseen - op.got
      PROVE  state' # "connected" \/ UNCHANGED vars
  <2> SUFFICES ASSUME Next PROVE state' # "connected"
    BY <1>1
  <2> USE DEF Return, Block
  <2>1. result = "pending" /\ unseen \in Nat
    BY <1>1 DEF IInv, PhaseOK, TypeOK
  <2>2. ~CallerSteps
    BY <1>1 DEF CallerSteps, Connect, ConnectAgain, Reconnect, Disconnect,
       Refused, Send, Receive, ReceiveExactly, ReceiveNothing, IInv, PhaseOK
  <2>3. ~OpeningSteps
    BY <1>1 DEF OpeningSteps, ResolveInterface, ResolveFails, BindFails,
       SocketFails, ConnectTimeoutRefused, GatewayRefused, SocketReady,
       LookupFails, Dial, HandshakeFails, Accepted, AcceptedBadTimeout, Retry
  <2>4. ~WorldSteps
    BY <1>1, <2>1 DEF WorldSteps, Tick, Interrupt, KernelAccepts,
       PeerSends, ConnectionEnds, HostChanges, frame
  <2>5. SendDone \/ SendTimesOut \/ SendBreaks
    BY <1>1, <2>2, <2>3, <2>4 DEF Next, TransferSteps, RecvData,
       RecvTimesOut, RecvBreaks, RecvEmpty, LoopExpires, LoopRefused,
       LoopReceives
  <2>6. ~SendDone
    <3> SUFFICES ASSUME SendDone PROVE FALSE
      OBVIOUS
    <3>1. op.got = op.size /\ unseen' = unseen - op.size
      BY DEF SendDone
    <3>2. op.got \in Nat /\ op.size \in Nat
      BY <1>1 DEF IInv, TypeOK, Frames
    <3> QED BY <1>1, <2>1, <3>1, <3>2
  <2> QED
    BY <2>5, <2>6 DEF SendTimesOut, SendBreaks, LoseConnection, Fail
<1> QED
  BY <1>1, InductiveInvariant, PTL DEF Spec, FailedSendEndsLink

-----------------------------------------------------------------------------
(* The half of CallsReturn that needs no fairness.                         *)

(* The measure, place by place.                                            *)
LEMMA WhatRemains ==
    /\ \A phase \in {"resolve", "dial", "handshake", "sleep"} :
          pc = phase => Remaining = 4 * AttemptsLeft + Phase
    /\ pc = "loop" => Remaining = 2 * Want + 1
    /\ pc = "recv" => Remaining = 2 * Want
    /\ pc = "send" => Remaining = Want
    /\ pc = "resolve" => Phase = 4
    /\ pc = "dial" => Phase = 3
    /\ pc = "handshake" => Phase = 2
    /\ pc = "sleep" => Phase = 1
<1>1. CASE pc \in {"resolve", "dial", "handshake", "sleep"}
  BY <1>1 DEF Remaining, Phase
<1>2. CASE pc \notin {"resolve", "dial", "handshake", "sleep"}
  BY <1>2 DEF Remaining
<1> QED BY <1>1, <1>2

LEMMA WhatWillRemain ==
    /\ \A phase \in {"resolve", "dial", "handshake", "sleep"} :
          pc' = phase => Remaining' = 4 * AttemptsLeft' + Phase'
    /\ pc' = "loop" => Remaining' = 2 * Want' + 1
    /\ pc' = "recv" => Remaining' = 2 * Want'
    /\ pc' = "send" => Remaining' = Want'
    /\ pc' = "resolve" => Phase' = 4
    /\ pc' = "dial" => Phase' = 3
    /\ pc' = "handshake" => Phase' = 2
    /\ pc' = "sleep" => Phase' = 1
<1>1. CASE pc' \in {"resolve", "dial", "handshake", "sleep"}
  BY <1>1 DEF Remaining, Phase
<1>2. CASE pc' \notin {"resolve", "dial", "handshake", "sleep"}
  BY <1>2 DEF Remaining
<1> QED BY <1>1, <1>2

(* The steps of connect() and reconnect().                                 *)
LEMMA OpeningRunsDown ==
    ASSUME IInv, AttemptsCounted, OpeningSteps, pc' # "idle"
    PROVE  Remaining' \in 0 .. Remaining - 1
<1> USE DEF Return, Block
<1>1. /\ config.reconnect_attempts \in Int /\ Attempts \in Int
      /\ op.attempt \in Nat /\ AttemptsLeft \in Nat
  BY ConfigType DEF IInv, TypeOK, Frames, ENETConfig, Attempts,
     AttemptsCounted, AttemptsLeft
<1>2. config' = config => Attempts' = Attempts
  BY DEF Attempts
<1>3. config' = config /\ op' = op => AttemptsLeft' = AttemptsLeft
  BY <1>2 DEF AttemptsLeft
<1>4. CASE Retry
  <2>1. /\ pc = "sleep" /\ op.kind = "reconnect" /\ config' = config
        /\ pc' = "resolve" /\ op'.kind = "reconnect"
        /\ op'.attempt = op.attempt + 1
    BY <1>4, EnterConnectCases DEF Retry, IInv, PhaseOK
  <2>2. /\ op.attempt < Attempts /\ AttemptsLeft = Attempts - op.attempt
        /\ AttemptsLeft' = Attempts - (op.attempt + 1)
    BY <1>2, <2>1 DEF AttemptsCounted, AttemptsLeft
  <2>3. Remaining = 4 * AttemptsLeft + 1
    BY <2>1, WhatRemains
  <2>4. Remaining' = 4 * AttemptsLeft' + 4
    BY <2>1, WhatWillRemain
  <2> QED BY <1>1, <2>2, <2>3, <2>4
<1>5. CASE ~Retry
  <2>1. /\ config' = config /\ op' = op
        /\ \/ pc = "resolve" /\ pc' = "dial"
           \/ pc = "dial" /\ pc' \in {"handshake", "sleep"}
           \/ pc = "handshake" /\ pc' = "sleep"
    BY <1>5 DEF OpeningSteps, ResolveInterface, ResolveFails, BindFails,
       SocketFails, ConnectTimeoutRefused, GatewayRefused, SocketReady,
       LookupFails, Dial, HandshakeFails, Accepted, AcceptedBadTimeout,
       AttemptFails, RetryOrRaise, TimeoutErrors, rest, given
  <2>2. Remaining = 4 * AttemptsLeft + Phase
    BY <2>1, WhatRemains
  <2>3. Remaining' = 4 * AttemptsLeft + Phase'
    BY <1>3, <2>1, WhatWillRemain
  <2>4. Phase \in 1 .. 4 /\ Phase' \in 1 .. 4 /\ Phase' < Phase
    BY <2>1, WhatRemains, WhatWillRemain
  <2> DEFINE now == Phase
             next == Phase'
  <2> HIDE DEF now, next
  <2>5. /\ now \in 1 .. 4 /\ next \in 1 .. 4 /\ next < now
        /\ Remaining = 4 * AttemptsLeft + now
        /\ Remaining' = 4 * AttemptsLeft + next
    BY <2>2, <2>3, <2>4 DEF now, next
  <2> QED BY <1>1, <2>5
<1> QED BY <1>4, <1>5

(* Those of send(), receive() and receive_exactly().                       *)
LEMMA TransferRunsDown ==
    ASSUME IInv, TransferSteps \/ KernelAccepts, pc' # "idle"
    PROVE  Remaining' \in 0 .. Remaining - 1
<1> USE DEF Return, Block
<1>1. op.size \in Nat /\ op.got \in Nat /\ inbox \in Nat
  BY DEF IInv, TypeOK, Frames
<1>2. CASE RecvData
  <2>1. /\ pc = "recv" /\ pc' = "loop" /\ Want > 0 /\ inbox > 0
        /\ op.got + Chunk < op.size
        /\ op' = [op EXCEPT !.got = op.got + Chunk]
    BY <1>2 DEF RecvData, ReadOn
  <2>2. op'.size = op.size /\ op'.got = op.got + Chunk
    BY <2>1 DEF IInv, TypeOK, Frames
  <2>3. Chunk \in Nat /\ Chunk > 0 /\ Want \in Int
    BY <1>1, <2>1 DEF Chunk, Want
  <2>4. Want' = Want - Chunk /\ Want' > 0
    BY <1>1, <2>1, <2>2, <2>3 DEF Want
  <2>5. Remaining = 2 * Want /\ Remaining' = 2 * Want' + 1
    BY <2>1, WhatRemains, WhatWillRemain
  <2> QED BY <2>3, <2>4, <2>5
<1>3. CASE LoopReceives
  <2>1. /\ pc = "loop" /\ pc' = "recv"
        /\ op' = [op EXCEPT !.previous = timeout]
    BY <1>3 DEF LoopReceives, EnterRecv
  <2>2. op'.size = op.size /\ op'.got = op.got
    BY <2>1 DEF IInv, TypeOK, Frames
  <2>3. Want' = Want /\ Want \in Nat
    BY <1>1, <2>1, <2>2 DEF Want, IInv, PhaseOK
  <2>4. Remaining = 2 * Want + 1 /\ Remaining' = 2 * Want'
    BY <2>1, WhatRemains, WhatWillRemain
  <2> QED BY <2>3, <2>4
<1>4. CASE KernelAccepts
  <2>1. /\ pc = "send" /\ pc' = "send" /\ op.got < op.size
        /\ op' = [op EXCEPT !.got = op.got + 1]
    BY <1>4 DEF KernelAccepts
  <2>2. op'.size = op.size /\ op'.got = op.got + 1
    BY <2>1 DEF IInv, TypeOK, Frames
  <2>3. Want' = Want - 1 /\ Want \in Nat /\ Want > 0
    BY <1>1, <2>1, <2>2 DEF Want
  <2>4. Remaining = Want /\ Remaining' = Want'
    BY <2>1, WhatRemains, WhatWillRemain
  <2> QED BY <2>3, <2>4
<1> QED
  BY <1>2, <1>3, <1>4 DEF TransferSteps, SendDone, SendTimesOut, SendBreaks,
     RecvTimesOut, RecvBreaks, RecvEmpty, LoseConnection, LoopExpires,
     LoopRefused

LEMMA TimeRunsDown ==
    ASSUME IInv, Tick, pc # "idle"
    PROVE  Remaining' = Remaining /\ Clock' \in 0 .. Clock - 1
<1>1. /\ pc' = pc /\ config' = config
      /\ op'.kind = op.kind /\ op'.attempt = op.attempt
      /\ op'.size = op.size /\ op'.got = op.got
  BY DEF Tick, IInv, TypeOK, Frames, rest, given
<1>2. Remaining' = Remaining
  BY <1>1 DEF Remaining, AttemptsLeft, Attempts, Phase, Want
<1>3. CASE pc = "loop"
  <2>1. op.left > 0 /\ op.left \in Int /\ op.kind = "receive_exactly"
    BY <1>3 DEF Tick, IInv, TypeOK, PhaseOK, Frames
  <2>2. op'.left = op.left - 1
    BY <2>1 DEF Tick, IInv, TypeOK, Frames
  <2> QED BY <1>1, <1>2, <1>3, <2>1, <2>2 DEF Clock
<1>4. CASE pc # "loop"
  <2>1. wait \in Int /\ wait > 0 /\ wait' = wait - 1
    BY <1>4 DEF Tick, IInv, TypeOK
  <2> QED BY <1>1, <1>2, <1>4, <2>1 DEF Clock
<1> QED BY <1>3, <1>4

(* What a call does takes it nearer to its end.                            *)
THEOREM CallsComeNearerTheirEnd == Spec => CallsRunDown
<1>1. Init => AttemptsCounted
  BY DEF Init, AttemptsCounted, NoCall
<1>2. ASSUME IInv, AttemptsCounted, [Next]_vars
      PROVE  pc # "idle" /\ pc' # "idle"
               => \/ UNCHANGED frame
                  \/ Remaining' \in 0 .. Remaining - 1
                  \/ Remaining' = Remaining /\ Clock' \in 0 .. Clock - 1
  <2> SUFFICES ASSUME pc # "idle", pc' # "idle", Next
               PROVE  \/ UNCHANGED frame
                      \/ Remaining' \in 0 .. Remaining - 1
                      \/ /\ Remaining' = Remaining
                         /\ Clock' \in 0 .. Clock - 1
    BY <1>2 DEF vars
  <2>1. ~CallerSteps
    BY DEF CallerSteps, Connect, ConnectAgain, Reconnect, Disconnect,
       Refused, Send, Receive, ReceiveExactly, ReceiveNothing
  <2>2. CASE OpeningSteps
    BY <1>2, <2>2, OpeningRunsDown
  <2>3. CASE TransferSteps \/ KernelAccepts
    BY <1>2, <2>3, TransferRunsDown
  <2>4. CASE Tick
    BY <1>2, <2>4, TimeRunsDown
  <2>5. ~Interrupt
    BY DEF Interrupt, Return
  <2>6. CASE PeerSends \/ ConnectionEnds \/ HostChanges
    BY <2>6 DEF PeerSends, ConnectionEnds, HostChanges
  <2> QED
    BY <2>1, <2>2, <2>3, <2>4, <2>5, <2>6 DEF Next, WorldSteps
<1> QED
  BY <1>1, <1>2, AttemptsStayCounted, InductiveInvariant, PTL
  DEF Spec, CallsRunDown
=============================================================================
