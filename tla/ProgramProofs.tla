---------------------------- MODULE ProgramProofs ----------------------------
(***************************************************************************)
(* Theorems of Program: which setting a command gets, and in what state    *)
(* the transport is left - for all command lines and configuration files.  *)
(***************************************************************************)
EXTENDS Program, SequenceLemmas

(* The command line was parsed, and, from "dispatch" on, the file loaded.  *)
ArgsInv ==
    pc \in {"load", "dispatch"} =>
      /\ args = namespace(launch.top, launch.leaf)
      /\ ~Conflict(launch.top) /\ ~Conflict(launch.leaf)
      /\ launch.command \notin {"version", "none"}

ConfigInv ==
    pc = "dispatch" =>
      /\ LoadEnds(Document, Named) = "ok"
      /\ config = with_overrides(
                    Loaded(Document),
                    [key \in DOMAIN Overrides |-> args[Overrides[key]]])

(* What both come to once a command runs.                                  *)
Settled ==
    /\ launch \in Launches
    /\ args = namespace(launch.top, launch.leaf)
    /\ ~Conflict(launch.top) /\ ~Conflict(launch.leaf)
    /\ launch.command \notin {"version", "none"}
    /\ LoadEnds(Document, Named) = "ok"
    /\ config = with_overrides(
                  Loaded(Document),
                  [key \in DOMAIN Overrides |-> args[Overrides[key]]])

(* A connected transport has a `finally' around it, or a traceback.        *)
LinkInv ==
    /\ pc \in {"shell", "load", "dispatch", "start", "open", "connect", "level"}
         => received = 0
    /\ link = "connected" =>
         \/ pc \in {"level", "listen", "read", "disconnect"}
         \/ pc \in {"close", "ended"} /\ exit = "traceback" /\ received = 0

ProgramInv == launch \in Launches /\ ArgsInv /\ ConfigInv /\ LinkInv

-----------------------------------------------------------------------------
LEMMA InitEstablishesProgramInv == ProgramInit => ProgramInv
BY DEF ProgramInit, Idle, T!Init, ProgramInv, ArgsInv, ConfigInv, LinkInv

(* Before the command, nothing touches the transport.                      *)
LEMMA FrontKeepsProgramInv ==
    ASSUME ProgramInv,
           \/ ParseFails \/ Informs \/ NoCommand \/ Parse \/ Load \/ LoadFails
           \/ BeginSession \/ RunCommand
    PROVE  ProgramInv'
<1> USE DEF ProgramInv, program, transport, Leave, Goto
<1>1. CASE ParseFails \/ Informs \/ NoCommand
  <2>1. pc = "shell" /\ pc' = "ended" /\ UNCHANGED <<link, received, launch>>
    BY <1>1 DEF ParseFails, Informs, NoCommand, Parses
  <2> QED BY <2>1 DEF ArgsInv, ConfigInv, LinkInv
<1>2. CASE Parse
  <2>1. /\ pc = "shell" /\ pc' = "load"
        /\ args' = namespace(launch.top, launch.leaf)
        /\ ~Conflict(launch.top) /\ ~Conflict(launch.leaf)
        /\ launch.command \notin {"version", "none"}
        /\ UNCHANGED <<link, received, launch, exit>>
    BY <1>2 DEF Parse, Parses
  <2>2. ArgsInv'
    BY <2>1 DEF ArgsInv
  <2> QED BY <2>1, <2>2 DEF ConfigInv, LinkInv
<1>3. CASE Load
  <2>1. /\ pc = "load" /\ pc' = "dispatch"
        /\ LoadEnds(Document, Named) = "ok"
        /\ config' = with_overrides(
                       Loaded(Document),
                       [key \in DOMAIN Overrides |-> args[Overrides[key]]])
        /\ UNCHANGED <<link, received, launch, exit, args>>
    BY <1>3 DEF Load
  <2>2. Document' = Document /\ Named' = Named
    BY <2>1 DEF Document, Named
  <2>3. ConfigInv'
    BY <2>1, <2>2 DEF ConfigInv
  <2> QED BY <2>1, <2>3 DEF ArgsInv, LinkInv
<1>4. CASE LoadFails \/ RunCommand
  <2>1. /\ pc \in {"load", "dispatch"} /\ pc' = "ended"
        /\ UNCHANGED <<link, received, launch>>
    BY <1>4 DEF LoadFails, RunCommand
  <2> QED BY <2>1 DEF ArgsInv, ConfigInv, LinkInv
<1>5. CASE BeginSession
  <2>1. /\ pc = "dispatch" /\ pc' = "start"
        /\ UNCHANGED <<link, received, launch, exit>>
    BY <1>5 DEF BeginSession
  <2> QED BY <2>1 DEF ArgsInv, ConfigInv, LinkInv
<1> QED BY <1>1, <1>2, <1>3, <1>4, <1>5

(* Within a session, the command line is settled.                          *)
LEMMA SessionKeepsProgramInv ==
    ASSUME ProgramInv, CommandSteps, UNCHANGED program
    PROVE  ProgramInv'
<1>1. /\ pc \notin {"shell", "load", "dispatch"}
      /\ pc' \notin {"shell", "load", "dispatch"}
  BY DEF CommandSteps, Refuse, Validate, OpenCapture, ConnectBegins,
     Connected, ConnectFails, ConnectEscapes, RecordLevel, Loop, Read,
     ReadTimesOut, ReadBreaks, InterruptedRead, Disconnect, CloseCapture,
     Leave, Goto
<1>2. launch' = launch
  BY DEF program
<1>3. LinkInv'
  <2> USE DEF ProgramInv, LinkInv, Leave, Goto, transport
  <2>1. CASE Refuse \/ Validate \/ OpenCapture
    BY <2>1 DEF Refuse, Validate, OpenCapture
  <2>2. CASE ConnectBegins
    BY <2>2 DEF ConnectBegins, T!Opening, T!Quiet
  <2>3. CASE Connected
    BY <2>3 DEF Connected, T!Opened, T!Quiet
  <2>4. CASE ConnectFails
    BY <2>4 DEF ConnectFails, T!OpenFailed, T!Quiet
  <2>5. CASE ConnectEscapes
    BY <2>5 DEF ConnectEscapes, T!Escaped, T!Quiet
  <2>6. CASE RecordLevel
    BY <2>6 DEF RecordLevel
  <2>7. CASE Loop
    BY <2>7 DEF Loop
  <2>8. CASE Read
    BY <2>8 DEF Read, T!Delivered
  <2>9. CASE ReadTimesOut
    BY <2>9 DEF ReadTimesOut, T!TimedOut, T!Quiet
  <2>10. CASE ReadBreaks
    BY <2>10 DEF ReadBreaks, T!Lost, T!Quiet
  <2>11. CASE InterruptedRead
    BY <2>11 DEF InterruptedRead, T!Escaped, T!Quiet
  <2>12. CASE Disconnect
    BY <2>12 DEF Disconnect, T!Closed, T!Quiet
  <2>13. CASE CloseCapture
    BY <2>13 DEF CloseCapture
  <2> QED BY <2>1, <2>2, <2>3, <2>4, <2>5, <2>6, <2>7, <2>8, <2>9, <2>10,
             <2>11, <2>12, <2>13 DEF CommandSteps
<1> QED BY <1>1, <1>2, <1>3 DEF ProgramInv, ArgsInv, ConfigInv

LEMMA StepKeepsProgramInv == ProgramInv /\ [ProgramNext]_all => ProgramInv'
<1> SUFFICES ASSUME ProgramInv, [ProgramNext]_all
             PROVE  ProgramInv'
  OBVIOUS
<1>1. CASE \/ ParseFails \/ Informs \/ NoCommand \/ Parse \/ Load \/ LoadFails
           \/ BeginSession \/ RunCommand
  BY <1>1, FrontKeepsProgramInv
<1>2. CASE CommandSteps /\ UNCHANGED program
  BY <1>2, SessionKeepsProgramInv
<1>3. CASE \/ (Tick \/ DiskFills) /\ UNCHANGED program
           \/ UNCHANGED all
  <2>1. UNCHANGED <<pc, link, received, exit, launch, args, config>>
    BY <1>3 DEF Tick, DiskFills, program, transport, all, vars
  <2>2. Document' = Document /\ Named' = Named
    BY <2>1 DEF Document, Named
  <2> QED BY <2>1, <2>2 DEF ProgramInv, ArgsInv, ConfigInv, LinkInv
<1> QED BY <1>1, <1>2, <1>3 DEF ProgramNext, ProgramSteps

THEOREM ProgramInvariant == ProgramSpec => []ProgramInv
BY InitEstablishesProgramInv, StepKeepsProgramInv, PTL DEF ProgramSpec

-----------------------------------------------------------------------------
(* Whichever way a session ends - done, lost, timed out, interrupted - its *)
(* transport is disconnected, but for a capture that cannot be written     *)
(* between connect() and the try.                                          *)
THEOREM SessionsDisconnect == ProgramSpec => []DisconnectedAtExit
<1>1. ProgramInv => DisconnectedAtExit
  BY DEF ProgramInv, LinkInv, DisconnectedAtExit
<1> QED BY <1>1, ProgramInvariant, PTL

(* What a setting is, whoever gives it.                                    *)
LEMMA SettingOf ==
    ASSUME Settled, NEW key \in Keys
    PROVE  config[key] =
             IF key \in DOMAIN Overrides
             THEN LET after == launch.leaf[Overrides[key]]
                      before == launch.top[Overrides[key]]
                  IN IF after # Absent THEN after
                     ELSE IF before # Absent THEN before
                     ELSE Loaded(Document)[key]
             ELSE Loaded(Document)[key]
<1> DEFINE given == [k \in DOMAIN Overrides |-> args[Overrides[k]]]
<1>1. /\ args = namespace(launch.top, launch.leaf)
      /\ config = with_overrides(Loaded(Document), given)
  BY DEF Settled
<1>2. DOMAIN given = DOMAIN Overrides
  OBVIOUS
<1>3. \A k \in DOMAIN Overrides : given[k] = args[Overrides[k]]
  OBVIOUS
<1> HIDE DEF given
<1>4. config[key] = IF key \in DOMAIN Overrides /\ given[key] # Absent
                    THEN given[key] ELSE Loaded(Document)[key]
  BY <1>1, <1>2 DEF with_overrides
<1>5. CASE key \in DOMAIN Overrides
  <2>1. Overrides[key] \in Flags
    BY <1>5 DEF Overrides, Flags
  <2>2. args[Overrides[key]] =
          IF launch.leaf[Overrides[key]] = Absent
          THEN launch.top[Overrides[key]] ELSE launch.leaf[Overrides[key]]
    BY <1>1, <2>1 DEF namespace
  <2>3. config[key] = IF args[Overrides[key]] # Absent
                      THEN args[Overrides[key]] ELSE Loaded(Document)[key]
    BY <1>3, <1>4, <1>5
  <2> QED BY <1>5, <2>2, <2>3
<1>6. CASE key \notin DOMAIN Overrides
  BY <1>4, <1>6
<1> QED BY <1>5, <1>6

(* A file that loads has no key that fails its check.                      *)
LEMMA LoadedKeysPass ==
    ASSUME LoadEnds(Document, Named) = "ok", Document.file # "absent",
           NEW key \in Keys
    PROVE  from_dict(Document)[key] \notin Raised
<1>1. CheckEnds(Document) = "ok"
  BY DEF LoadEnds
<1>2. \A i \in DOMAIN Order : ~Fails(Document, i)
  BY <1>1 DEF CheckEnds
<1>3. PICK i \in DOMAIN Order : Order[i] = key
  BY DEF Order, Keys, EnetKeys
<1> QED BY <1>2, <1>3 DEF Fails

(* The gate of a file that loads is open or shut, and shut by default.     *)
LEMMA GateOf ==
    ASSUME Settled
    PROVE  Loaded(Document)["read_only"] \in {True, False}
<1>1. LoadEnds(Document, Named) = "ok"
  BY DEF Settled
<1>2. Document.values["read_only"].kind = "boolean" =>
        Document.values["read_only"] \in {True, False}
  BY SwitchAssumption DEF Settled, Document
<1>3. /\ "read_only" \in Keys /\ Defaults["read_only"] = True
      /\ ConfigError \notin {True, False}
  BY DEF Keys, Defaults, ConfigError, True, False, V
<1>4. CASE Document.file = "absent"
  BY <1>3, <1>4 DEF Loaded
<1>5. CASE Document.file # "absent"
  <2>1. from_dict(Document)["read_only"] # ConfigError
    BY <1>1, <1>3, <1>5, LoadedKeysPass DEF Raised
  <2>2. CASE Document.values["read_only"] = Absent
    BY <1>3, <1>5, <2>2 DEF Loaded, from_dict
  <2>3. CASE Document.values["read_only"] # Absent
    <3>1. from_dict(Document)["read_only"]
            = Checked("read_only", Document.values["read_only"])
      BY <1>3, <2>3 DEF from_dict
    <3>2. Checked("read_only", Document.values["read_only"])
            = Boolean(Document.values["read_only"])
      BY DEF Checked
    <3> QED BY <1>2, <1>5, <2>1, <3>1, <3>2 DEF Boolean, Loaded
  <2> QED BY <2>2, <2>3
<1> QED BY <1>4, <1>5

(* Each setting is what the flag after the command says, else the flag     *)
(* before it, else the file, else the default: the leaf parsers suppress   *)
(* their defaults, and with_overrides() skips what is None.  So a write    *)
(* passes its gate only if the last word on it was that it may.            *)
THEOREM FlagsAreHonoured == ProgramSpec => []FlagsAnywhere
<1>1. ProgramInv => FlagsAnywhere
  <2> SUFFICES ASSUME ProgramInv, pc = "dispatch"
               PROVE  FlagsAnywhere
    BY DEF FlagsAnywhere
  <2>0. Settled
    BY DEF ProgramInv, ArgsInv, ConfigInv, Settled
  <2>1. ASSUME NEW key \in DOMAIN Overrides
        PROVE  LET after == launch.leaf[Overrides[key]]
                   before == launch.top[Overrides[key]]
               IN config[key] = IF after # Absent THEN after
                                ELSE IF before # Absent THEN before
                                ELSE Loaded(Document)[key]
    <3>1. key \in Keys
      BY DEF Overrides, Keys, EnetKeys
    <3> QED BY <2>0, <3>1, SettingOf
  <2>2. ASSUME guard_write(config) = "ok"
        PROVE  \/ launch.leaf["read_only"] = False
               \/ /\ launch.leaf["read_only"] = Absent
                  /\ \/ launch.top["read_only"] = False
                     \/ /\ launch.top["read_only"] = Absent
                        /\ Loaded(Document)["read_only"] = False
    <3>1. config["read_only"] # True
      BY <2>2 DEF guard_write
    <3>2. /\ "read_only" \in DOMAIN Overrides
          /\ Overrides["read_only"] = "read_only"
      BY DEF Overrides
    <3>3. config["read_only"] =
            LET after == launch.leaf["read_only"]
                before == launch.top["read_only"]
            IN IF after # Absent THEN after
               ELSE IF before # Absent THEN before
               ELSE Loaded(Document)["read_only"]
      BY <2>1, <3>2
    <3>4. ASSUME NEW flags \in {launch.top, launch.leaf}
          PROVE  flags["read_only"] \in {Absent, True, False}
      <4>1. ~Conflict(flags)
        BY DEF ProgramInv, ArgsInv
      <4>2. flags["read_only"] \in {Absent, True, False, V("both", 0)}
        BY SwitchAssumption DEF ProgramInv
      <4> QED BY <4>1, <4>2 DEF Conflict, V
    <3>5. Loaded(Document)["read_only"] \in {True, False}
      BY <2>0, GateOf
    <3>6. CASE launch.leaf["read_only"] # Absent
      BY <3>1, <3>3, <3>4, <3>6
    <3>7. CASE /\ launch.leaf["read_only"] = Absent
               /\ launch.top["read_only"] # Absent
      BY <3>1, <3>3, <3>4, <3>7
    <3>8. CASE /\ launch.leaf["read_only"] = Absent
               /\ launch.top["read_only"] = Absent
      BY <3>1, <3>3, <3>5, <3>8
    <3> QED BY <3>6, <3>7, <3>8
  <2>3. ASSUME launch.top["verbose"] = Absent, launch.leaf["verbose"] = Absent
        PROVE  log_level = Loaded(Document)["level"].kind
    <3>1. args["verbose"] = Absent
      BY <2>3 DEF ProgramInv, ArgsInv, namespace, Flags
    <3>2. "level" \in Keys /\ "level" \notin DOMAIN Overrides
      BY DEF Keys, Overrides
    <3>3. config["level"] = Loaded(Document)["level"]
      BY <2>0, <3>2, SettingOf
    <3>4. ~(args["verbose"].n > 0)
      BY <3>1 DEF Absent, V
    <3> QED BY <3>3, <3>4 DEF log_level
  <2> QED BY <2>1, <2>2, <2>3 DEF FlagsAnywhere
<1> QED BY <1>1, ProgramInvariant, PTL
-----------------------------------------------------------------------------
(* Sessions: the lines of the capture, and how a command ends.             *)

Text == Seq({"session", "event", "packet"})

(* The file as it will be once the buffer is flushed.                      *)
whole == file \o buffer

Prelude == {"shell", "load", "dispatch"}
Session == {"start", "open", "connect", "level", "listen", "read",
            "disconnect", "close"}
Opened  == Session \ {"start", "open"}

Types ==
    /\ file \in Text /\ buffer \in Text
    /\ packets \in Nat /\ received \in Nat /\ dropped \in Nat
    /\ packets = received

Untouched ==
    /\ file = <<>> /\ buffer = <<>> /\ ~handle
    /\ received = 0 /\ packets = 0 /\ dropped = 0
    /\ outcome = "none" /\ link = "disconnected"

(* The session got its settings from the configuration of the launch.      *)
Begun ==
    /\ Settled /\ launch.command \in Sessions
    /\ gateway_set = (Missing(config) = {})
    /\ refusal = Refusal

(* While the capture is open, every chunk that arrived is a line of it, or *)
(* was dropped; and it has the events of the way that was gone.            *)
Recorded ==
    /\ handle = WritesCapture
    /\ ~handle => whole = <<>> /\ buffer = <<>>
    /\ handle =>
         /\ Lines(whole, "packet") + dropped = received
         /\ Lines(whole, "session") = 1
         /\ pc \in {"connect", "level"} => Lines(whole, "event") = 0
         /\ pc \in {"listen", "read", "disconnect"} => Lines(whole, "event") = 1
         /\ pc = "close" /\ exit = "0" => Lines(whole, "event") = 1

(* The causes of a traceback.                                              *)
Explained == WritesCapture \/ outcome \in Refusals \cup {"OSError"}

(* A link that is down after the connect was lost, or disconnected.        *)
OnTheWay ==
    /\ pc \in {"connect", "level", "listen", "read"} => exit = "none"
    /\ pc = "disconnect" => exit \in {"0", "1"}
    /\ pc = "close" => exit \in {"0", "1", "traceback"}
    /\ pc \in {"level", "listen", "read"} => link = "connected"
    /\ pc = "disconnect" => link = "connected" \/ (link = "error" /\ lost)
    /\ pc = "close" /\ exit = "0" =>
         link = "disconnected" \/ (link = "error" /\ lost)
    /\ pc \in Opened \ {"connect"} => outcome # "none"
    /\ pc = "close" /\ exit = "traceback" => Explained
    /\ refusal # "none" =>
         /\ pc \notin {"level", "listen", "read", "disconnect"} /\ received = 0
         /\ pc = "close" => exit # "0"

(* How a launch ends.                                                      *)
EndedBefore ==
    /\ Untouched /\ ~WritesCapture
    /\ \/ exit = "2"
       \/ exit = "0" /\ launch.command = "version"
       \/ exit = "traceback" /\ LoadEnds(Document, Named) \notin {"ok", "ConfigError"}
       \/ Settled /\ launch.command \notin Sessions /\ exit \in Endings \cup {"1"}

EndedSession ==
    /\ Begun
    /\ \/ exit = "3" /\ Untouched /\ ~gateway_set
       \/ exit = "traceback" /\ Explained
       \/ /\ exit \in {"0", "1"} /\ gateway_set /\ ~handle
          /\ WritesCapture => Count("packet") + dropped = received
          /\ exit = "0" =>
               /\ outcome # "none"
               /\ link = "disconnected" \/ (link = "error" /\ lost)
               /\ WritesCapture => Count("session") = 1 /\ Count("event") = 1
    /\ refusal # "none" => exit # "0" /\ received = 0

SessionInv ==
    /\ pc \in Prelude \cup Session \cup {"ended"}
    /\ Types
    /\ pc \in Prelude => Untouched /\ ~WritesCapture /\ exit = "none"
    /\ pc \in Session => Begun
    /\ pc \in {"start", "open"} => Untouched /\ exit = "none"
    /\ pc \in Session \ {"start"} => gateway_set
    /\ pc \in Opened => Recorded /\ OnTheWay
    /\ outcome \in Refusals => outcome = refusal
    /\ pc = "ended" => EndedBefore \/ EndedSession

(* Counting lines.                                                         *)
LEMMA LinesOfNothing == \A line : Lines(<<>>, line) = 0
<1>1. \A line : {i \in DOMAIN <<>> : <<>>[i] = line} = {}
  BY EmptySeq
<1> QED BY <1>1, FS_EmptySet DEF Lines

LEMMA LinesOfAppend ==
    ASSUME NEW text \in Text, NEW e \in {"session", "event", "packet"}, NEW line
    PROVE  /\ Lines(text, line) \in Nat
           /\ Lines(Append(text, e), line) =
                IF e = line THEN Lines(text, line) + 1 ELSE Lines(text, line)
<1> DEFINE old == {i \in DOMAIN text : text[i] = line}
           more == {i \in DOMAIN Append(text, e) : Append(text, e)[i] = line}
<1>1. /\ Len(text) \in Nat /\ DOMAIN text = 1 .. Len(text)
      /\ DOMAIN Append(text, e) = 1 .. Len(text) + 1
      /\ \A i \in 1 .. Len(text) : Append(text, e)[i] = text[i]
      /\ Append(text, e)[Len(text) + 1] = e
  BY AppendProperties, LenProperties DEF Text
<1>2. IsFiniteSet(old)
  <2>1. IsFiniteSet(1 .. Len(text))
    BY <1>1, FS_Interval
  <2> QED BY <1>1, <2>1, FS_Subset
<1>3. more = IF e = line THEN old \cup {Len(text) + 1} ELSE old
  BY <1>1
<1>4. Len(text) + 1 \notin old
  BY <1>1
<1> HIDE DEF old, more
<1>5. Cardinality(more) = IF e = line THEN Cardinality(old) + 1
                                      ELSE Cardinality(old)
  BY <1>2, <1>3, <1>4, FS_AddElement
<1>6. Cardinality(old) \in Nat
  BY <1>2, FS_CardinalityType
<1> QED BY <1>5, <1>6 DEF Lines, old, more

(* A line that is written, or that a full disk keeps from being written,   *)
(* comes to what the file will be, unless it is dropped.                   *)
LEMMA WritingALine ==
    ASSUME Types, NEW line \in {"session", "event", "packet"}, handle,
           Written(line) \/ NotWritten(line)
    PROVE  /\ file' \in Text /\ buffer' \in Text /\ dropped' \in Nat
           /\ \/ /\ whole' = Append(whole, line)
                 /\ dropped' = dropped
              \/ /\ line = "packet" /\ whole' = whole
                 /\ dropped' = dropped + 1
              \/ /\ line # "packet" /\ whole' = whole
                 /\ dropped' = dropped
           /\ Written(line) => whole' = Append(whole, line)
<1> USE DEF Types, Text
<1>0. /\ <<line>> \in Text /\ <<>> \in Text
      /\ Append(buffer, line) = buffer \o <<line>>
      /\ Append(buffer, line) \in Text
  BY AppendIsConcat, AppendProperties
<1>1. whole \in Text /\ Append(whole, line) = whole \o <<line>>
      /\ Append(whole, line) \in Text
  BY ConcatProperties, AppendIsConcat, AppendProperties DEF whole
<1>2. (file \o buffer) \o <<line>> = file \o (buffer \o <<line>>)
  BY <1>0, ConcatAssociative
<1>3. CASE Written(line)
  <2>1. file' = (file \o buffer) \o <<line>> /\ buffer' = <<>>
        /\ dropped' = dropped
    BY <1>3 DEF Written
  <2>2. file' = Append(whole, line)
    BY <1>1, <2>1 DEF whole
  <2>3. file' \o buffer' = file'
    BY <1>1, <2>1, <2>2, ConcatEmptySeq
  <2> QED BY <1>0, <1>1, <2>1, <2>2, <2>3 DEF whole
<1>4. CASE ~Written(line) /\ NotWritten(line)
  <2>1. CASE buffer' = Append(buffer, line) /\ UNCHANGED dropped
    <3>1. file' \o buffer' = Append(whole, line)
      BY <1>0, <1>1, <1>2, <1>4, <2>1 DEF NotWritten, whole
    <3> QED BY <1>0, <1>4, <2>1, <3>1 DEF NotWritten, whole
  <2>2. CASE line = "packet" /\ dropped' = dropped + 1 /\ UNCHANGED buffer
    BY <1>4, <2>2 DEF NotWritten, whole
  <2>3. CASE line # "packet" /\ dropped' = dropped /\ UNCHANGED buffer
    BY <1>4, <2>3 DEF NotWritten, whole
  <2> QED BY <1>4, <2>1, <2>2, <2>3 DEF NotWritten
<1> QED BY <1>3, <1>4

(* What the disk and the capture of a closed logger look like.             *)
LEMMA WritingNothing ==
    ASSUME NEW line, ~handle, Written(line) \/ NotWritten(line)
    PROVE  UNCHANGED <<file, buffer, dropped>>
BY DEF Written, NotWritten

(* What was parsed and loaded stays so.                                    *)
LEMMA SettingsStay ==
    ASSUME UNCHANGED program
    PROVE  /\ Settled' <=> Settled
           /\ Document' = Document /\ Named' = Named /\ Endings' = Endings
           /\ Refused' = Refused /\ Refusal' = Refusal /\ launch' = launch
           /\ config' = config
<1>1. launch' = launch /\ args' = args /\ config' = config
  BY DEF program
<1>2. Document' = Document /\ Named' = Named
  BY <1>1 DEF Document, Named
<1> QED BY <1>1, <1>2 DEF Settled, Endings, Refused, Refusal, SocketRaises

LEMMA BegunStays ==
    ASSUME UNCHANGED <<program, options>>
    PROVE  /\ Begun => Begun'
           /\ WritesCapture' = WritesCapture
           /\ gateway_set' = gateway_set /\ refusal' = refusal
<1>1. /\ command' = command /\ log_packets' = log_packets
      /\ gateway_set' = gateway_set /\ refusal' = refusal
  BY DEF options
<1> QED BY <1>1, SettingsStay DEF Begun, WritesCapture

LEMMA InitEstablishesSessionInv == ProgramInit => SessionInv
<1> SUFFICES ASSUME ProgramInit PROVE SessionInv
  OBVIOUS
<1>1. <<>> \in Text
  BY EmptySeq DEF Text
<1> QED BY <1>1 DEF ProgramInit, Idle, T!Init, SessionInv, Prelude, Session,
           Opened, Types, Untouched, WritesCapture

(* Before the command.                                                     *)
LEMMA PreludeKeepsSessionInv ==
    ASSUME ProgramInv, SessionInv,
           \/ ParseFails \/ Informs \/ NoCommand \/ Parse \/ Load \/ LoadFails
           \/ BeginSession \/ RunCommand
    PROVE  SessionInv'
<1> USE DEF Leave, Goto, Refusals
<1>0. /\ pc \in Prelude
      /\ UNCHANGED <<transport, logger>>
  BY DEF ParseFails, Informs, NoCommand, Parse, Load, LoadFails, BeginSession,
     RunCommand, Parses, Prelude
<1>1. Untouched' /\ Types'
  BY <1>0 DEF SessionInv, transport, logger, Untouched, Types
<1>2. CASE ParseFails \/ Informs \/ NoCommand \/ LoadFails \/ RunCommand
  <2>1. pc' = "ended" /\ UNCHANGED <<program, options>>
    BY <1>2 DEF ParseFails, Informs, NoCommand, LoadFails, RunCommand
  <2>2. ~WritesCapture'
    BY <1>0, <2>1, BegunStays DEF SessionInv
  <2>3. ASSUME ParseFails \/ Informs \/ NoCommand
        PROVE  EndedBefore'
    <3>1. \/ exit' = "2"
          \/ exit' = "0" /\ launch.command = "version"
      BY <2>3 DEF ParseFails, Informs, NoCommand
    <3> QED BY <1>1, <2>1, <2>2, <3>1, SettingsStay DEF EndedBefore
  <2>4. ASSUME LoadFails
        PROVE  EndedBefore'
    <3>1. \/ exit' = "2"
          \/ /\ exit' = "traceback"
             /\ LoadEnds(Document, Named) \notin {"ok", "ConfigError"}
      BY <2>4 DEF LoadFails
    <3> QED BY <1>1, <2>1, <2>2, <3>1, SettingsStay DEF EndedBefore
  <2>5. ASSUME RunCommand
        PROVE  EndedBefore'
    <3>1. /\ exit' \in Endings \cup {"1"} /\ launch.command \notin Sessions
          /\ Settled
      BY <2>5 DEF RunCommand, ProgramInv, ArgsInv, ConfigInv, Settled
    <3> QED BY <1>1, <2>1, <2>2, <3>1, SettingsStay DEF EndedBefore
  <2>6. EndedBefore'
    BY <1>2, <2>3, <2>4, <2>5
  <2> QED BY <1>1, <2>1, <2>6
          DEF SessionInv, Untouched, Prelude, Session, Opened
<1>3. CASE Parse \/ Load
  <2>1. pc' \in Prelude /\ exit' = exit /\ UNCHANGED options
    BY <1>3 DEF Parse, Load, Prelude
  <2>2. ~WritesCapture' /\ exit = "none"
    BY <1>0, <2>1 DEF SessionInv, WritesCapture, options
  <2> QED BY <1>1, <2>1, <2>2
          DEF SessionInv, Untouched, Prelude, Session, Opened
<1>4. CASE BeginSession
  <2>1. /\ pc' = "start" /\ exit' = exit /\ UNCHANGED program
        /\ launch.command \in Sessions
        /\ gateway_set' = (Missing(config) = {})
        /\ refusal' = Refusal /\ pc = "dispatch"
    BY <1>4 DEF BeginSession
  <2>2. Begun'
    <3>1. Settled
      BY <2>1 DEF ProgramInv, ArgsInv, ConfigInv, Settled
    <3> QED BY <2>1, <3>1, SettingsStay DEF Begun
  <2> QED BY <1>0, <1>1, <2>1, <2>2
          DEF SessionInv, Untouched, Prelude, Session, Opened
<1> QED BY <1>2, <1>3, <1>4

(* A line after the connect, or a chunk and its line.                      *)
LEMMA RecordedGrows ==
    ASSUME SessionInv, pc \in Opened, UNCHANGED <<options, handle>>,
           NEW line \in {"event", "packet"},
           Written(line) \/ NotWritten(line),
           packets' = IF line = "packet" THEN packets + 1 ELSE packets,
           received' = IF line = "packet" THEN received + 1 ELSE received
    PROVE  /\ Types' /\ handle' = WritesCapture'
           /\ ~handle' => whole' = <<>> /\ buffer' = <<>>
           /\ handle' =>
                /\ Lines(whole', "packet") + dropped' = received'
                /\ Lines(whole', "session") = 1
                /\ line = "packet" =>
                      Lines(whole', "event") = Lines(whole, "event")
                /\ line = "event" /\ Written(line) =>
                      Lines(whole', "event") = Lines(whole, "event") + 1
<1>0. Types /\ Recorded /\ WritesCapture' = WritesCapture
  BY DEF SessionInv, WritesCapture, options
<1>1. CASE handle
  <2>1. /\ file' \in Text /\ buffer' \in Text /\ dropped' \in Nat
        /\ \/ whole' = Append(whole, line) /\ dropped' = dropped
           \/ line = "packet" /\ whole' = whole /\ dropped' = dropped + 1
           \/ line # "packet" /\ whole' = whole /\ dropped' = dropped
        /\ Written(line) => whole' = Append(whole, line)
    BY <1>0, <1>1, WritingALine
  <2>2. whole \in Text
    BY <1>0, ConcatProperties DEF Types, Text, whole
  <2>3. \A l \in {"session", "event", "packet"} :
          /\ Lines(whole, l) \in Nat
          /\ Lines(Append(whole, line), l) =
               IF line = l THEN Lines(whole, l) + 1 ELSE Lines(whole, l)
    BY <2>2, LinesOfAppend
  <2>4. /\ handle' = handle /\ dropped \in Nat /\ received \in Nat
        /\ Lines(whole, "packet") + dropped = received
        /\ Lines(whole, "session") = 1
    BY <1>0, <1>1 DEF Recorded, Types
  <2>5. Types' /\ handle' = WritesCapture'
    BY <1>0, <2>1, <2>4 DEF Types, Recorded
  <2> DEFINE new == whole'
             more == Append(whole, line)
  <2>6. /\ \/ new = more /\ dropped' = dropped
           \/ line = "packet" /\ new = whole /\ dropped' = dropped + 1
           \/ line # "packet" /\ new = whole /\ dropped' = dropped
        /\ Written(line) => new = more
    BY <2>1
  <2>7. \A l \in {"session", "event", "packet"} :
          /\ Lines(whole, l) \in Nat
          /\ Lines(more, l) = IF line = l THEN Lines(whole, l) + 1
                                         ELSE Lines(whole, l)
    BY <2>3
  <2> HIDE DEF new, more
  <2>8. Lines(new, "packet") + dropped' = received'
    BY <2>4, <2>6, <2>7
  <2>9. /\ Lines(new, "session") = 1
        /\ line = "packet" => Lines(new, "event") = Lines(whole, "event")
        /\ line = "event" /\ Written(line) =>
              Lines(new, "event") = Lines(whole, "event") + 1
    BY <2>4, <2>6, <2>7
  <2>10. handle'
    BY <1>1, <2>4
  <2> QED BY <2>5, <2>8, <2>9, <2>10 DEF new
<1>2. CASE ~handle
  <2>1. UNCHANGED <<file, buffer, dropped>>
    BY <1>2, WritingNothing
  <2>2. whole' = whole
    BY <2>1 DEF whole
  <2> QED BY <1>0, <1>2, <2>1, <2>2 DEF Recorded, Types
<1> QED BY <1>1, <1>2

(* Up to the capture being open.                                           *)
LEMMA OpeningKeepsSessionInv ==
    ASSUME SessionInv, Refuse \/ Validate \/ OpenCapture, UNCHANGED program
    PROVE  SessionInv'
<1> USE DEF Leave, Goto, Refusals
<1>0. UNCHANGED <<program, options>> /\ pc \in {"start", "open"}
  BY DEF Refuse, Validate, OpenCapture
<1>1. /\ Begun /\ Untouched /\ exit = "none" /\ Types
      /\ Begun' /\ WritesCapture' = WritesCapture
      /\ gateway_set' = gateway_set /\ refusal' = refusal
  BY <1>0, BegunStays DEF SessionInv, Session
<1>2. CASE Refuse \/ Validate
  <2>1. Untouched' /\ Types'
    BY <1>1, <1>2 DEF Refuse, Validate, transport, logger, Untouched, Types
  <2> QED BY <1>1, <1>2, <2>1 DEF Refuse, Validate, SessionInv, EndedSession,
             Prelude, Session, Opened, Untouched
<1>3. CASE OpenCapture
  <2>0. pc = "open" /\ gateway_set
    BY <1>3 DEF OpenCapture, SessionInv, Session
  <2>1. /\ <<"session">> \in Text /\ <<>> \in Text
        /\ <<"session">> = Append(<<>>, "session")
        /\ <<"session">> \o <<>> = <<"session">> /\ <<>> \o <<>> = <<>>
    BY EmptySeq, ConcatEmptySeq DEF Text
  <2>2. CASE WritesCapture /\ disk_full
    <3>1. /\ pc' = "ended" /\ exit' = "traceback" /\ outcome' = "none"
          /\ Types'
      BY <1>1, <1>3, <2>1, <2>2
      DEF OpenCapture, Types, Untouched, transport
    <3>2. received' = 0 /\ Explained'
      BY <1>1, <1>3, <2>2 DEF OpenCapture, Untouched, transport, Explained
    <3> QED BY <1>1, <2>2, <3>1, <3>2
            DEF SessionInv, EndedSession, Prelude, Session, Opened
  <2>3. CASE ~(WritesCapture /\ disk_full)
    <3>1. /\ handle' = WritesCapture /\ buffer' = <<>> /\ dropped' = 0
          /\ file' = IF WritesCapture THEN <<"session">> ELSE <<>>
          /\ pc' = "connect" /\ exit' = "none" /\ received' = 0
          /\ packets' = 0 /\ outcome' = "none"
      BY <1>1, <1>3, <2>3 DEF OpenCapture, Untouched, transport
    <3>2. whole' = IF WritesCapture THEN <<"session">> ELSE <<>>
      BY <2>1, <3>1 DEF whole
    <3>3. /\ Lines(<<"session">>, "session") = 1
          /\ Lines(<<"session">>, "event") = 0
          /\ Lines(<<"session">>, "packet") = 0
      <4> DEFINE none == <<>>
      <4>1. none \in Text /\ \A l : Lines(none, l) = 0
        BY <2>1, LinesOfNothing
      <4> HIDE DEF none
      <4>2. /\ Lines(Append(none, "session"), "session") = 1
            /\ Lines(Append(none, "session"), "event") = 0
            /\ Lines(Append(none, "session"), "packet") = 0
        BY <4>1, LinesOfAppend
      <4> QED BY <2>1, <4>2 DEF none
    <3>4. Recorded'
      BY <1>1, <3>1, <3>2, <3>3 DEF Recorded
    <3>5. OnTheWay' /\ Types'
      BY <2>1, <3>1 DEF OnTheWay, Types, Opened, Session
    <3> QED BY <1>1, <2>0, <3>1, <3>4, <3>5 DEF SessionInv, Prelude, Session,
               Opened
  <2> QED BY <2>2, <2>3
<1> QED BY <1>2, <1>3

(* The capture as it stands.                                               *)
LEMMA RecordedStays ==
    ASSUME SessionInv, pc \in Opened, UNCHANGED <<options, logger, received>>
    PROVE  /\ Types' /\ handle' = WritesCapture'
           /\ ~handle' => whole' = <<>> /\ buffer' = <<>>
           /\ handle' =>
                /\ Lines(whole', "packet") + dropped' = received'
                /\ Lines(whole', "session") = 1
                /\ Lines(whole', "event") = Lines(whole, "event")
<1>0. Types /\ Recorded /\ WritesCapture' = WritesCapture
  BY DEF SessionInv, WritesCapture, options
<1>1. UNCHANGED <<handle, file, buffer, packets, dropped>> /\ whole' = whole
  BY DEF logger, whole
<1> QED BY <1>0, <1>1 DEF Types, Recorded

(* A step between opening and closing the capture need only be seen to     *)
(* keep what changes along the way.                                        *)
LEMMA RunningOn ==
    ASSUME SessionInv, pc \in Opened, UNCHANGED <<program, options>>,
           pc' \in Opened, Types', Recorded', OnTheWay',
           outcome' \in Refusals => outcome' = refusal
    PROVE  SessionInv'
<1>1. Begun /\ Begun' /\ gateway_set'
  BY BegunStays DEF SessionInv, Opened, Session
<1>2. refusal' = refusal
  BY BegunStays
<1> QED BY <1>1, <1>2 DEF SessionInv, Opened, Session, Prelude

(* What the first refused setting raises.                                  *)
LEMMA RefusalOfRefused ==
    /\ Refused # {} <=> Refusal # "none"
    /\ Refusal \in Refusals \cup {"none"}
<1>1. /\ Refused \subseteq {"connect_timeout", "host", "port", "receive_timeout"}
      /\ \A key \in {"connect_timeout", "host", "port", "receive_timeout"} :
            key \in Refused <=> SocketRaises(key) # "none"
  BY DEF Refused
<1>2. \A key \in {"connect_timeout", "host", "port", "receive_timeout"} :
         SocketRaises(key) \in Refusals \cup {"none"}
  BY DEF SocketRaises, TimeoutRaises, Refusals
<1> QED BY <1>1, <1>2 DEF Refusal

(* Connecting.                                                             *)
LEMMA ConnectingKeepsSessionInv ==
    ASSUME SessionInv, UNCHANGED program,
           \/ ConnectBegins \/ Connected \/ ConnectFails \/ ConnectEscapes
           \/ RecordLevel
    PROVE  SessionInv'
<1> USE DEF Leave, Goto, Refusals
<1>0. UNCHANGED <<program, options>> /\ pc \in {"connect", "level"}
  BY DEF ConnectBegins, Connected, ConnectFails, ConnectEscapes, RecordLevel
<1>1. /\ pc \in Opened /\ Recorded /\ OnTheWay /\ exit = "none"
      /\ WritesCapture' = WritesCapture /\ refusal' = refusal
      /\ handle => Lines(whole, "event") = 0
      /\ handle = WritesCapture
  BY <1>0, BegunStays DEF SessionInv, Opened, Session, Recorded, OnTheWay
<1>2. CASE ConnectBegins
  <2>1. /\ pc' = "connect" /\ exit' = exit /\ outcome' = "pending"
        /\ UNCHANGED <<options, logger, received>>
    BY <1>2 DEF ConnectBegins, T!Opening, T!Quiet
  <2>2. pc = "connect"
    BY <1>2 DEF ConnectBegins
  <2>3. Types' /\ Recorded'
    BY <1>1, <2>1, RecordedStays DEF Recorded, logger
  <2>4. OnTheWay'
    BY <1>1, <2>1 DEF OnTheWay, Opened, Session
  <2> QED BY <1>0, <1>1, <2>1, <2>3, <2>4, RunningOn DEF Opened, Session
<1>3. CASE Connected
  <2>1. /\ pc' = "level" /\ exit' = exit /\ outcome' = "ok"
        /\ link' = "connected" /\ refusal = "none"
        /\ UNCHANGED <<options, logger, received>>
    BY <1>3 DEF Connected, T!Opened, T!Quiet
  <2>3. Types' /\ Recorded'
    BY <1>1, <2>1, RecordedStays DEF Recorded, logger
  <2>4. OnTheWay'
    BY <1>1, <2>1 DEF OnTheWay, Opened, Session
  <2> QED BY <1>0, <1>1, <2>1, <2>3, <2>4, RunningOn DEF Opened, Session
<1>4. CASE ConnectFails
  <2>1. /\ pc' = "close" /\ outcome' \in T!OpenErrors
        /\ UNCHANGED <<options, handle, received, packets>>
        /\ \/ exit' = "1" /\ UNCHANGED <<buffer, file, dropped>>
           \/ exit' = "1" /\ Written("event")
           \/ exit' = "traceback" /\ NotWritten("event")
    BY <1>4 DEF ConnectFails, T!OpenFailed, T!Quiet
  <2>2. Types' /\ Recorded'
    <3>1. CASE UNCHANGED <<buffer, file, dropped>>
      <4>1. UNCHANGED <<options, logger, received>>
        BY <2>1, <3>1 DEF logger
      <4> QED BY <1>1, <2>1, <4>1, RecordedStays DEF Recorded
    <3>2. CASE Written("event") \/ NotWritten("event")
      BY <1>1, <2>1, <3>2, RecordedGrows DEF Recorded
    <3> QED BY <2>1, <3>1, <3>2
  <2>3. OnTheWay'
    <3>1. exit' = "traceback" => WritesCapture
      BY <1>1, <2>1 DEF NotWritten
    <3> QED BY <1>0, <1>1, <2>1, <3>1
            DEF OnTheWay, Opened, Session, T!OpenErrors, Explained
  <2>4. outcome' \notin Refusals
    BY <2>1 DEF T!OpenErrors, Refusals
  <2> QED BY <1>0, <1>1, <2>1, <2>2, <2>3, <2>4, RunningOn DEF Opened, Session
<1>5. CASE ConnectEscapes
  <2>1. /\ pc' = "close"
        /\ outcome' \in {"OSError", "KeyboardInterrupt", refusal} \ {"none"}
        /\ exit' = IF outcome' = "KeyboardInterrupt" THEN "1" ELSE "traceback"
        /\ UNCHANGED <<options, logger, received>>
    BY <1>5 DEF ConnectEscapes, T!Escaped, T!Quiet
  <2>2. Types' /\ Recorded'
    BY <1>1, <2>1, RecordedStays DEF Recorded, logger
  <2>3. OnTheWay'
    <3>1. refusal \in Refusals \cup {"none"}
      BY <1>1, RefusalOfRefused DEF SessionInv, Begun, Opened, Session
    <3> QED BY <1>0, <1>1, <2>1, <3>1 DEF OnTheWay, Opened, Session, Explained
  <2> QED BY <1>0, <1>1, <2>1, <2>2, <2>3, RunningOn DEF Opened, Session
<1>6. CASE RecordLevel
  <2>1. /\ pc = "level" /\ UNCHANGED <<options, transport, handle, packets>>
        /\ \/ Written("event") /\ pc' = "listen" /\ exit' = exit
           \/ NotWritten("event") /\ pc' = "close" /\ exit' = "traceback"
    BY <1>6 DEF RecordLevel
  <2>2. UNCHANGED <<received, link, outcome>>
    BY <2>1 DEF transport
  <2>3. Types' /\ Recorded'
    BY <1>1, <2>1, <2>2, RecordedGrows DEF Recorded
  <2>4. OnTheWay'
    <3>1. exit' = "traceback" => WritesCapture
      BY <1>1, <2>1 DEF NotWritten
    <3> QED BY <1>1, <2>1, <2>2, <3>1
            DEF OnTheWay, Opened, Session, Explained
  <2> QED BY <1>0, <1>1, <2>1, <2>2, <2>3, <2>4, RunningOn
          DEF Opened, Session, SessionInv
<1> QED BY <1>2, <1>3, <1>4, <1>5, <1>6

(* Listening, and disconnecting after it.                                  *)
LEMMA ListeningKeepsSessionInv ==
    ASSUME SessionInv, UNCHANGED program,
           \/ Loop \/ Read \/ ReadTimesOut \/ ReadBreaks \/ InterruptedRead
           \/ Disconnect
    PROVE  SessionInv'
<1> USE DEF Leave, Goto, Refusals
<1>0. /\ UNCHANGED <<program, options>> /\ pc \in {"listen", "read", "disconnect"}
  BY DEF Loop, Read, ReadTimesOut, ReadBreaks, InterruptedRead, Disconnect
<1>1. /\ pc \in Opened /\ Recorded /\ OnTheWay
      /\ WritesCapture' = WritesCapture /\ refusal' = refusal
      /\ handle => Lines(whole, "event") = 1
      /\ handle = WritesCapture
  BY <1>0, BegunStays DEF SessionInv, Opened, Session, Recorded
<1>2. CASE Read
  <2>1. /\ pc' = "listen" /\ pc = "read" /\ outcome' = "ok"
        /\ UNCHANGED <<options, handle, link, exit>>
        /\ packets' = packets + 1 /\ received' = received + 1
        /\ Written("packet") \/ NotWritten("packet")
    BY <1>2 DEF Read, T!Delivered
  <2>2. Types' /\ Recorded'
    BY <1>1, <2>1, RecordedGrows DEF Recorded
  <2>3. OnTheWay'
    BY <1>1, <2>1 DEF OnTheWay, Opened, Session
  <2> QED BY <1>0, <1>1, <2>1, <2>2, <2>3, RunningOn DEF Opened, Session
<1>3. ASSUME Loop \/ ReadTimesOut \/ ReadBreaks \/ InterruptedRead \/ Disconnect
      PROVE  SessionInv'
  <2>1. UNCHANGED <<options, logger, received>>
    BY <1>3 DEF Loop, ReadTimesOut, ReadBreaks, InterruptedRead, Disconnect,
       T!TimedOut, T!Lost, T!Escaped, T!Closed, T!Quiet, transport
  <2>2. pc' \in {"listen", "read", "disconnect", "close"}
    BY <1>3 DEF Loop, ReadTimesOut, ReadBreaks, InterruptedRead, Disconnect
  <2>3. Types' /\ Recorded'
    BY <1>1, <2>1, <2>2, RecordedStays DEF Recorded, logger
  <2>4. /\ OnTheWay'
        /\ outcome' \in Refusals => outcome' = outcome
    <3> USE DEF OnTheWay, Opened, Session
    <3>1. CASE Loop
      BY <1>1, <3>1 DEF Loop, transport
    <3>2. CASE ReadTimesOut
      BY <1>1, <3>2 DEF ReadTimesOut, T!TimedOut
    <3>3. CASE ReadBreaks
      BY <1>1, <3>3 DEF ReadBreaks, T!Lost
    <3>4. CASE InterruptedRead
      BY <1>1, <3>4 DEF InterruptedRead
    <3>5. CASE Disconnect
      BY <1>1, <3>5 DEF Disconnect, T!Closed
    <3> QED BY <1>3, <3>1, <3>2, <3>3, <3>4, <3>5
  <2> QED BY <1>0, <1>1, <2>2, <2>3, <2>4, RunningOn
          DEF Opened, Session, SessionInv
<1> QED BY <1>2, <1>3

(* The end of the with statement.                                          *)
LEMMA ClosingKeepsSessionInv ==
    ASSUME SessionInv, UNCHANGED program, CloseCapture
    PROVE  SessionInv'
<1> USE DEF Leave, Goto, Refusals
<1>1. /\ UNCHANGED <<program, options>> /\ pc = "close" /\ pc' = "ended"
      /\ UNCHANGED <<transport, packets, dropped, lost>>
  BY DEF CloseCapture
<1>2. /\ Recorded /\ OnTheWay /\ Begun' /\ gateway_set' /\ Types
      /\ WritesCapture' = WritesCapture /\ refusal' = refusal
      /\ UNCHANGED <<link, outcome, received>>
  BY <1>1, BegunStays DEF SessionInv, Opened, Session, transport
<1>3. CASE disk_full /\ buffer # <<>>
  <2>1. exit' = "traceback" /\ UNCHANGED <<handle, buffer, file>>
    BY <1>3 DEF CloseCapture
  <2>2. WritesCapture
    BY <1>2, <1>3 DEF Recorded
  <2>3. EndedSession'
    BY <1>1, <1>2, <2>1, <2>2 DEF EndedSession, OnTheWay, Explained
  <2>4. Types'
    BY <1>1, <1>2, <2>1 DEF Types
  <2> QED BY <1>1, <1>2, <2>3, <2>4
          DEF SessionInv, Prelude, Session, Opened
<1>4. CASE ~(disk_full /\ buffer # <<>>)
  <2>1. exit' = exit /\ handle' = FALSE /\ buffer' = <<>> /\ file' = whole
    BY <1>4 DEF CloseCapture, whole
  <2>2. Types'
    BY <1>1, <1>2, <2>1, ConcatProperties, EmptySeq DEF Types, Text, whole
  <2>3. EndedSession'
    <3>1. CASE exit = "traceback"
      BY <1>2, <1>1, <2>1, <3>1 DEF EndedSession, OnTheWay, Explained
    <3>2. CASE exit # "traceback"
      <4>1. exit \in {"0", "1"}
        BY <1>1, <1>2, <3>2 DEF OnTheWay
      <4>2. WritesCapture => Lines(whole, "packet") + dropped = received
        BY <1>2 DEF Recorded
      <4>3. exit = "0" =>
              /\ outcome # "none"
              /\ link = "disconnected" \/ (link = "error" /\ lost)
              /\ WritesCapture => /\ Lines(whole, "session") = 1
                                  /\ Lines(whole, "event") = 1
        BY <1>1, <1>2 DEF Recorded, OnTheWay, Opened, Session
      <4>4. Count("packet")' = Lines(whole, "packet")
            /\ Count("session")' = Lines(whole, "session")
            /\ Count("event")' = Lines(whole, "event")
        BY <2>1 DEF Count, Lines
      <4>5. refusal # "none" => exit # "0" /\ received = 0
        BY <1>1, <1>2 DEF OnTheWay
      <4> QED BY <1>1, <1>2, <2>1, <4>1, <4>2, <4>3, <4>4, <4>5
              DEF EndedSession
    <3> QED BY <3>1, <3>2
  <2> QED BY <1>1, <1>2, <2>2, <2>3
          DEF SessionInv, Prelude, Session, Opened
<1> QED BY <1>3, <1>4

LEMMA StepKeepsSessionInv ==
    ASSUME ProgramInv, SessionInv, [ProgramNext]_all
    PROVE  SessionInv'
<1>1. CASE \/ ParseFails \/ Informs \/ NoCommand \/ Parse \/ Load \/ LoadFails
           \/ BeginSession \/ RunCommand
  BY <1>1, PreludeKeepsSessionInv
<1>2. CASE CommandSteps /\ UNCHANGED program
  BY <1>2, OpeningKeepsSessionInv, ConnectingKeepsSessionInv,
     ListeningKeepsSessionInv, ClosingKeepsSessionInv DEF CommandSteps
<1>3. CASE \/ (Tick \/ DiskFills) /\ UNCHANGED program
           \/ UNCHANGED all
  <2>1. UNCHANGED <<program, options, pc, transport, logger, exit, lost>>
    BY <1>3 DEF Tick, DiskFills, all, vars
  <2>2. /\ UNCHANGED <<link, received, outcome, handle, buffer, file, packets,
                       dropped>>
        /\ whole' = whole
    BY <2>1 DEF transport, logger, whole
  <2>3. Begun' = Begun /\ EndedBefore' = EndedBefore
    <3>1. UNCHANGED <<launch, args, config, command, gateway_set, log_packets,
                      refusal>>
      BY <2>1 DEF program, options
    <3>2. Settled' = Settled /\ Refusal' = Refusal
          /\ Document' = Document /\ Named' = Named /\ Endings' = Endings
      BY <3>1 DEF Settled, Refused, Refusal, SocketRaises, Document,
         Named, Endings
    <3>3. Untouched' = Untouched /\ WritesCapture' = WritesCapture
      BY <2>2, <3>1 DEF Untouched, WritesCapture
    <3> QED BY <2>1, <3>1, <3>2, <3>3 DEF Begun, EndedBefore
  <2>4. WritesCapture' = WritesCapture /\ UNCHANGED <<gateway_set, refusal>>
    BY <2>1 DEF WritesCapture, options
  <2>5. EndedSession' = EndedSession
    BY <2>1, <2>2, <2>3, <2>4 DEF EndedSession, Untouched, Count, Explained
  <2>6. Recorded' = Recorded /\ OnTheWay' = OnTheWay
    BY <2>1, <2>2, <2>4 DEF Recorded, OnTheWay, Explained
  <2>7. Types' = Types /\ Untouched' = Untouched
    BY <2>2 DEF Types, Untouched
  <2> QED BY <2>1, <2>2, <2>3, <2>4, <2>5, <2>6, <2>7 DEF SessionInv
<1> QED BY <1>1, <1>2, <1>3 DEF ProgramNext, ProgramSteps

(* Capture, link, exit code and configuration agree at every point of a    *)
(* session, and say which end a launch came to.                            *)
THEOREM SessionInvariant == ProgramSpec => []SessionInv
<1>1. ProgramInv /\ SessionInv /\ [ProgramNext]_all => SessionInv'
  BY StepKeepsSessionInv
<1> QED BY <1>1, InitEstablishesSessionInv, ProgramInvariant, PTL
        DEF ProgramSpec

(* A command that exits 0 or 1 leaves a closed capture with every chunk    *)
(* that arrived, but for the lines failed writes took along.               *)
THEOREM CapturesAreComplete == ProgramSpec => []CaptureCompleteAtExit
<1>1. SessionInv => CaptureCompleteAtExit
  BY DEF SessionInv, CaptureCompleteAtExit, EndedBefore, EndedSession, Types
<1> QED BY <1>1, SessionInvariant, PTL

(* A gateway is what a flag or the file names.                             *)
LEMMA GatewayOf ==
    ASSUME Settled
    PROVE  Missing(config) = {} <=>
             \A key \in {"host", "port"} :
                \/ args[key] # Absent
                \/ ~Named /\ Loaded(launch.here)[key] # Absent
                \/ Named /\ Loaded(launch.named)[key] # Absent
<1> DEFINE given == [k \in DOMAIN Overrides |-> args[Overrides[k]]]
<1>1. ASSUME NEW key \in {"host", "port"}
      PROVE  config[key] # Absent <=>
                \/ args[key] # Absent
                \/ ~Named /\ Loaded(launch.here)[key] # Absent
                \/ Named /\ Loaded(launch.named)[key] # Absent
  <2>1. key \in Keys /\ key \in DOMAIN Overrides /\ Overrides[key] = key
    BY DEF Keys, EnetKeys, Overrides
  <2>2. DOMAIN given = DOMAIN Overrides /\ given[key] = args[key]
    BY <2>1
  <2>3. config = with_overrides(Loaded(Document), given)
    BY DEF Settled
  <2> HIDE DEF given
  <2>4. config[key] = IF args[key] # Absent THEN args[key]
                                            ELSE Loaded(Document)[key]
    BY <2>1, <2>2, <2>3 DEF with_overrides
  <2> QED BY <2>4 DEF Document
<1>2. Missing(config) = {} <=> \A key \in {"host", "port"} : config[key] # Absent
  BY DEF Missing
<1> QED BY <1>1, <1>2

(* How the commands that are one step end.                                 *)
LEMMA EndingsOf ==
    ASSUME Settled, launch.command \notin Sessions, exit \in Endings \cup {"1"}
    PROVE  exit = "3" => launch.command \in Unverified
<1>1. /\ launch.command \in Commands \ Sessions
      /\ launch.command \notin {"version", "none"}
  BY LaunchAssumption DEF Settled
<1>2. CASE launch.command = "demo"
  BY <1>2 DEF Endings, Unverified
<1>3. CASE launch.command = "vehicle_info"
  BY <1>3 DEF Endings, Unverified
<1>4. CASE launch.command = "network_interfaces"
  BY <1>4 DEF Endings, Unverified
<1>5. CASE launch.command = "network_select"
  BY <1>5 DEF Endings, Unverified
<1>6. CASE launch.command = "export"
  BY <1>6 DEF Endings, Unverified
<1> QED BY <1>1, <1>2, <1>3, <1>4, <1>5, <1>6 DEF Commands

(* What the exit code promises is so: 2 and 3 touched nothing, 3 is for    *)
(* what is unverified or has no gateway, no command runs on a file that    *)
(* does not load, and a session that exits 0 was connected and recorded    *)
(* it; if its link failed later, that was a loss the user was told of.     *)
THEOREM ExitCodesAreTrue == ProgramSpec => []ExitCodeTellsTruth
<1>1. ASSUME SessionInv, pc = "ended"
      PROVE  ExitCodeTellsTruth
  <2> DEFINE session == launch.command \in Sessions
             gateway == \A key \in {"host", "port"} :
                           \/ args[key] # Absent
                           \/ ~Named /\ Loaded(launch.here)[key] # Absent
                           \/ Named /\ Loaded(launch.named)[key] # Absent
  <2> USE DEF ExitCodeTellsTruth
  <2>1. CASE EndedBefore
    <3>1. file = <<>> /\ ~handle /\ outcome = "none"
      BY <2>1 DEF EndedBefore, Untouched
    <3>2. exit = "3" => launch.command \in Unverified
      <4>1. CASE /\ Settled /\ launch.command \notin Sessions
                 /\ exit \in Endings \cup {"1"}
        BY <4>1, EndingsOf
      <4> QED BY <2>1, <4>1 DEF EndedBefore
    <3>3. session => exit \notin {"0", "1"}
      BY <2>1 DEF EndedBefore, Sessions
    <3>4. exit \in {"0", "1", "3"} /\ launch.command # "version" =>
            LoadEnds(Document, Named) = "ok"
      BY <2>1 DEF EndedBefore, Settled
    <3> QED BY <1>1, <3>1, <3>2, <3>3, <3>4
  <2>2. CASE EndedSession
    <3>1. Settled /\ session /\ gateway_set = (Missing(config) = {})
      BY <2>2 DEF EndedSession, Begun
    <3>2. gateway_set <=> gateway
      BY <3>1, GatewayOf
    <3>3. exit \in {"2", "3"} => file = <<>> /\ ~handle /\ outcome = "none"
      BY <2>2 DEF EndedSession, Untouched
    <3>4. exit = "3" => ~gateway_set
      BY <2>2 DEF EndedSession
    <3>5. ~gateway_set => exit \notin {"0", "1"}
      BY <2>2 DEF EndedSession
    <3>6. LoadEnds(Document, Named) = "ok"
      BY <3>1 DEF Settled
    <3>7. exit = "0" =>
            /\ outcome # "none" /\ link # "connecting"
            /\ WritesCapture => Count("session") = 1 /\ Count("event") = 1
            /\ link = "error" => lost
      BY <2>2 DEF EndedSession
    <3> HIDE DEF session, gateway
    <3>8. /\ exit = "3" => session /\ ~gateway
          /\ session /\ ~gateway => exit \notin {"0", "1"}
      BY <3>1, <3>2, <3>4, <3>5
    <3> QED BY <1>1, <3>3, <3>6, <3>7, <3>8 DEF session, gateway
  <2> QED BY <1>1, <2>1, <2>2 DEF SessionInv
<1>2. SessionInv => ExitCodeTellsTruth
  BY <1>1 DEF ExitCodeTellsTruth
<1> QED BY <1>2, SessionInvariant, PTL

-----------------------------------------------------------------------------
(* Settings the socket refuses.                                            *)

(* A flag is not checked, and no file is checked for these.                *)
Unchecked(key) ==
    \/ key \in DOMAIN Overrides /\ args[Overrides[key]] # Absent
    \/ config[key].kind \in {"nan", "inf", "unencodable"}
    \/ config[key].n > MaxTimeout

(* What a file that loads says of a key passed its check.                  *)
LEMMA LoadedPassed ==
    ASSUME Settled, NEW key \in Keys
    PROVE  \/ Loaded(Document)[key] = Defaults[key]
           \/ /\ Loaded(Document)[key] = Checked(key, Document.values[key])
              /\ Loaded(Document)[key] \notin Raised
<1>1. LoadEnds(Document, Named) = "ok"
  BY DEF Settled
<1>2. CASE Document.file = "absent"
  BY <1>2 DEF Loaded
<1>3. CASE Document.file # "absent"
  <2>1. from_dict(Document)[key] \notin Raised
    BY <1>1, <1>3, LoadedKeysPass
  <2>2. from_dict(Document)[key] = IF Document.values[key] = Absent
                                   THEN Defaults[key]
                                   ELSE Checked(key, Document.values[key])
    BY DEF from_dict
  <2> QED BY <1>3, <2>1, <2>2 DEF Loaded
<1> QED BY <1>2, <1>3

LEMMA PortsAreNumbers == MaxPort \in Nat
BY DEF MaxPort

(* A port of a file is one; a negative timeout is none of a file.          *)
LEMMA LoadedPort ==
    ASSUME Settled
    PROVE  Loaded(Document)["port"].n \in 0 .. MaxPort
<1>1. "port" \in Keys /\ Defaults["port"].n = 0
  BY DEF Keys, EnetKeys, Defaults, Absent, V
<1>2. CASE Loaded(Document)["port"] = Checked("port", Document.values["port"])
           /\ Loaded(Document)["port"] \notin Raised
  <2> DEFINE value == Document.values["port"]
  <2>1. Loaded(Document)["port"] = _as_optional_port(value)
    BY <1>2 DEF Checked
  <2> HIDE DEF value
  <2>2. CASE value.kind \in Unset
    BY <2>1, <2>2, PortsAreNumbers DEF _as_optional_port, Absent, V
  <2>3. CASE /\ value.kind \notin Unset
             /\ value.kind \in {"integer", "digits"} /\ value.n \in 1 .. MaxPort
    <3>1. Loaded(Document)["port"] = V("integer", value.n)
      BY <2>1, <2>3 DEF _as_optional_port
    <3> QED BY <2>3, <3>1, PortsAreNumbers DEF V
  <2>4. CASE /\ value.kind \notin Unset
             /\ ~(value.kind \in {"integer", "digits"} /\ value.n \in 1 .. MaxPort)
    BY <1>2, <2>1, <2>4 DEF _as_optional_port, Raised
  <2> QED BY <2>2, <2>3, <2>4
<1> QED BY <1>1, <1>2, LoadedPassed, PortsAreNumbers

LEMMA LoadedTimeout ==
    ASSUME Settled, NEW key \in {"connect_timeout", "receive_timeout"},
           Loaded(Document)[key].kind \notin {"nan", "inf"}
    PROVE  Loaded(Document)[key].n \in Nat
<1> DEFINE value == Document.values[key]
<1>1. key \in Keys /\ Defaults[key].n \in Nat
  BY DEF Keys, EnetKeys, Defaults, V
<1>2. CASE Loaded(Document)[key] = Checked(key, value)
           /\ Loaded(Document)[key] \notin Raised
  <2>1. Loaded(Document)[key] = _as_positive_float(value, FALSE)
    BY <1>2 DEF Checked
  <2>2. value.n \in Int
    BY <1>1, LaunchAssumption DEF Document, Settled
  <2> HIDE DEF value
  <2>3. CASE value.kind = "huge"
    BY <1>2, <2>1, <2>3 DEF _as_positive_float, Raised
  <2>4. CASE value.kind \in {"nan", "inf"}
    BY <2>1, <2>4 DEF _as_positive_float
  <2>5. CASE value.kind \in {"integer", "float"} /\ value.n > 0
    <3>1. Loaded(Document)[key] = V("float", value.n)
      BY <2>1, <2>5 DEF _as_positive_float
    <3> QED BY <2>2, <2>5, <3>1 DEF V
  <2>6. CASE /\ value.kind \notin {"huge", "nan", "inf"}
             /\ ~(value.kind \in {"integer", "float"} /\ value.n > 0)
    BY <1>2, <2>1, <2>6 DEF _as_positive_float, Raised
  <2> QED BY <2>3, <2>4, <2>5, <2>6
<1> QED BY <1>1, <1>2, LoadedPassed

(* What a file that loads says of a port or a timeout, the socket refuses  *)
(* only if it is no number of seconds it counts to.                        *)
LEMMA RefusedIsUnchecked ==
    ASSUME Settled, NEW key \in Refused
    PROVE  Unchecked(key)
<1>0. /\ key \in {"connect_timeout", "host", "port", "receive_timeout"}
      /\ key \in Keys /\ SocketRaises(key) # "none"
  BY DEF Refused, Keys, EnetKeys
<1>1. SUFFICES ASSUME key \in DOMAIN Overrides => args[Overrides[key]] = Absent
               PROVE  Unchecked(key)
  BY DEF Unchecked
<1>2. config[key] = Loaded(Document)[key]
  <2> DEFINE given == [k \in DOMAIN Overrides |-> args[Overrides[k]]]
  <2>1. /\ config = with_overrides(Loaded(Document), given)
        /\ DOMAIN given = DOMAIN Overrides
        /\ key \in DOMAIN Overrides => given[key] = args[Overrides[key]]
    BY DEF Settled
  <2> HIDE DEF given
  <2> QED BY <1>0, <1>1, <2>1 DEF with_overrides
<1>3. CASE key = "host"
  BY <1>0, <1>3 DEF SocketRaises, Unchecked
<1>4. CASE key = "port"
  BY <1>0, <1>2, <1>4, LoadedPort DEF SocketRaises
<1>5. CASE key \in {"connect_timeout", "receive_timeout"}
  <2>1. TimeoutRaises(config[key]) # "none"
    BY <1>0, <1>5 DEF SocketRaises
  <2>2. CASE config[key].kind \in {"nan", "inf"}
    BY <2>2 DEF Unchecked
  <2>3. CASE config[key].kind \notin {"nan", "inf"}
    <3>1. config[key].n \in Nat
      BY <1>2, <1>5, <2>3, LoadedTimeout
    <3> QED BY <2>1, <2>3, <3>1, TimeoutAssumption DEF TimeoutRaises,
               Unchecked
  <2> QED BY <2>2, <2>3
<1> QED BY <1>0, <1>3, <1>4, <1>5

(* A session whose settings the socket refuses ends without data and not   *)
(* as a success; the setting was a flag's, or one a file is not checked    *)
(* for; and what else ends a session in a traceback is a file that does    *)
(* not load, the disk under a capture, or an OSError of the socket.        *)
THEOREM RefusalsAreExplained == ProgramSpec => []RefusedSettings
<1>1. ASSUME SessionInv, pc = "ended", launch.command \in Sessions
      PROVE  RefusedSettings
  <2> USE DEF RefusedSettings
  <2>1. CASE EndedBefore
    <3>1. /\ outcome = "none" /\ received = 0 /\ launch.command # "version"
          /\ exit # "0"
      BY <1>1, <2>1 DEF EndedBefore, Untouched, Sessions
    <3>2. outcome \notin Refusals
      BY <3>1 DEF Refusals
    <3>3. exit = "traceback" =>
            LoadEnds(Document, Named) \notin {"ok", "ConfigError"}
      BY <1>1, <2>1 DEF EndedBefore
    <3> QED BY <3>1, <3>2, <3>3
  <2>2. CASE EndedSession
    <3>1. Settled /\ refusal = Refusal
      BY <2>2 DEF EndedSession, Begun
    <3>2. Refused # {} => exit # "0" /\ received = 0
      BY <2>2, <3>1, RefusalOfRefused DEF EndedSession
    <3>3. ASSUME outcome \in Refusals
          PROVE  \E key \in Refused : Unchecked(key)
      <4>1. outcome = refusal /\ outcome # "none"
        BY <1>1, <3>3 DEF SessionInv, Refusals
      <4>2. PICK key \in Refused : TRUE
        BY <3>1, <4>1, RefusalOfRefused
      <4> QED BY <3>1, <4>2, RefusedIsUnchecked
    <3>4. exit = "traceback" => Explained
      BY <2>2 DEF EndedSession
    <3>5. exit = "traceback" /\ outcome \notin Refusals =>
            WritesCapture \/ outcome = "OSError"
      BY <3>4 DEF Explained
    <3> QED BY <3>2, <3>3, <3>5 DEF Unchecked
  <2> QED BY <1>1, <2>1, <2>2 DEF SessionInv
<1>2. SessionInv => RefusedSettings
  BY <1>1 DEF RefusedSettings
<1> QED BY <1>2, SessionInvariant, PTL
=============================================================================
