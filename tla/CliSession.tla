----------------------------- MODULE CliSession -----------------------------
(***************************************************************************)
(* The commands `connect' and `capture' of the command line (cli.py): a    *)
(* transport, opened, listened to and closed, with a DiagnosticLogger as   *)
(* its observer, and the exit code the shell sees.                         *)
(*                                                                         *)
(* The transport is any that keeps the contract of its base class: its     *)
(* steps are the actions of ByteTransport, which ENETTransport implements. *)
(* The logger is seen line by line; what a crash leaves of a line is the   *)
(* matter of CaptureLog.  The disk may be full for a while.                *)
(*                                                                         *)
(* pc walks through a command:                                             *)
(*   start, open      validation; the with statement opens the capture     *)
(*   connect, level   transport.connect(); the level goes to the capture   *)
(*   listen, read     head of the loop of _passive_listen; its receive()   *)
(*   disconnect       the finally around the listening                     *)
(*   close, ended     the end of the with statement; the process is gone   *)
(***************************************************************************)
EXTENDS Integers, Sequences, FiniteSets

CONSTANTS
    Durations,  \* --listen, --duration, in polls
    MaxBytes    \* bound: chunks received per command

ASSUME SessionAssumption == Durations \subseteq Int /\ MaxBytes \in Nat

VARIABLES
    command, gateway_set, log_packets, duration,    \* options
    refusal,            \* what the socket raises of a setting, or "none"
    pc, left,           \* where the command is; time until its deadline
    link, sent, received, outcome,      \* the transport
    handle, buffer, file, packets,      \* the logger and its file
    exit,               \* exit code, decided before the way out is done
    disk_full,          \* the world
    lost, dropped       \* history: a read met the loss of the link; packet
                        \* lines a failed write took along

options   == <<command, gateway_set, log_packets, duration, refusal>>
transport == <<link, sent, received, outcome>>
logger    == <<handle, buffer, file, packets, dropped>>
vars      == <<options, pc, left, transport, logger, exit, disk_full, lost>>

T == INSTANCE ByteTransport

ExitCodes == {"none", "0", "1", "2", "3", "traceback"}
Refusals == {"OverflowError", "TypeError", "ValueError"}

Idle ==
    /\ T!Init
    /\ handle = FALSE /\ buffer = <<>> /\ file = <<>>
    /\ packets = 0 /\ dropped = 0
    /\ exit = "none" /\ disk_full = FALSE /\ lost = FALSE

Init ==
    /\ command \in {"connect", "capture"} /\ gateway_set \in BOOLEAN
    /\ log_packets \in BOOLEAN /\ refusal \in Refusals \cup {"none"}
    /\ duration \in Durations /\ left = duration
    /\ pc = "start" /\ Idle

-----------------------------------------------------------------------------
(* The logger.                                                             *)

(* _write_line that succeeds: the line, and what earlier failures left.    *)
Written(line) ==
    /\ ~handle \/ ~disk_full
    /\ file' = IF handle THEN file \o buffer \o <<line>> ELSE file
    /\ buffer' = IF handle THEN <<>> ELSE buffer
    /\ UNCHANGED dropped

(* _write_line that raises OSError; a line the buffer of the handle has no *)
(* room for is lost by it.                                                 *)
NotWritten(line) ==
    /\ handle /\ disk_full
    /\ UNCHANGED file
    /\ \/ buffer' = Append(buffer, line) /\ UNCHANGED dropped
       \/ /\ line # "session" /\ UNCHANGED buffer
          /\ dropped' = IF line = "packet" THEN dropped + 1 ELSE dropped

Lines(text, line) == Cardinality({i \in DOMAIN text : text[i] = line})
Count(line) == Lines(file, line)

-----------------------------------------------------------------------------
(* The command.                                                            *)

(* On the way to the next point of the command, or out with an exit code.  *)
Goto(point) == pc' = point /\ UNCHANGED exit
Leave(point, code) == pc' = point /\ exit' = code

(* validate_for_connection() *)
Refuse ==
    /\ pc = "start" /\ ~gateway_set
    /\ Leave("ended", "3")
    /\ UNCHANGED <<options, left, transport, logger, disk_full, lost>>

Validate ==
    /\ pc = "start" /\ gateway_set
    /\ Goto("open")
    /\ UNCHANGED <<options, left, transport, logger, disk_full, lost>>

(* Only `connect' may be told to write no capture. *)
WritesCapture == command = "capture" \/ log_packets

(* __enter__ of the logger.  An OSError of open() or of the header's write *)
(* leaves the with statement before it began, so nothing closes the handle.*)
OpenCapture ==
    /\ pc = "open"
    /\ IF WritesCapture /\ disk_full
       THEN /\ \/ handle' = TRUE /\ buffer' = <<"session">>
               \/ UNCHANGED <<handle, buffer>>
            /\ UNCHANGED file
            /\ Leave("ended", "traceback")
       ELSE /\ handle' = WritesCapture /\ UNCHANGED buffer
            /\ file' = IF WritesCapture THEN <<"session">> ELSE <<>>
            /\ Goto("connect")
    /\ UNCHANGED <<options, left, transport, packets, dropped, disk_full,
                   lost>>

ConnectBegins ==
    /\ pc = "connect" /\ link # "connecting"
    /\ T!Opening
    /\ UNCHANGED <<options, pc, left, logger, exit, disk_full, lost>>

Connected ==
    /\ pc = "connect" /\ link = "connecting" /\ refusal = "none"
    /\ T!Opened
    /\ Goto("level")
    /\ UNCHANGED <<options, left, logger, disk_full, lost>>

\* Mutant: the failure to connect is reported, and exits 0.
ConnectFailsQuietly ==
    /\ pc = "connect" /\ link = "connecting"
    /\ T!OpenFailed /\ outcome' \in T!OpenErrors
    /\ Leave("close", "0")
    /\ UNCHANGED <<options, left, logger, disk_full, lost>>

(* `connect' records the failure, `capture' does not. *)
ConnectFails ==
    /\ pc = "connect" /\ link = "connecting"
    /\ T!OpenFailed /\ outcome' \in T!OpenErrors
    /\ UNCHANGED <<packets, handle>>
    /\ \/ /\ command = "capture" /\ Leave("close", "1")
          /\ UNCHANGED <<buffer, file, dropped>>
       \/ command = "connect" /\ Written("event") /\ Leave("close", "1")
       \/ /\ command = "connect" /\ NotWritten("event")
          /\ Leave("close", "traceback")
    /\ UNCHANGED <<options, left, disk_full, lost>>

(* What is no F10DiagError: Ctrl-C, which main() turns into an exit code,  *)
(* an OSError of socket() itself, and what the socket says of a setting    *)
(* nobody checked.                                                         *)
ConnectEscapes ==
    /\ pc = "connect" /\ link = "connecting"
    /\ T!Escaped
    /\ outcome' \in {"OSError", "KeyboardInterrupt", refusal} \ {"none"}
    /\ Leave("close", IF outcome' = "KeyboardInterrupt" THEN "1"
                                                        ELSE "traceback")
    /\ UNCHANGED <<options, left, logger, disk_full, lost>>

(* update_comms_level, still outside the try that disconnects. *)
RecordLevel ==
    /\ pc = "level"
    /\ \/ /\ Written("event")
          /\ Goto("listen")
       \/ /\ NotWritten("event")
          /\ Leave("close", "traceback")
    /\ UNCHANGED <<options, left, transport, handle, packets, disk_full, lost>>

\* Mutant: the loop runs until the link is lost.
LoopForever ==
    /\ pc = "listen"
    /\ Goto("read")
    /\ UNCHANGED <<options, left, transport, logger, disk_full, lost>>

(* `while time.monotonic() < deadline' *)
Loop ==
    /\ pc = "listen"
    /\ IF left > 0 THEN Goto("read") ELSE Leave("disconnect", "0")
    /\ UNCHANGED <<options, left, transport, logger, disk_full, lost>>

(* A chunk, which the logger - an observer - remembers and writes; what    *)
(* that raises ends in the transport's last_error.                         *)
Read ==
    /\ pc = "read" /\ received < MaxBytes
    /\ received' = received + 1 /\ outcome' = "ok" /\ T!Delivered
    /\ packets' = packets + 1
    /\ Written("packet") \/ NotWritten("packet")
    /\ Goto("listen")
    /\ UNCHANGED <<options, left, handle, disk_full, lost>>

(* The contract lets a read time out at any moment. *)
ReadTimesOut ==
    /\ pc = "read"
    /\ T!TimedOut
    /\ Goto("listen")
    /\ UNCHANGED <<options, left, logger, disk_full, lost>>

(* A loss is reported and ends the listening, nothing more. *)
ReadBreaks ==
    /\ pc = "read"
    /\ T!Lost
    /\ lost' = TRUE
    /\ Leave("disconnect", "0")
    /\ UNCHANGED <<options, left, logger, disk_full>>

\* Mutant: no `finally' disconnects.
InterruptedReadLeaks ==
    /\ pc = "read"
    /\ T!Escaped /\ outcome' = "KeyboardInterrupt" /\ UNCHANGED link
    /\ Leave("close", IF command = "capture" THEN "0" ELSE "1")
    /\ UNCHANGED <<options, left, logger, disk_full, lost>>

(* Ctrl-C is how `capture' is stopped; for `connect' it is a failure.      *)
InterruptedRead ==
    /\ pc = "read"
    /\ T!Escaped /\ outcome' = "KeyboardInterrupt" /\ UNCHANGED link
    /\ Leave("disconnect", IF command = "capture" THEN "0" ELSE "1")
    /\ UNCHANGED <<options, left, logger, disk_full, lost>>

Disconnect ==
    /\ pc = "disconnect"
    /\ T!Closed
    /\ Goto("close")
    /\ UNCHANGED <<options, left, logger, disk_full, lost>>

\* Mutant: the handle is dropped without close().
CloseCaptureUnflushed ==
    /\ pc = "close"
    /\ handle' = FALSE /\ buffer' = <<>> /\ UNCHANGED file
    /\ Goto("ended")
    /\ UNCHANGED <<options, left, transport, packets, dropped, disk_full,
                   lost>>

(* __exit__ of the logger; an OSError of close() replaces the exit code.   *)
CloseCapture ==
    /\ pc = "close"
    /\ IF disk_full /\ buffer # <<>>
       THEN Leave("ended", "traceback") /\ UNCHANGED <<handle, buffer, file>>
       ELSE /\ Goto("ended")
            /\ handle' = FALSE /\ buffer' = <<>> /\ file' = file \o buffer
    /\ UNCHANGED <<options, left, transport, packets, dropped, disk_full,
                   lost>>

Tick ==
    /\ pc \in {"listen", "read"} /\ left > 0
    /\ left' = left - 1
    /\ UNCHANGED <<options, pc, transport, logger, exit, disk_full, lost>>

DiskFills ==
    /\ pc # "ended"
    /\ disk_full' = ~disk_full
    /\ UNCHANGED <<options, pc, left, transport, logger, exit, lost>>

CommandSteps ==
    \/ Refuse \/ Validate \/ OpenCapture
    \/ ConnectBegins \/ Connected \/ ConnectFails \/ ConnectEscapes \/ RecordLevel
    \/ Loop \/ Read \/ ReadTimesOut \/ ReadBreaks \/ InterruptedRead
    \/ Disconnect \/ CloseCapture

Next == CommandSteps \/ Tick \/ DiskFills

Spec == Init /\ [][Next]_vars

-----------------------------------------------------------------------------
(* docs/usage.md:76, exit code 1: "Runtime failure: connection lost,       *)
(* interface unavailable, unreadable capture".                             *)
LostLinkExitsOne == pc = "ended" /\ lost => exit # "0"
=============================================================================
