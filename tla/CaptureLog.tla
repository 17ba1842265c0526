------------------------------ MODULE CaptureLog ------------------------------
(***************************************************************************)
(* DiagnosticLogger (logging/diagnostic_logger.py) writing a capture file, *)
(* the file, and load_capture (transport/replay.py) reading it back.       *)
(*                                                                         *)
(* The file is what survives: the process may die at any moment, also in   *)
(* the middle of a flush, and the disk may be full for a while.  A line is *)
(* two pieces, its head and its tail with the newline, because the line of *)
(* a packet longer than the 8 KiB buffer takes several write(2).  Pieces a *)
(* failed flush did not write stay in the buffer and are tried again by    *)
(* the next flush, but those of a line that the buffer has no room for are *)
(* dropped: a long one, or any line once earlier ones wait there.  A       *)
(* session header, the first line of its handle, is taken to fit.          *)
(* What a line says is abstracted to its kind, the packet it carries (by   *)
(* number) and, in a session header, the communication level.              *)
(***************************************************************************)
EXTENDS Naturals, Sequences, SequencesExt, FiniteSetsExt

CONSTANTS
    Levels,     \* what update_comms_level may be told, besides "NONE"
    Replaying,  \* may the recorded transport be a ReplayTransport?
    Faults,     \* which of "crash" and "disk_full" may happen
    MaxLines    \* bound: lines written per behaviour

ASSUME CaptureAssumption ==
    /\ Replaying \in BOOLEAN
    /\ Faults \subseteq {"crash", "disk_full"}
    /\ MaxLines \in Nat

VARIABLES
    \* the logger
    handle,     \* _handle is open
    level,      \* metadata.comms_level
    packets,    \* _packets, the numbers of the packets in memory
    buffer,     \* pieces written to the handle, not yet to the file
    \* the running call
    pc,         \* "idle", or "flush" inside _write_line
    result,     \* how the last call ended, "pending" while one runs
    \* the world
    file,       \* pieces in the file
    disk_full,
    replaying,  \* packets mention "packets" in their transport info
    \* history
    lines,      \* how many lines were written, which numbers them
    made,       \* how many had been written when the logger was made,
    opened,     \* and when it opened the file
    tracked,    \* packets that record() took while the file was open
    acknowledged    \* those whose record() returned

logger == <<handle, level, packets, buffer>>
world  == <<file, disk_full, replaying>>
history == <<lines, made, opened, tracked, acknowledged>>
vars   == <<logger, pc, result, world, history>>

Init ==
    /\ handle = FALSE /\ level = "NONE" /\ packets = <<>> /\ buffer = <<>>
    /\ pc = "idle" /\ result = "none"
    /\ file = <<>> /\ disk_full = FALSE
    /\ replaying \in {FALSE, Replaying}
    /\ lines = 0 /\ made = 0 /\ opened = 0 /\ tracked = {} /\ acknowledged = {}

-----------------------------------------------------------------------------
(* Writing.                                                                *)

Pieces(line) == <<[line |-> line, part |-> "head"],
                  [line |-> line, part |-> "tail"]>>

Line(kind, lvl) == [kind |-> kind, number |-> lines + 1, level |-> lvl]

\* Mutant: the line is not flushed.
WriteUnflushed(line) ==
    /\ lines < MaxLines /\ lines' = lines + 1
    /\ buffer' = buffer \o Pieces(line)
    /\ UNCHANGED pc

(* _write_line up to its flush. *)
WriteLine(line) ==
    /\ lines < MaxLines /\ lines' = lines + 1
    /\ buffer' = buffer \o Pieces(line)
    /\ pc' = "flush"

\* Mutant: the capture is opened with mode "w".
OpenTruncating ==
    /\ pc = "idle" /\ ~handle
    /\ handle' = TRUE /\ file' = <<>> /\ opened' = lines
    /\ WriteLine(Line("session", level))
    /\ result' = "pending"
    /\ UNCHANGED <<level, packets, disk_full, replaying, made, tracked,
                   acknowledged>>

\* Mutant: a file that is not empty gets no further header.
OpenHeaderOnce ==
    /\ pc = "idle" /\ ~handle
    /\ handle' = TRUE
    /\ IF file = <<>>
       THEN WriteLine(Line("session", level)) /\ result' = "pending"
       ELSE UNCHANGED <<lines, buffer, pc>> /\ result' = "ok"
    /\ opened' = lines
    /\ UNCHANGED <<level, packets, world, made, tracked, acknowledged>>

(* The file is opened for appending; every opening writes a header.  When  *)
(* that fails the handle stays, so that opening again does nothing.        *)
Open ==
    /\ pc = "idle" /\ ~handle
    /\ handle' = TRUE /\ opened' = lines
    /\ WriteLine(Line("session", level))
    /\ result' = "pending"
    /\ UNCHANGED <<level, packets, world, made, tracked, acknowledged>>

(* The directory cannot be made, or the file not opened: nothing changes.  *)
OpenFails ==
    /\ pc = "idle" /\ ~handle
    /\ result' = "OSError"
    /\ UNCHANGED <<logger, pc, world, history>>

(* record(): kept in memory and counted whatever happens to the file.      *)
Record ==
    /\ pc = "idle" /\ lines < MaxLines
    /\ packets' = Append(packets, lines + 1)
    /\ IF handle
       THEN /\ WriteLine(Line("packet", "NONE"))
            /\ tracked' = tracked \cup {lines + 1}
            /\ result' = IF pc' = "flush" THEN "pending" ELSE "ok"
       ELSE /\ lines' = lines + 1 /\ result' = "ok"
            /\ UNCHANGED <<buffer, pc, tracked>>
    /\ acknowledged' = IF handle /\ pc' = "idle"
                       THEN acknowledged \cup {lines + 1} ELSE acknowledged
    /\ UNCHANGED <<handle, level, world, made, opened>>

RecordEvent ==
    /\ pc = "idle"
    /\ IF handle
       THEN WriteLine(Line("event", "NONE")) /\ result' = "pending"
       ELSE UNCHANGED <<lines, buffer, pc>> /\ result' = "ok"
    /\ UNCHANGED <<handle, packets, world, made, opened, tracked,
                   acknowledged>>

(* The metadata in memory change, and the file gets an event line.         *)
UpdateCommsLevel(l) ==
    /\ level' = l
    /\ RecordEvent

(* record_event() called for anything else: "connect_failed", for one.     *)
RecordOther == RecordEvent /\ UNCHANGED level

(* What a flush of n pieces puts in the file and leaves in the buffer.     *)
FlushPieces(n) ==
    /\ file' = file \o SubSeq(buffer, 1, n)
    /\ buffer' = SubSeq(buffer, n + 1, Len(buffer))

Flush ==
    /\ pc = "flush" /\ ~disk_full
    /\ FlushPieces(Len(buffer))
    /\ pc' = "idle" /\ result' = "ok"
    /\ acknowledged' = acknowledged \cup (tracked \cap {lines})
    /\ UNCHANGED <<handle, level, packets, disk_full, replaying, lines,
                   made, opened, tracked>>

\* Mutant: record() remembers a packet only once it is written.
FlushFailsForgets ==
    /\ pc = "flush" /\ disk_full
    /\ \E n \in 0 .. Len(buffer) - 1 : FlushPieces(n)
    /\ packets' = SelectSeq(packets, LAMBDA p : p # lines)
    /\ pc' = "idle" /\ result' = "OSError"
    /\ UNCHANGED <<handle, level, disk_full, replaying, history>>

\* Mutant: what was not written whole is queued to be written again, whole.
FlushFailsRepeats ==
    /\ pc = "flush" /\ disk_full
    /\ file' = file \o SubSeq(buffer, 1, Len(buffer) - 1)
    /\ buffer' = Pieces(Last(buffer).line)
    /\ pc' = "idle" /\ result' = "OSError"
    /\ UNCHANGED <<handle, level, packets, disk_full, replaying, history>>

(* Some pieces fit; OSError reaches the observer loop, or the caller.  The *)
(* line being written, a packet's or an event's, is dropped as far as it   *)
(* is not in the file if the buffer does not hold it.                      *)
FlushFails ==
    /\ pc = "flush" /\ disk_full
    /\ \E n \in 0 .. Len(buffer) - 1 :
          \/ FlushPieces(n)
          \/ /\ buffer[Len(buffer)].line.kind # "session"
             /\ file' = file \o SubSeq(buffer, 1, n)
             /\ buffer' = SubSeq(buffer, n + 1, Len(buffer) - 2)
    /\ pc' = "idle" /\ result' = "OSError"
    /\ UNCHANGED <<handle, level, packets, disk_full, replaying, history>>

(* close() raises, and keeps the handle, when its flush does. *)
Close ==
    /\ pc = "idle" /\ handle /\ (~disk_full \/ buffer = <<>>)
    /\ FlushPieces(Len(buffer))
    /\ handle' = FALSE /\ result' = "ok"
    /\ UNCHANGED <<level, packets, pc, disk_full, replaying, history>>

CloseFails ==
    /\ pc = "idle" /\ handle /\ disk_full /\ buffer # <<>>
    /\ \E n \in 0 .. Len(buffer) - 1 : FlushPieces(n)
    /\ result' = "OSError"
    /\ UNCHANGED <<handle, level, packets, pc, disk_full, replaying, history>>

(* A new process, with a new logger on the same path. *)
NewLogger ==
    /\ handle' = FALSE /\ level' = "NONE" /\ packets' = <<>>
    /\ buffer' = <<>> /\ pc' = "idle" /\ result' = "none"
    /\ made' = lines /\ opened' = lines
    /\ UNCHANGED <<disk_full, replaying, lines, tracked, acknowledged>>

NextSession ==
    /\ pc = "idle" /\ ~handle
    /\ NewLogger
    /\ UNCHANGED file

(* The process dies; some of the buffer may still have been written.       *)
Crash ==
    /\ "crash" \in Faults
    /\ \E n \in 0 .. Len(buffer) : file' = file \o SubSeq(buffer, 1, n)
    /\ NewLogger

DiskFills ==
    /\ "disk_full" \in Faults
    /\ disk_full' = ~disk_full
    /\ UNCHANGED <<logger, pc, result, file, replaying, history>>

Next ==
    \/ Open \/ OpenFails \/ Record \/ Close \/ CloseFails \/ NextSession
    \/ \E l \in Levels : UpdateCommsLevel(l)
    \/ RecordOther \/ Flush \/ FlushFails \/ Crash \/ DiskFills

Spec == Init /\ [][Next]_vars

-----------------------------------------------------------------------------
(* Reading the file back.                                                  *)

(* The physical lines: a head not followed by its own tail runs into the   *)
(* next line, or ends the file, and is no JSON.                            *)
Whole(i) ==
    /\ i < Len(file)
    /\ file[i].part = "head" /\ file[i + 1].part = "tail"
    /\ file[i].line = file[i + 1].line

Starts == {i \in DOMAIN file : file[i].part = "head"}

Garbled == \E i \in Starts : ~Whole(i)

(* Where the lines of a kind begin. *)
OfKind(kind) == {i \in Starts : file[i].line.kind = kind}

NoEvents == OfKind("event") = {}

(* A finite set of numbers from the least to the greatest.                 *)
Ascending(I) ==
    CHOOSE s \in [1 .. Cardinality(I) -> I] :
       \A j, k \in DOMAIN s : j < k => s[j] < s[k]

(* '"packets"' among the first characters makes the whole text one JSON    *)
(* document, which several lines are not.  get_interface_info() of a       *)
(* replay has that key; payloads are taken to be short of 1 KiB here.      *)
Sniffed == replaying /\ OfKind("packet") # {}

NoSession == [level |-> "NONE", number |-> 0]
Unreadable == [ok |-> FALSE, packets |-> <<>>, session |-> NoSession]

\* Mutant: lines that are no packet are passed over.
LoadTolerant ==
    LET whole == {i \in Starts : /\ Whole(i) /\ file[i].line.kind = "packet"
                                 /\ (i = 1 \/ file[i - 1].part = "tail")}
    IN [ok |-> file # <<>>,
        packets |-> SetToSortSeq({file[i].line.number : i \in whole}, <),
        session |-> NoSession]

(* An event has no 'direction', which from_dict takes for malformed.  Of   *)
(* several sessions the last header counts.                                *)
load_capture ==
    IF file = <<>> \/ Sniffed \/ Garbled \/ ~NoEvents
    THEN Unreadable
    ELSE LET records == Ascending(OfKind("packet"))
         IN [ok |-> TRUE,
             packets |-> [k \in DOMAIN records |-> file[records[k]].line.number],
             session |-> file[Max(OfKind("session"))].line]

(* What export_json() and export_text() write, from memory, and what       *)
(* export_capture() writes, from the file; either of its formats has all   *)
(* packets and the metadata.                                               *)
to_document == [packets |-> packets, session |-> [level |-> level]]
export_capture == [packets |-> load_capture.packets,
                   session |-> load_capture.session]

-----------------------------------------------------------------------------
(* Properties.                                                             *)

(* "Each packet is flushed as it happens": a packet whose record() returned*)
(* while the capture was open has its whole line in the file, whatever     *)
(* crashes, full disks and further sessions follow - though perhaps behind *)
(* a torn one, which load_capture does not get past.                       *)
NothingAcknowledgedIsLost ==
    \A p \in acknowledged :
       \E i \in Starts : Whole(i) /\ file[i].line.number = p

(* "Never modifies, injects, or reorders": the lines stand in the file in  *)
(* the order they were recorded, each at most once, also when a failed     *)
(* flush is made up for by a later one.                                    *)
DiskInOrder ==
    \A i, j \in Starts : i < j => file[i].line.number < file[j].line.number

(* Every packet in the file comes after the session header of the logger   *)
(* that recorded it, even if writing that header failed at first.          *)
HeaderBeforePackets ==
    handle =>
      \A i \in Starts : file[i].line.number > opened + 1 =>
        \E j \in Starts : /\ j < i /\ file[j].line.kind = "session"
                          /\ file[j].line.number = opened + 1

(* The two exports of a session tell the same story: of the packets in     *)
(* memory, the file gives those that were written, in the same order, and  *)
(* no other of this logger's; and the session it names for them is one of  *)
(* this logger's, whatever was in the file before.                         *)
ExportsAgree ==
    load_capture.ok /\ pc = "idle" =>
      LET memory == to_document.packets
          disk   == export_capture.packets
          ours   == {p \in ToSet(disk) : p > made}
      IN /\ ours = ToSet(memory) \cap ToSet(disk)
         /\ \A i, j \in DOMAIN memory, k, l \in DOMAIN disk :
               memory[i] = disk[k] /\ memory[j] = disk[l] /\ i < j => k < l
         /\ acknowledged \cap ToSet(memory) \subseteq ours
         /\ ours # {} => export_capture.session.number > made

(* A capture that loads holds what was recorded: packets in the order they *)
(* were recorded, nothing else, and every acknowledged one.                *)
LoadReturnsRecorded ==
    load_capture.ok =>
      LET loaded == load_capture.packets
      IN /\ \A i \in 1 .. Len(loaded) - 1 : loaded[i] < loaded[i + 1]
         /\ acknowledged \subseteq ToSet(loaded)
         /\ ToSet(loaded) \subseteq tracked

(* A capture is only ever appended to; a new session on the same path      *)
(* keeps the earlier one.                                                  *)
CaptureOnlyGrows == [][IsPrefix(file, file')]_vars

(* docs/usage.md:431: "the JSONL original is what `ReplayTransport` reads".*)
(* A capture closed in good order, with nothing gone wrong, loads.         *)
ClosedCaptureLoads ==
    Faults = {} /\ ~replaying /\ ~handle /\ file # <<>> => load_capture.ok
=============================================================================
