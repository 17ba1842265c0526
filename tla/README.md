# f10diag in TLA+

`f10diag` is a read-only diagnostic tool for a BMW F10 reached over an ENET
cable: a byte transport over TCP with a mock and a replay beside it, a logger
that records raw traffic to capture files, configuration, interface discovery
for macOS, signal definitions with primitive decoders and a command line. The protocol layers above
the transport are placeholders that refuse to run. This directory holds the
TLA+ specifications of the parts that have behaviour, the TLC configurations
that check them and the proofs of what holds for every value of the constants.

Paths below are relative to `src/f10diag/` unless they start with `docs/` or
`tests/`.

## 1. Inventory

| Component | State | Operations | Modelled in |
| --- | --- | --- | --- |
| Transport base class, `transport/base.py` | `_state`, `_last_error`, `_observers` | `_set_state`, `_require_connected`, add/remove observer, `_emit` | `Transport`, contract in `ByteTransport` |
| `ENETTransport`, `transport/enet.py` | socket and its timeout, `_interface`, byte counters | connect, disconnect, reconnect, send, receive, receive_exactly | `EnetTransport` |
| `MockTransport`, `transport/mock.py` | response queue, sent payloads, call counts, the script | connect, disconnect, send, receive, queue_response, set_fail_on_connect | `MockTransport` |
| `ReplayTransport`, `transport/replay.py` | packet list, cursor, mismatches | connect, disconnect, rewind, send, receive | `ReplayTransport` |
| Capture files, `logging/diagnostic_logger.py`, `load_capture` | file handle and its buffer, metadata, packets in memory; the file itself | open, close, record, record_event, update_comms_level, export_json, export_text; load_capture, export_capture | `CaptureLog` |
| Interface discovery, `transport/ethernet.py` | none (asks the host each time) | list_interfaces, rank_candidates, select_interface | `InterfaceDiscovery`; its results in `EnetTransport` |
| Configuration, `config.py` | frozen values | load, validate, validate_for_connection, with_overrides, guard_write | `Config`; what connect() asks of it in `EnetTransport` |
| Status ladder, `status.py` | none | - | the level in a capture, in `CaptureLog`; of a unit, in `Vehicle` |
| Command line, `cli.py` | none of its own; owns a transport and a logger | parse, load, override, dispatch, exit codes; connect, capture, _passive_listen; network select | `Program` around `CliSession`; `network select` in `InterfaceDiscovery` |
| Decoding, `decoding/` | definition registry | the fourteen primitive decoders, scaling; load, add, by_name, by_identifier, decode | `Values`, `Decoding` |
| Vehicle and ECUs, `vehicle/`, `ecus/` | discovered ECUs, the DME's registry | register_discovered, get_ecu, available_signals, live_data | `Vehicle` |
| Protocols, `protocols/` | none | every constructor raises NotVerifiedError | not modelled |

How they interact. The program is single-threaded and synchronous: no locks,
no threads, no event loop. The command line calls a transport, the transport
blocks in the kernel, and calls its observers in the caller's thread;
`DiagnosticLogger.record` is such an observer, which flushes a line to the
capture file before the transport's call returns. An exception of the observer
ends in the transport's `last_error` and nowhere else. The connection is
shared with the kernel and the peer, the capture file with earlier and later
processes, and the interface list with the operator who plugs cables.

What is hard, therefore, is not threads but

- a call standing in the kernel while the peer closes, resets or falls silent,
  the cable is pulled, a timeout passes or Ctrl-C arrives, in any order - and
  what the object looks like to the next call;
- retries and deadlines over several blocking calls (`reconnect`,
  `receive_exactly`, the listening loop);
- observers that raise, or change the list they are called from;
- partial reads that put bytes back into a queue or a list;
- a process that dies, or a disk that is full, between or amid the writes of a
  capture that a later session appends to and a later program loads;
- settings that come from a file and from flags on two sides of a command, some
  validated and some not, and errors of which not every one was expected;
- definitions whose flag decides whether a number is a fact, and an identifier
  that is normalised in two places.

What makes each component correct:

- base class: state and errors agree with what happened on every path; every
  observer hears every packet; the three transports are interchangeable.
- ENET: the socket is held when connected and gone when disconnected; the
  configured timeout is always back; deadlines bound whole reads; a loss is a
  loss and a timeout is a timeout; retries spend what was configured; a call
  comes nearer to its end with all it does, and returns.
- mock and replay: bytes come out once each, in order; the scripted loss comes
  at its send; strict replays follow the recording; what differs is reported.
- capture: what was acknowledged is on disk, in order, behind its header, and
  what loads is what was recorded.
- command line: whichever way a command ends, the transport is disconnected,
  the capture is closed with everything that arrived, and the exit code tells
  the truth; and it does end.
- configuration and main: each setting is the last word that was said on it, a
  flag that is not given clears nothing, no write passes a gate nobody opened,
  and an exit code other than a traceback for every file and flag a document
  speaks of.
- decoding and vehicle: nothing unverified is shown as a fact, a value can be
  traced to its bytes, a lookup finds every spelling, and what the DME and the
  vehicle say of themselves is what they hold.
- interface discovery: the choice is the best one by its own scores, the same
  whatever order the host lists its interfaces in; a plugged cable beats an
  unplugged one wherever the weights let it; what cannot be an ENET link is
  never chosen, and a number typed at the prompt means what stood beside it.

The `hazards` of `PROJECT.json` name the lines where these bite.

## 2. Modules

| Module | What it is |
| --- | --- |
| `ByteTransport` | abstract specification: what every transport promises its caller |
| `Transport` | the base class: state, last error, observers, emission callback by callback |
| `EnetTransport` | ENETTransport against interface, kernel, peer, clock and Ctrl-C |
| `MCEnet` | its configurations for TLC |
| `EnetProofs` | its theorems |
| `MockTransport` | MockTransport, an extension of `Transport` |
| `MockProofs` | theorems of both |
| `ReplayTransport`, `MCReplay` | ReplayTransport, and three captures for TLC |
| `ReplayProofs` | its theorems |
| `CaptureLog` | DiagnosticLogger, the file, load_capture and the exports |
| `CaptureProofs` | its theorems |
| `CliSession` | the commands `connect` and `capture`, over `ByteTransport` |
| `Config` | configuration files, defaults, overrides and the gate; operators, no state |
| `Program`, `MCProgram` | main(): `CliSession` from the command line to the exit code; launches for TLC |
| `ProgramProofs` | its theorems |
| `InterfaceDiscovery`, `MCDiscovery` | which interface is used; five hosts for TLC |
| `DiscoveryProofs` | its theorems |
| `Values` | the primitive decoders; operators, no state |
| `Decoding` | signal definitions, decode() and the registry |
| `Vehicle`, `MCVehicle` | units and the DME over `Decoding`; definitions and responses for TLC |
| `VehicleProofs` | theorems of `Decoding` and `Vehicle` |
| `SequenceLemmas` | facts about sequences, least and greatest numbers and induction that the proofs share |

Operators that start with a comment `Mutant:` are plausible wrong versions of
the definition they stand before. No specification uses them; they show that
the properties can tell the difference.

### ByteTransport

Four variables: the state of the link, the bytes shown to observers in each
direction, and how the last call ended. Its actions are the outcomes the
docstrings of the abstract methods allow. It says among other things that
traffic moves only while connected, that a loss and a failed connect leave
ERROR and disconnect keeps ERROR visible, that a read that times out leaves
the link as it was while a *send* that times out does not, and that NotConnected
means not connected. ENET, mock and replay are each shown to implement it by
`INSTANCE ByteTransport WITH ...` (`ImplementsContract`).

### EnetTransport

A method is one action up to the point where it blocks, or where it looks at
the host a second time, and one action per stretch after that; `pc` names the
point. `connect()` is `Connect` (guards and CONNECTING), `ResolveInterface` or
`ResolveFails`, `Dial` or one of the immediate failures, then `Accepted`,
`HandshakeFails` or `AcceptedBadTimeout`. The immediate failures are those the
code expects, `BindFails` and `LookupFails`, which leave ERROR, and those it
does not: `SocketFails` and `ConnectTimeoutRefused`, raised outside the `try`,
and `GatewayRefused`, which no `except` names. `reconnect()` runs the same
actions with `op.kind = "reconnect"`; `RetryOrRaise` and `Retry` are its loop.
`receive_exactly()` is a loop (`LoopReceives`, `LoopExpires`, `LoopRefused`)
around the actions of `receive()`.

The object's attributes are variables of the same names without the
underscore. `socket` stands for the descriptor and what the kernel knows of
the peer: open, closed by it (`fin`), reset (`rst`) or given up for dead
(`dead`, ETIMEDOUT). `timeout` is the socket's own. `op` has the locals of the
running call, `wait` the seconds until its blocking step times out, `result`
how the last call ended ("pending" while one runs). `unseen`, the bytes on the
wire that no observer was shown, is a history variable.

The world moves between any two of these actions: `Tick`, `PeerSends`,
`ConnectionEnds`, `KernelAccepts` (sendall hands over byte by byte),
`HostChanges` and `Interrupt`, which is Ctrl-C in a blocking call. Ctrl-C
between two bytecodes outside the blocking calls is not modelled.

Abstractions: payloads are lengths; a gateway is unset, valid, has a port above
65535 (`bad_port`) or a name that cannot be encoded (`bad_host`); an interface
snapshot is "has a link" or "has a link and an IPv4
address"; every immediate error of connect(2) is "refusing". Time is counted
in whole seconds. settimeout() and sleep() take 0 to `MaxTimeout` seconds (2^63
nanoseconds) and raise at others; infinity and not-a-number are seconds beyond
it. An emission is one step here (an observer may have raised or
not); `Transport` has the loop.

### Transport and MockTransport

`Transport` is the base class as a module to extend. `_emit` is a loop of one
step per callback: `BeginEmit` copies the list, `Notify` makes one callback,
which may raise, unregister itself or register another, and `EndEmit` returns.
`MockTransport` extends it with the queue. Response bytes are numbered in the
order they are queued, so that a lost, repeated or reordered byte shows.
Latency is left out: nothing else runs during the sleep. Callbacks that call
back into the transport are left out as well.

### ReplayTransport

The list of packets, the cursor, the splits. The list the replay was given is
kept as `capture`. Received bytes are numbered as they come (`Numbered`), so that
a byte that is lost, repeated or out of place shows. Strictness and the capture
are chosen in `Init`.

### CaptureLog

The file is a sequence of pieces, two per line, so that a line can be torn. A
logger's line goes to `buffer` and from there to `file` by `Flush`, or in part
by `FlushFails` when the disk is full; `Crash` loses the logger and any part of
the buffer, and a new logger on the same path appends. What a failed flush
leaves is written by a later one, except that the line being written is dropped
if the 8 KiB buffer has no room for it: a long one, or any once earlier ones wait
there. The header is the first line of its handle and is taken to fit.
`OpenFails` is a directory that cannot be made or a file that cannot be opened.
`load_capture` is an operator on the file; the records it picks out are
the positions where their lines begin (`OfKind`). Which bytes a
line has is not modelled, with one exception that matters: the key
`"packets"`, which load_capture searches for to recognise a single-document
capture, occurs in the transport information of a replay (`Sniffed`).
The disk does not lie: what write(2) took survives the process; power loss is
not modelled. `to_document` and `export_capture` are what the two exports write,
from memory and from the file. `made` and `opened` remember how many lines there
were when the logger was made and when it opened the file, so that a property
can tell its own lines from those of earlier sessions.

### CliSession

One command from its start to the end of its process. `pc` walks through
`cmd_connect` or `cmd_capture` (`command` says which) and `_passive_listen`.
The transport is an instance of `ByteTransport`: a step such as `ReadBreaks` is
the contract's action `Lost` together with what the command does about it, so
the module holds for any transport that keeps the contract, and
`EnetImplementsContract` says that ENETTransport does. The logger is reduced to
lines, buffered and on disk; it is called by `Read`, because it observes the
transport, and by the command. `exit` is decided before the way out is done:
the `finally` and the end of the `with` statement still run, and may replace it.
`refusal` is what the socket will raise of a setting of this session, or "none".
Ctrl-C is modelled inside connect() and receive(), where the program waits.
The deadline counts polls.

### Config and Program

`Config` has the functions of `config.py` under their names, from one value
(`_as_positive_float`, `_as_optional_port`) to a file (`from_dict`, `LoadEnds`)
to the overrides. A TOML value is its kind and its number; kinds include those
the checks, or the socket, treat in a way of their own: "nan", "inf", "huge" (an
integer that float() does not take), "digits", "auto", "unencodable" (a name IDNA
cannot encode). A document is its values, how reading
it went (`Reading`), and whether it has a key or a section nobody knows. Each
key is checked by itself, and `CheckEnds` says which failure comes first in the
order of the code (`Order`): only the three float keys can end in an
OverflowError, and only if no key before them ends in a ConfigError.

`Program` puts main() around `CliSession`. A launch is one command line in one
directory: the command, the flags before it and after it, and two files.
`Parse` is argparse with its two namespaces (`namespace`), `Load` loads and
overrides, `BeginSession` hands a session the configuration it gets: whether the
gateway is set, whether packets are logged, and which error the socket will
raise of a value (`Refusal`: the first of connect_timeout, host, port and
receive_timeout that it does not take). The sessions then run as in
`CliSession`. Commands that keep no state are one step, `RunCommand`, with the
exit codes they may end with (`Endings`).

### Values, Decoding and Vehicle

`Values` has one operator per kind of decoder. The numbers are computed as the
bytes say, with a sign and a byte order; text is a sequence of character codes,
so that stripping and padding are what they are in the code.

`Decoding` has the constructor, `from_dict`, `decode` with its gate and its
fallback, and the registry. A record has all fields of a definition; `defect`
says that a required one is missing, or how the first conversion that fails ends
(TypeError, ValueError or OverflowError); and `verified` is the kind of the JSON
value of that key, true or false to bool(). An identifier is its digits, their
case and how often "0x" stands among them, which is what normalisation is about,
with the four placeholders. A definition knows whether it was
loaded or made in code, because only loading normalises. `format` is reduced to
what it adds to the value: unit, error and label. What the registry and the DME
select - verified, by name, by identifier - are positions in its list.

`Vehicle` adds the DME, which shares the caller's registry by reference (`dme`),
and the dict of units. `Answers` stands for a protocol layer that does not
exist yet and raises the level of a unit.

### InterfaceDiscovery

`listing` is what list_interfaces has between its two programs: ifconfig has
been asked (`List`), networksetup answers or fails in the step that uses the
listing (`Listed`, with `WithPorts` or without). A listing is a function from
names to interfaces; `rank_candidates` gives each candidate the place that the
number of those `Ahead` of it says, which is what a stable sort does. That step is select_interface
with a name (`ResolveNamed`) or without (`ResolveAutomatic`), as resolve_interface
calls it, or `Show`, which leaves the candidates on the screen while the
user thinks. `screen` is what stands beside each number, `Type` what the user
types - Enter, a number, on the list or not, a superscript two, or anything
else - and `Select` the index that the code computes from it and the place in
its own list, counted from 0 as Python does (`At`). `Configure` is the user who does what the panel says.
The host changes in one fact at a time. `rank_candidates`, `Score` and
`is_ethernet_like` are the functions of these names. Names are numbers in
alphabetical order; what `EnetTransport` calls `nic` is the outcome of this
module's selection: absent, no link, a link.

## 3. Runs

| Run | Module, cfg | Shows |
| --- | --- | --- |
| `enet` | MCEnet, Enet | safety of ENETTransport, and that it implements ByteTransport |
| `enet_live` | MCEnet, EnetLive | every call returns |
| `mock` | MockTransport, Mock | stream order, observers, scripted loss, contract |
| `replay` | MCReplay, Replay | order, strictness, reporting, completeness, contract |
| `capture` | CaptureLog, Capture | what survives crashes and full disks, what loads, what is exported |
| `program` | MCProgram, Program | which settings a command gets, what it disconnects, closes, records and reports on every way out, and that it ends |
| `interfaces` | MCDiscovery, Discovery | which interface is chosen, automatically, by name or at the prompt |
| `definitions` | MCVehicle, Definitions | what may be shown as a fact, where it comes from, what is found |
| `replay_twice` | MCReplay, ReplayTwice | deviation, section 5 |
| `capture_closed` | CaptureLog, CaptureClosed | deviation |
| `session_lost` | CliSession, SessionLost | deviation |
| `unverified_flag` | MCVehicle, UnverifiedFlag | deviation |

Properties of `enet`:

- `SocketMatchesState`: connected implies a held socket, which send and receive
  assert, and disconnected implies none. ERROR promises neither: a send that
  timed out keeps its socket.
- `TimeoutRestored`: outside recv the socket has the configured timeout,
  whichever way the last read ended.
- `WholeReadDeadline`: no recv inside receive_exactly waits beyond what is left.
- `FailedSendEndsLink`: a send that put bytes on the wire which no observer saw
  never leaves the link usable, Ctrl-C excepted.
- `LostMeansPeerGone`: ConnectionLostError means the peer closed or reset -
  or that the socket was non-blocking, or nothing was asked for (section 5).
- `TimedOutReadIsHarmless`: a read that times out leaves state, socket and the
  bytes still to come as they were, and what receive_exactly() had already taken
  is counted. The listening loop of the command line relies on it.
- `FailureSpendsAttempts`: ConnectionFailedError from reconnect comes after the
  last attempt, no earlier.
- `CallsRunDown`: a call that goes on has, after each step of its own and each
  second, less left to do, or less time for the same (section 4).
- `ConnectingIsTransient`: CONNECTING is left behind by no error of f10diag,
  only by Ctrl-C and by what connect() does not expect: OverflowError,
  ValueError and TypeError of a setting, and an OSError outside its `try`.

Properties of the other passing runs, each stated in a sentence in its module:

| Run | Properties |
| --- | --- |
| `mock` | `StreamInOrder`, `EveryObserverHears`, `PeerDisappears` (the scripted loss comes at its send, neither earlier nor later, over any connections), the contract |
| `replay` | `FirstPassOnceInOrder`, `NothingWithheld` (who is told that nothing more is there has read everything), `SentFollowsRecording`, the contract |
| `capture` | `NothingAcknowledgedIsLost`, `DiskInOrder`, `HeaderBeforePackets`, `ExportsAgree` (an export from memory and one from the file do not contradict each other), `LoadReturnsRecorded`, `CaptureOnlyGrows` |
| `program` | `DisconnectedAtExit`, `CaptureCompleteAtExit`, `ExitCodeTellsTruth`, `FlagsAnywhere` (each setting is the last word on it), `RefusedSettings` (a setting the socket refuses ends a session without data and not as a success, and is one that no file is checked for or a flag gave; any other traceback of a session has one of three causes), `CommandEnds` |
| `interfaces` | `AutomaticChoiceIsBest`, `LinkComesFirst`, `PhysicalOnly`, `AnswerMeansWhatWasShown` (what an answer selects is what stood beside the number, and every number shown can be typed) |
| `definitions` | `NothingUnverifiedIsFact`, `ValueShowsItsBytes` (window, dump, boolean, number and text trace back to the response; a number encodes back to its bytes), `FallbackIsTheDatasFault`, `LookupFindsEverySpelling`, `SaysWhatItKnows` |

### Bounds

- `enet`: two bytes per direction (`MaxBytes`), reads and sends of 0 to 2
  bytes, explicit timeouts 0 and 2, configured timeout -1, 0, 1, 2 or 3 where
  `MaxTimeout` is 2, each kind of gateway, and up to three attempts of
  reconnect. Two bytes are what a partial send, a short read
  and a receive_exactly over two chunks need; nothing in the code compares
  sizes beyond "enough" and "not enough". Two seconds leave room for a
  deadline to pass between two chunks. Calls, peer and host events are
  unbounded.
- `mock`: three response bytes, two registrations of two observers, a reply
  size of up to two: enough to split a payload with another behind it, and for
  an observer to leave while a second one waits.
- `replay`: an empty capture, one exchange, and one with two requests and an
  unsolicited packet in front; payloads of one and two bytes; lists that grow
  to seven packets; nine bytes over all passes, which is a full second pass.
- `capture`: four lines, that is two sessions of a header and a packet, or one
  with packets and events after a failed flush.
- `program`: three chunks, durations of 0 to 3 polls: a failed write before,
  between and after good ones, and a deadline that passes in the loop and inside
  a read. The launches differ from a plain one in one flag before the command,
  one after it, and one key of a file, which is what two places that may
  disagree and a file under them need; every kind of value a check singles out
  occurs in one of them. Sessions run with and without a gateway and a capture,
  and with each setting that the socket refuses, two at once included.
  `MaxTimeout` is 1000 seconds there, so that a timeout beyond it is a number TLC
  can compare; the code compares it with nothing.
  A duration is a number of polls: `--duration inf` asks for a session without
  end, and `CommandEnds` does not speak of it.
- `definitions`: registries of up to two definitions, so that names and
  identifiers can collide; every kind of flag a file may hold, every kind of decoder,
  identifiers in the spellings that normalisation tells apart, and responses
  with high bytes, padding on either side, decimal and other digits, and too
  few bytes. The order of calls is unbounded.
- `interfaces`: two interfaces of the kinds external, built-in, Wi-Fi and bridge,
  listed in either order, in every condition, and one change of the host. The
  ranking compares two at a time, and a listing or a prompt is disturbed by
  one change already.

### Fairness

Safety runs use none. `enet_live` assumes that the interpreter takes the
running call's next step when there is one (weak fairness on the steps of the
call, not on starting calls) and that time passes (`Tick`), which is what
gives blocking calls their timeout. Nothing is assumed of the peer, the
host, the operator or the callers. `program` assumes the same of a launch:
it goes on - its calls return, which is `CallsReturn` - and time passes. It is
not assumed that data ever arrive or stop, or that the disk is freed.

## 4. Proofs

Theorems hold for every value of the constants that satisfies the assumptions
of the module, and for every bound. Those with a property in the last column
state what a run of section 3 checks on a small instance.

| Module | Theorem | Property |
| --- | --- | --- |
| `EnetProofs` | `InductiveInvariant`, `TypeCorrect` | `IInv`, `TypeOK` |
| | `ConnectedMeansSocket` | `SocketMatchesState` |
| | `TimeoutAlwaysRestored` | `TimeoutRestored` |
| | `DeadlineCoversWholeRead` | `WholeReadDeadline` |
| | `AttemptsAreSpent` | `FailureSpendsAttempts` |
| | `TimeoutsAreHarmless` | `TimedOutReadIsHarmless` |
| | `ConnectingEnds` | `ConnectingIsTransient` |
| | `LossesAreReal` | `LostMeansPeerGone` |
| | `FailedSendsEndTheLink` | `FailedSendEndsLink` |
| | `EnetImplementsContract` | `ImplementsContract` |
| | `CallsComeNearerTheirEnd` | `CallsRunDown` |
| `MockProofs` | `MockInvariant` | |
| | `StreamStaysInOrder` | `StreamInOrder` |
| | `ObserversAreHeard` | `EveryObserverHears` |
| | `PeerIsGone` | `PeerDisappears` |
| | `MockImplementsContract` | `ImplementsContract` |
| `ReplayProofs` | `ReplayInvariant` | |
| | `FirstPassIsInOrder` | `FirstPassOnceInOrder` |
| | `RequestsFollowRecording` | `SentFollowsRecording` |
| | `NothingIsWithheld` | `NothingWithheld` |
| | `ReplayRefinesTransport` | `ImplementsContract` |
| `CaptureProofs` | `CaptureInvariant` | |
| | `AcknowledgedSurvives` | `NothingAcknowledgedIsLost` |
| | `LinesStayInOrder` | `DiskInOrder` |
| | `HeaderComesFirst` | `HeaderBeforePackets` |
| | `CapturesOnlyGrow` | `CaptureOnlyGrows` |
| | `RecordedInvariant` | |
| | `LoadingIsFaithful` | `LoadReturnsRecorded` |
| | `ExportsTellOneStory` | `ExportsAgree` |
| `ProgramProofs` | `ProgramInvariant`, `SessionInvariant` | |
| | `SessionsDisconnect` | `DisconnectedAtExit` |
| | `FlagsAreHonoured` | `FlagsAnywhere` |
| | `CapturesAreComplete` | `CaptureCompleteAtExit` |
| | `ExitCodesAreTrue` | `ExitCodeTellsTruth` |
| | `RefusalsAreExplained` | `RefusedSettings` |
| `DiscoveryProofs` | `DiscoveryInvariant` | |
| | `ChoiceIsBest` | `AutomaticChoiceIsBest` |
| | `LinkDecides` | `LinkComesFirst` |
| | `ChoiceIsPhysical` | `PhysicalOnly` |
| | `AnswersAreHonoured` | `AnswerMeansWhatWasShown` |
| `VehicleProofs` | `RegistryHoldsDefinitions` | |
| | `ResultsAreExplained` | |
| | `FactsAreVerified` | `NothingUnverifiedIsFact` |
| | `LookupIsComplete` | `LookupFindsEverySpelling` |
| | `ValuesShowTheirBytes` | `ValueShowsItsBytes` |
| | `FallbackIsJustified` | `FallbackIsTheDatasFault` |
| | `VehicleInvariant` | |
| | `VehicleIsHonest` | `SaysWhatItKnows` |

Assumptions. `EnetTransport`: configurations are configurations, with a
connect_timeout that is not 0, which no file and no flag can make it
(`ConfigsAssumption`); sizes and bounds are natural numbers, and callers ask for
timeouts that the socket takes (`BoundsAssumption`). `MockTransport`: sizes are positive, scripts are numbers
or none (`MockAssumption`). `ReplayTransport`: captures are packets, received ones not
empty and numbered in the order of their bytes, and reads ask for something
(`ReplayAssumption`). `CaptureLog`: the bound is a natural number
(`CaptureAssumption`). `Program`: `MaxTimeout` is a natural number
(`TimeoutAssumption`); the read-only switch is on, off, not given or
given both ways, and a file's boolean is one of two (`SwitchAssumption`);
commands are those of the parser, the flags with a type have it, and a working
directory is a path without `~` (`LaunchAssumption`). `InterfaceDiscovery`: hosts are lists of devices
(`DiscoveryAssumption`).
`Decoding`: documents are lists of records, lengths and offsets are integers, an
identifier has its three fields, a defect and a flag are of the kinds listed,
responses are bytes (`DefinitionsAssumption`).
`Vehicle`: a name is in upper case or not (`UnitsAssumption`).
TLC evaluates each of them on the instances.

**ENET.** None of the first three invariants is inductive by itself. That the
timeout is restored needs to know that a running recv remembers the configured
timeout (`op.previous`); that the socket is held when a read goes on needs to
know that transfers run only while connected and that attempts of reconnect()
run with the old socket closed; that the deadline covers the read needs the
`pc` to agree with the kind of call. `PhaseOK` says these things, and `IInv` is
its conjunction with the type invariant, the three invariants and
`ErrorExplained`, that ERROR comes with a message. There is one lemma for each
of the three groups of actions in `Next` (`OpeningKeepsIInv`,
`TransferKeepsIInv`, `WorldKeepsIInv`), one step per action in it. The action
properties follow from `IInv`, action by action; `AttemptsAreSpent` needs one
more invariant, `AttemptsCounted`. `StepKeepsContract` names for each action the
action of `ByteTransport` it maps to.

`CallsComeNearerTheirEnd` is the half of `CallsReturn` that needs no fairness: a
step of a running call lessens what it has left to do (`Remaining`: attempts and
the phases of one, bytes still wanted) or the time it may still wait for that
(`Clock`), for any number of attempts and bytes. That some step remains possible
until then is ENABLED, and TLC's.

**Mock.** `MockInv` adds to the types that the callbacks made so far are the
first of the snapshot, from which `EveryObserverHears` follows when the
emission is over. The stream (`InOrder`) needs to know what flattening the queue
gives when a payload is appended and when the head is split. The library's
flattening is a recursive function, so `SequenceLemmas` first shows that it
exists and what it is from either end, by induction over the set of the numbers
for which that holds.

**Capture.** `CaptureInv` takes the file and the buffer as one sequence,
`whole`: a flush moves the boundary between them, a failed one moves it less
far or cuts off the last line, a crash cuts off the end. So the order of the
lines is an invariant of `whole`, and that of the file follows. That a header
precedes the packets needs that `whole` holds the header of the open logger,
which no failure removes because the line of a header fits the buffer; that an
acknowledged packet is on the disk needs `Flushing`, that the line a running
call writes is the last of the buffer.

What loads is a matter of kinds: `RecordedInv` says which packets the logger
holds in memory (`InMemory`: in order, all of this logger), that those tracked
are among the lines written, and that in `whole` the lines of packets are
those tracked, each behind a header of its logger (`Kinds`). A capture is
loaded by picking positions out of the file; that picking them in ascending
order is possible and complete is `ListedInOrder` and `ListedWhole`, so that
what is loaded, or exported, is in the order of the file and nothing of a kind
is left out.

**Replay.** `ReplayInv` is about `Rest`, the packets ahead of the cursor. Their
bytes are in order and beyond everything read in this pass (`Ordered`); what
was read and what is left are the recording, as long as nothing was sent and
the list did not grow before (`Whole`); every packet of the list is part of one
of the recording (`Originates`); and the requests accepted so far are places
of the recording in ascending order, behind which the cursor stands
(`Consumed`). A read that takes the head of a packet leaves its rest where the
head was, so all four survive it; a rewind starts over with a list that may
hold a rest twice, which is why the first pass is the one with the guarantee.

**Program.** `ProgramInv` says that what a launch was parsed and loaded to
stays so until the command begins, and in which places of a session the link
can be up. `SessionInv` adds what is true at each place of a session: before
the capture is opened nothing is touched (`Untouched`); from then on every
packet that arrived is in memory and on a line or counted as dropped
(`Recorded`), and the header and the event are there when the way that led here
wrote them (`OnTheWay`); and what is left of that when the process has ended
(`EndedSession`). Counting is over file and buffer together, of which a flush
moves the boundary. That the link is closed on a traceback needs no more. For
`RefusedSettings` the session has to keep to the refusal it was given: a link
that came up had none, and an outcome among `Refusals` is it (`SessionInv`). Why
the socket refuses needs what the check of each key lets through, and what the
overrides put in its place, flag by flag.

**Discovery.** `DiscoveryInv` says that a listing says of each interface what
the host has, or had before it changed (`Says`), and that ifconfig prints a name
once. Names being numbers, two candidates never tie, so that `Ahead` is a total
order; the first in rank then has none ahead of it, and `LinkDecides` is a
matter of the sums of weights. `AnswersAreHonoured` needs that `screen` says of the
list what the code prints - position n is the element that the index n - 1
finds - at every moment between the question and the answer.

**Decoding.** `Registered` says that every definition in a registry was made
by the constructor or by from_dict from a record that passed their checks.
`Explained` follows step by step: what is shown is what decode() makes of a
response with such a definition. The rest is about what it can be then. The
window is whole because the offset and the length passed (`WindowIsWhole`), its
length is what the decoder wants (`LengthsFit`), and what strip() and rstrip()
leave is a stretch of it with nothing but padding and white space outside
(`TextIsAStretch`). A number is a fold of digits, its bytes or pairs of decimal
digits, of which the first may carry a sign. `FoldsAll` and `FoldsAt` spell the
fold out digit by digit, `PositionalHasPartials` gives the numbers that the first
1, 2, ... digits stand for, and `QuotientsArePartials` says that dividing by the
base walks back through them; so the digits come back (`DigitsComeBack`), and with
them the bytes, in either order (`IntegersEncode`, `DecimalsEncode`), whatever
their number. `KnowsInv` says that names in the vehicle's dict are unique
and their units answered, and that a DME whose caller kept the registry it
handed over shares it.

Only model-checked: liveness (`CallsReturn`, `CommandEnds`), which is out of the
prover's reach with ENABLED; of `CallsReturn` the measure is proved (`CallsRunDown`). Every other property of a passing run is a theorem.
RECURSIVE operators are not used; what a recursive function or a fold computes is
proved by induction over the set of places for which it holds, which has a least
exception if it has any (`Induction` of `SequenceLemmas`).

## 5. Where code and documents differ

Found by the runs of the same names:

- `replay_twice`: a short read leaves a duplicate in the list that rewind and
  connect walk again (`transport/replay.py:239`, against lines 8 and 169).
- `capture_closed`: an event line makes a capture unreadable, and both
  `connect` and `capture` write one (`transport/replay.py:84`,
  `docs/usage.md:431`).
- `session_lost`: a connection lost while listening ends `connect` and
  `capture` with exit code 0 (`cli.py:325`, against `docs/usage.md:76`).
- `unverified_flag`: a definition whose `verified` is a text decodes as
  verified, `"false"` and `"no"` included (`decoding/signals.py:182`, against
  line 11).

Part of the models, without a run of their own. Transports and captures: after a
connect that found no usable interface, `interface`, and with it comms_level,
still reports that of an earlier attempt (`transport/enet.py:126`, against the
docstring at line 83); the header on disk keeps the level of the moment it was
opened, NONE, for every capture the command line makes
(`logging/diagnostic_logger.py:207`, against `docs/usage.md:321`); ETIMEDOUT of
a dead connection is a `TimeoutError`, hence `socket.timeout`, hence "no data
received within ..." at once, with the link still CONNECTED (`RecvTimesOut`;
`transport/enet.py:288`, against line 275); one line torn by a crash makes the
whole capture unreadable, complete lines included (`Garbled`;
`transport/replay.py:75`, against `docs/usage.md:302`); an OSError of the
capture right after connect() leaves the command before the `try` that
disconnects (`RecordLevel`; `cli.py:278`, 474); reconnect() retries
ConnectionFailedError only, so that a missing interface or link at one attempt -
a cable being replugged - ends it with attempts left (`ResolveFails`;
`transport/enet.py:229`, `docs/usage.md:286`); Wi-Fi is a candidate while
networksetup fails (`PhysicalOnly`; `transport/ethernet.py:146`, against
`docs/usage.md:111`); an external adapter that is unplugged and still has its
self-assigned address outranks a built-in port with a link (`LinkComesFirst`),
and connect() then reports no link; a timeout of 0 or a read of 0 bytes tears
down a healthy link (`transport/enet.py:292`, 304; the exception in
`LostMeansPeerGone`); what socket(), setsockopt(), both settimeout() and a port
or name out of range raise is no f10diag error and leaves CONNECTING (`transport/enet.py:156`, 166,
189; `Foreign` in `ConnectingIsTransient`); a reconnect_delay that sleep() does
not take ends reconnect() with attempts left (line 233); the recording of a replay does not load (`Sniffed`);
`exhausted` is true of a replay that skipped packets, since the cursor passes
those of the other direction (`NextIndex`); receive_exactly() with no time left
times out even when there is no connection (`LoopExpires`).

Configuration and command line (`Config`, `Program`): `--port 70000` is a
traceback and not exit code 2 (`docs/usage.md:77`), like `--timeout -1`; a file
that is not UTF-8, and an integer float() does not take, escape as
UnicodeDecodeError and OverflowError; nan, infinity and 1e10 seconds are accepted
as timeouts, from a file (`config.py:65`) or from `--timeout`, and refused by the
socket with ValueError and OverflowError; a host that is not ASCII and that IDNA
cannot encode, or one with a NUL, passes every check and ends in a TypeError (an
ASCII host with an empty label is only not found, exit code 1); a superscript two
at the prompt of `network select` passes isdigit() and ends in a ValueError of
int() (`cli.py:222`); `--host ""` counts as a host;
`--interface auto` is taken for a name, while `"auto"` in a file means none;
`-v connect -v` counts one -v, not two, and a single `-v` lowers a configured
DEBUG to INFO; `--read-only` and `--allow-write` exclude each other only on the
same side of the command.

Decoding and vehicle: null for a length, an offset or a scale is a TypeError, and
Infinity for a length an OverflowError, that load() does not turn into a
ValueError; nor does it turn the OSError of a file it may not read or the
RecursionError of a deeply nested one; a definition made in code keeps its
identifier as it is written, so that a lookup misses lower-case ones and those
with "0x"; a DME handed an
empty registry gets another (`ecus/msv90.py:52`), and the bundled one is not
filtered to its ECU (line 33); get_ecu() puts the name asked for in upper case
and register_discovered() does not; padding in front of white space stays in a
text, and 0xFF in front of white space makes an ASCII text fail. `network
interfaces` asks the host twice for what it shows side by side (`cli.py:185`);
nothing promises that the two agree.

## 6. Not modelled

- Rendering, help texts and log formatting; `configure_logging` beyond the
  level it is given; `demo`, which runs a mock through fixed steps.
- `protocols/`: placeholders that raise when constructed. The reads of an ECU
  raise NotVerifiedError and do nothing else.
- `definitions/*.json`: data, empty of verified entries by design.
- `probe_tcp`, `get_interface_info`: no state of their own.
- The conversion of packets to hex and back, timestamps, and the single-document
  layout of captures: conversions between equal contents.
- The text of `ifconfig` and `networksetup`, which is taken for the facts it
  states, and the paths of files.
- Scaling by factors that are not whole numbers, and integers too large for the
  float product: floats.
- Integers of thousands of digits where they are printed (a model year, a port
  refused with its value); a capture_dir that the system refuses with another
  error than OSError; markup in a path that rich refuses after a session
  (`cli.py:310`, 475).
- A mock whose responder raises; a session header longer than the buffer of its
  file; identifiers in which taking "0X" away leaves another ("00XX").

## 7. Plan

Done, in this order: ByteTransport, EnetTransport with proofs, Transport and
MockTransport, ReplayTransport, CaptureLog, CliSession, InterfaceDiscovery;
then Values, Decoding, Vehicle, Config, Program around CliSession, the exports
of captures, the proofs about captures, the mock, the program and decoding; then
the lines of captures, the remaining proofs about sessions, captures and
decoding, and those about replay and interface discovery; last, the settings
that a socket refuses, the numbers typed at the prompt and the measure of a call.

What is left: an order of the two lookups of `network interfaces`, of which
nothing is promised today.
