------------------------------ MODULE Program -------------------------------
(***************************************************************************)
(* The program f10diag from its command line to its exit code: main() of   *)
(* cli.py.  The arguments are parsed, the configuration is loaded and      *)
(* overridden (Config), and the command runs; `connect' and `capture' are  *)
(* the sessions of CliSession, the others are one step here.               *)
(*                                                                         *)
(* A launch is the command, the flags before it (top) and after it (leaf), *)
(* the config.toml of the working directory (here) and the file --config   *)
(* names (named).  What rich prints is left out.                           *)
(***************************************************************************)
EXTENDS CliSession, Config

CONSTANTS
    Launches,
    MaxTimeout  \* the most seconds settimeout() takes: 2^63 ns

Unverified == {"ecu_list", "ecu_identify", "dme_dtc", "dme_live"}
Sessions == {"connect", "capture"}
Commands == {"version", "none", "vehicle_info", "demo", "export",
             "network_interfaces", "network_select"} \cup Unverified \cup Sessions

ASSUME TimeoutAssumption == MaxTimeout \in Nat

(* What argparse makes of the flags that have a type, the values of a      *)
(* file, and a working directory, which is nobody's home.                  *)
ASSUME LaunchAssumption ==
    \A l \in Launches :
       /\ l.command \in Commands
       /\ \A flags \in {l.top, l.leaf} :
             /\ flags["port"].kind \in {"absent", "integer"}
             /\ flags["timeout"].kind \in {"absent", "float", "nan", "inf"}
             /\ \A flag \in {"port", "timeout"} :
                   /\ flags[flag].n \in Int
                   /\ flags[flag].kind = "absent" => flags[flag] = Absent
       /\ \A document \in {l.here, l.named}, key \in Keys :
             document.values[key].n \in Int
       /\ l.here.file # "homeless"

(* A switch is on or off, where it is given and where a file sets it.      *)
ASSUME SwitchAssumption ==
    \A l \in Launches :
       /\ \A flags \in {l.top, l.leaf} :
             flags["read_only"] \in {Absent, True, False, V("both", 0)}
       /\ \A document \in {l.here, l.named} :
             document.values["read_only"].kind = "boolean" =>
               document.values["read_only"] \in {True, False}

VARIABLES
    launch,
    args,       \* the parsed arguments
    config      \* the configuration the command gets

program == <<launch, args, config>>

Flags == {"verbose", "raw", "json", "config", "interface", "host", "port",
          "timeout", "read_only"}

(* The destinations of the flags that have another name in the file. *)
Overrides == [interface |-> "interface", host |-> "host", port |-> "port",
              receive_timeout |-> "timeout", read_only |-> "read_only"]

-----------------------------------------------------------------------------
(* build_parser() and parse_args().                                        *)

(* --read-only and --allow-write exclude each other, in one place. *)
Conflict(flags) == flags["read_only"].kind = "both"

ParseFails ==
    /\ pc = "shell"
    /\ launch.malformed \/ Conflict(launch.top) \/ Conflict(launch.leaf)
    /\ Leave("ended", "2")
    /\ UNCHANGED <<options, left, transport, logger, disk_full, lost, program>>

Parses == pc = "shell" /\ ~launch.malformed
            /\ ~Conflict(launch.top) /\ ~Conflict(launch.leaf)

(* --version and --help, which argparse answers itself. *)
Informs ==
    /\ Parses /\ launch.command = "version"
    /\ Leave("ended", "0")
    /\ UNCHANGED <<options, left, transport, logger, disk_full, lost, program>>

NoCommand ==
    /\ Parses /\ launch.command = "none"
    /\ Leave("ended", "2")
    /\ UNCHANGED <<options, left, transport, logger, disk_full, lost, program>>

\* Mutant: the leaf commands have defaults of their own.
namespace_of_leaf(top, leaf) == leaf

(* The flags of the leaf suppress their defaults: those that were given,   *)
(* and only those, overwrite what the top level parsed.                    *)
namespace(top, leaf) ==
    [flag \in Flags |-> IF leaf[flag] = Absent THEN top[flag] ELSE leaf[flag]]

Parse ==
    /\ Parses /\ launch.command \notin {"version", "none"}
    /\ args' = namespace(launch.top, launch.leaf)
    /\ Goto("load")
    /\ UNCHANGED <<options, left, transport, logger, disk_full, lost, launch,
                   config>>

-----------------------------------------------------------------------------
(* The configuration.                                                      *)

Named == args["config"] # Absent
Document == IF Named THEN launch.named ELSE launch.here

Load ==
    /\ pc = "load" /\ LoadEnds(Document, Named) = "ok"
    /\ config' = with_overrides(
                   Loaded(Document),
                   [key \in DOMAIN Overrides |-> args[Overrides[key]]])
    /\ Goto("dispatch")
    /\ UNCHANGED <<options, left, transport, logger, disk_full, lost, launch,
                   args>>

LoadFails ==
    /\ pc = "load" /\ LoadEnds(Document, Named) # "ok"
    /\ Leave("ended", IF LoadEnds(Document, Named) = "ConfigError"
                      THEN "2" ELSE "traceback")
    /\ UNCHANGED <<options, left, transport, logger, disk_full, lost, program>>

(* configure_logging() *)
_log_level(verbosity) == CASE verbosity = 0 -> "WARNING"
                           [] verbosity = 1 -> "INFO"
                           [] OTHER         -> "DEBUG"

log_level == IF args["verbose"].n > 0 THEN _log_level(args["verbose"].n)
                                      ELSE config["level"].kind

-----------------------------------------------------------------------------
(* The commands.                                                           *)

(* What settimeout() raises of some seconds.                               *)
TimeoutRaises(value) ==
    IF value.kind = "nan" THEN "ValueError"
    ELSE IF value.kind = "inf" \/ value.n \notin -MaxTimeout .. MaxTimeout
         THEN "OverflowError"
    ELSE IF value.n < 0 THEN "ValueError" ELSE "none"

(* What connect() of ENETTransport raises of a setting; the port is looked *)
(* at once the host is resolved.                                           *)
SocketRaises(key) ==
    LET value == config[key]
    IN CASE key = "host" ->
              IF value.kind = "unencodable" THEN "TypeError" ELSE "none"
         [] key = "port" ->
              IF value.n \in 0 .. MaxPort THEN "none" ELSE "OverflowError"
         [] OTHER -> TimeoutRaises(value)

Refused == {key \in {"connect_timeout", "host", "port", "receive_timeout"} :
              SocketRaises(key) # "none"}

(* The first that is refused, in the order connect() comes to them.        *)
Refusal ==
    IF "connect_timeout" \in Refused THEN SocketRaises("connect_timeout")
    ELSE IF "host" \in Refused       THEN SocketRaises("host")
    ELSE IF "port" \in Refused       THEN SocketRaises("port")
                                     ELSE SocketRaises("receive_timeout")

BeginSession ==
    /\ pc = "dispatch" /\ launch.command \in Sessions
    /\ command' = launch.command /\ gateway_set' = (Missing(config) = {})
    /\ log_packets' = (config["log_packets"] = True)
    /\ duration' = launch.duration /\ left' = launch.duration
    /\ refusal' = Refusal
    /\ Goto("start")
    /\ UNCHANGED <<transport, logger, disk_full, lost, program>>

(* What the other commands may end with.  `interfaces' and `select' depend *)
(* on the host and on what is typed, an export on two files, and `info' on *)
(* whether what the file says of the vehicle is markup that rich refuses.  *)
Endings ==
    CASE launch.command = "demo"               -> {"0"}
      [] launch.command = "vehicle_info"       -> {"0", "traceback"}
      [] launch.command \in Unverified         -> {"3"}
      [] launch.command = "network_interfaces" -> {"0", "1"}
      [] launch.command = "network_select"     -> {"0", "1", "2", "traceback"}
      [] launch.command = "export"             -> {"0", "1", "traceback"}

(* Ctrl-C is exit code 1, whatever runs. *)
RunCommand ==
    /\ pc = "dispatch" /\ launch.command \notin Sessions
    /\ \E code \in Endings \cup {"1"} : Leave("ended", code)
    /\ UNCHANGED <<options, left, transport, logger, disk_full, lost, program>>

-----------------------------------------------------------------------------
ProgramInit ==
    /\ launch \in Launches
    /\ args = [flag \in Flags |-> Absent] /\ config = Defaults
    /\ pc = "shell"
    /\ command = "none" /\ gateway_set = FALSE /\ log_packets = FALSE
    /\ duration = 0 /\ left = 0 /\ refusal = "none" /\ Idle

ProgramSteps ==
    \/ ParseFails \/ Informs \/ NoCommand \/ Parse \/ Load \/ LoadFails
    \/ BeginSession \/ RunCommand
    \/ CommandSteps /\ UNCHANGED program

ProgramNext ==
    \/ ProgramSteps
    \/ (Tick \/ DiskFills) /\ UNCHANGED program

all == <<vars, program>>
ProgramSpec == ProgramInit /\ [][ProgramNext]_all

(* The program runs on - a read returns in the end, as run enet_live shows *)
(* of ENETTransport - and time passes.                                     *)
FairSpec ==
    ProgramSpec /\ WF_all(ProgramSteps) /\ WF_all(Tick /\ UNCHANGED program)

-----------------------------------------------------------------------------
(* On every orderly way out - done, lost, timed out, interrupted - the     *)
(* transport was disconnected.  The one way out that is not orderly is the *)
(* OSError of a capture between connect() and the try, before any data.    *)
DisconnectedAtExit ==
    pc = "ended" /\ link = "connected" => exit = "traceback" /\ received = 0

(* When a command with a capture exits 0 or 1, the capture is closed and   *)
(* has every chunk that arrived, also if the disk was full on the way -    *)
(* except lines the failed writes took along - and what the command counts *)
(* and reports is what arrived, whatever became of the file.               *)
CaptureCompleteAtExit ==
    pc = "ended" /\ exit \in {"0", "1"} =>
      /\ packets = received
      /\ WritesCapture => ~handle /\ Count("packet") + dropped = received

(* docs/usage.md, "Exit codes".  2 and 3 mean that nothing was done: disk  *)
(* and network are untouched, not even an empty capture is left.  3 is for *)
(* what is unverified, and for a gateway that neither the flags nor the    *)
(* file name.  No command runs on a file that does not load.  0 from a     *)
(* session: the connection was established, and the capture says so.       *)
ExitCodeTellsTruth ==
    pc = "ended" =>
      LET session == launch.command \in Sessions
          gateway == \A key \in {"host", "port"} :
                        \/ args[key] # Absent
                        \/ ~Named /\ Loaded(launch.here)[key] # Absent
                        \/ Named /\ Loaded(launch.named)[key] # Absent
      IN /\ exit \in {"2", "3"} => file = <<>> /\ ~handle /\ outcome = "none"
         /\ exit = "3" => launch.command \in Unverified \/ (session /\ ~gateway)
         /\ session /\ ~gateway => exit \notin {"0", "1"}
         /\ exit \in {"0", "1", "3"} /\ launch.command # "version" =>
              LoadEnds(Document, Named) = "ok"
         /\ exit = "0" /\ session =>
              /\ outcome # "none" /\ link # "connecting"
              /\ WritesCapture => Count("session") = 1 /\ Count("event") = 1
              /\ link = "error" => lost

(* Every launch ends: also if data, or timeouts, never do.                 *)
CommandEnds == <>(pc = "ended")

(* "A flag you do not pass never clears a configured value", and where one *)
(* is passed makes no difference: each setting is that of the flag after   *)
(* the command, else of the flag before it, else of the file, else the     *)
(* default.  So a write passes its gate only if the last word on it, flag  *)
(* or file, was that it may.                                               *)
FlagsAnywhere ==
    pc = "dispatch" =>
      /\ \A key \in DOMAIN Overrides :
            LET after == launch.leaf[Overrides[key]]
                before == launch.top[Overrides[key]]
            IN config[key] = IF after # Absent THEN after
                             ELSE IF before # Absent THEN before
                             ELSE Loaded(Document)[key]
      /\ guard_write(config) = "ok" =>
            \/ launch.leaf["read_only"] = False
            \/ /\ launch.leaf["read_only"] = Absent
               /\ \/ launch.top["read_only"] = False
                  \/ /\ launch.top["read_only"] = Absent
                     /\ Loaded(Document)["read_only"] = False
      /\ launch.top["verbose"] = Absent /\ launch.leaf["verbose"] = Absent =>
            log_level = Loaded(Document)["level"].kind

(* A setting that the socket refuses.  The session ends without data, and  *)
(* not as a success.  It is one that no file is checked for - infinity,    *)
(* not-a-number, more seconds than the clock counts, a name that cannot be *)
(* encoded - or a flag gave it, past every check.  Any other traceback of  *)
(* a session is a file that does not load, the disk under a capture, or    *)
(* the system having no socket to give.                                    *)
RefusedSettings ==
    pc = "ended" /\ launch.command \in Sessions =>
      /\ Refused # {} => exit # "0" /\ received = 0
      /\ outcome \in Refusals =>
           \E key \in Refused :
              \/ key \in DOMAIN Overrides /\ args[Overrides[key]] # Absent
              \/ config[key].kind \in {"nan", "inf", "unencodable"}
              \/ config[key].n > MaxTimeout
      /\ exit = "traceback" /\ outcome \notin Refusals =>
           \/ LoadEnds(Document, Named) \notin {"ok", "ConfigError"}
           \/ WritesCapture
           \/ outcome = "OSError"
=============================================================================
