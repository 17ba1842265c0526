----------------------------- MODULE MCProgram -----------------------------
(***************************************************************************)
(* A small instance: launches that differ from plain ones in a flag before *)
(* the command, a flag after it, and a key of the file.                    *)
(***************************************************************************)
EXTENDS Program

NoFlags == [flag \in Flags |-> Absent]
With(flag, value) == [NoFlags EXCEPT ![flag] = value]

Given == {NoFlags, With("host", V("text", 2)), With("host", V("empty", 0)),
          With("port", V("integer", 6801)), With("port", V("integer", 70000)),
          With("timeout", V("float", -1)), With("timeout", V("float", 1001)),
          With("interface", V("auto", 0)), With("host", V("unencodable", 0)),
          With("verbose", V("count", 2)), With("config", V("text", 1)),
          With("read_only", True), With("read_only", False),
          With("read_only", V("both", 0)), With("json", True)}

NoFile == [file |-> "absent", unknown |-> FALSE,
           values |-> [key \in Keys |-> Absent]]
Gateway == [NoFile EXCEPT !.file = "read",
                          !.values["host"] = V("text", 1),
                          !.values["port"] = V("digits", 6801)]
Writable == [Gateway EXCEPT !.values["read_only"] = False,
                            !.values["interface"] = V("auto", 0)]
Key(key, value) == [Gateway EXCEPT !.values[key] = value]
Unlogged == Key("log_packets", False)

Files ==
    {NoFile, Gateway, Writable, [Gateway EXCEPT !.unknown = TRUE],
     Key("port", V("empty", 0)), Key("port", V("integer", 70000)),
     Key("port", V("text", 1)), Key("host", V("integer", 1)),
     Key("connect_timeout", V("huge", 1)), Key("reconnect_attempts", V("huge", 1)),
     [Key("connect_timeout", V("huge", 1)) EXCEPT !.values["port"] = True],
     [Key("receive_timeout", V("huge", 1)) EXCEPT !.values["level"] = True],
     Key("reconnect_delay", V("integer", 0)),
     Key("receive_timeout", V("integer", 0)), Key("reconnect_attempts", True),
     Key("level", V("text", 1)), Key("level", V("DEBUG", 0)),
     Key("model_year", V("text", 1)), Key("log_packets", V("text", 1))}
       \cup {[NoFile EXCEPT !.file = f] :
               f \in {"no TOML", "undecodable", "cannot be read", "endless",
                      "nested", "out_of_reach"}}

Launch(cmd, top, leaf, here, named, seconds) ==
    [command |-> cmd, malformed |-> FALSE, top |-> top, leaf |-> leaf,
     here |-> here, named |-> named, duration |-> seconds]

(* The configuration, under a command that does not use it. *)
Plain ==
    {Launch("vehicle_info", top, leaf, here, named, 0) :
       top, leaf \in Given, here \in {NoFile, Gateway}, named \in {NoFile, Writable}}
      \cup {Launch("demo", top, NoFlags, here, NoFile, 0) :
              top \in Given, here \in Files}
      \cup {Launch("demo", With("config", V("text", 1)), NoFlags, NoFile,
                   [NoFile EXCEPT !.file = "homeless"], 0)}

Others ==
    {Launch(cmd, NoFlags, NoFlags, here, NoFile, 0) :
       cmd \in {"version", "none", "network_interfaces",
                    "network_select", "export"} \cup Unverified,
       here \in {NoFile, Key("port", V("integer", 0))}}
      \cup {[Launch("connect", NoFlags, NoFlags, Gateway, NoFile, 0)
               EXCEPT !.malformed = TRUE]}

(* Sessions: with and without a gateway, a capture, and something wrong.   *)
SessionLaunches ==
    {Launch(cmd, NoFlags, NoFlags, here, NoFile, d) :
       cmd \in Sessions, here \in {NoFile, Gateway, Unlogged}, d \in {0, 2, 3}}
      \cup {Launch("connect", top, NoFlags, Unlogged, NoFile, 0) : top \in Given}
      \cup {Launch("capture", NoFlags, leaf, here, NoFile, 1) :
              leaf \in {With("port", V("integer", 6801)),
                        With("timeout", V("float", -1))},
              here \in {NoFile, Gateway}}
      \cup {Launch("connect", NoFlags, NoFlags,
                   [Unlogged EXCEPT !.values[key] = value], NoFile, 0) :
              key \in {"connect_timeout", "receive_timeout"},
              value \in {V("nan", 0), V("inf", 0), V("float", 1001),
                         V("float", -1)}}
      \cup {Launch("connect", NoFlags, NoFlags, here, NoFile, 0) :
              here \in {[Unlogged EXCEPT !.values["host"] = V("unencodable", 0)],
                       [Unlogged EXCEPT !.values["connect_timeout"] = V("nan", 0),
                                        !.values["host"] = V("unencodable", 0)]}}

MCLaunches == Plain \cup Others \cup SessionLaunches
=============================================================================
