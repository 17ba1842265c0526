------------------------------- MODULE Config -------------------------------
(***************************************************************************)
(* Configuration (config.py): what a TOML file says, what the program      *)
(* makes of it, and the flags that override it.                            *)
(*                                                                         *)
(* A TOML value is a record of its kind and, for numbers and strings of    *)
(* digits, its number; strings that mean nothing to the program are        *)
(* numbered too.  An integer beyond the largest float is "huge", with a    *)
(* number of its sign.  A document is a function from keys to values, with *)
(* how reading the file went and whether it has what nobody asked for:     *)
(* another section, no table where one should be, or another key in [enet].*)
(***************************************************************************)
EXTENDS Integers, Sequences

V(kind, n) == [kind |-> kind, n |-> n]

Absent   == V("absent", 0)      \* no such key; None, when normalised
True     == V("boolean", 1)
False    == V("boolean", 0)

(* What a check may raise. *)
ConfigError   == V("ConfigError", 0)
OverflowError == V("OverflowError", 0)
Raised == {ConfigError, OverflowError}

EnetKeys == {"interface", "host", "port", "connect_timeout",
             "receive_timeout", "reconnect_attempts", "reconnect_delay"}
Keys == EnetKeys \cup {"model_year", "read_only", "level", "log_packets"}

(* AppConfig() *)
Defaults ==
    [key \in Keys |->
        CASE key = "connect_timeout"         -> V("float", 5)
          [] key = "receive_timeout"         -> V("float", 2)
          [] key = "reconnect_attempts"      -> V("integer", 0)
          [] key = "reconnect_delay"         -> V("float", 1)
          [] key = "model_year"              -> V("integer", 2011)
          [] key = "level"                   -> V("INFO", 0)
          [] key \in {"read_only", "log_packets"} -> True
          [] OTHER                           -> Absent]

-----------------------------------------------------------------------------
(* One value.                                                              *)

Unset == {"absent", "empty", "auto"}

_as_optional_str(value) ==
    CASE value.kind \in Unset -> Absent
      [] value.kind \in {"text", "digits", "unencodable"} -> value
      [] OTHER -> ConfigError

MaxPort == 65535

(* An integer, or a string of one. *)
_as_optional_port(value) ==
    CASE value.kind \in Unset -> Absent
      [] value.kind \in {"integer", "digits"} /\ value.n \in 1 .. MaxPort
                              -> V("integer", value.n)
      [] OTHER                -> ConfigError

\* Mutant: zero and negative numbers pass.
_as_any_float(value, allow_zero) ==
    IF value.kind \in {"integer", "float", "nan", "inf"} THEN value
                                                         ELSE ConfigError

(* Neither comparison is true of nan, and infinity is positive; minus      *)
(* infinity is but a negative number.  float() takes no huge integer.      *)
_as_positive_float(value, allow_zero) ==
    CASE value.kind = "huge"           -> OverflowError
      [] value.kind \in {"nan", "inf"} -> value
      [] value.kind \in {"integer", "float"}
           /\ (value.n > 0 \/ (value.n = 0 /\ allow_zero)) -> V("float", value.n)
      [] OTHER -> ConfigError

(* `isinstance(value, int)', a boolean being refused before. *)
Integer(value, smallest) ==
    IF value.kind \in {"integer", "huge"} /\ value.n >= smallest
    THEN value ELSE ConfigError

Boolean(value) == IF value.kind = "boolean" THEN value ELSE ConfigError

Level(value) ==
    IF value.kind \in {"DEBUG", "INFO", "WARNING", "ERROR", "CRITICAL"}
    THEN value ELSE ConfigError

(* The four from_dict: what each key becomes.                              *)
Checked(key, value) ==
    CASE key \in {"interface", "host"} -> _as_optional_str(value)
      [] key = "port"                  -> _as_optional_port(value)
      [] key \in {"connect_timeout", "receive_timeout", "reconnect_delay"}
                        -> _as_positive_float(value, key = "reconnect_delay")
      [] key = "reconnect_attempts"    -> Integer(value, 0)
      [] key = "model_year"            -> Integer(value, value.n)
      [] key = "level"                 -> Level(value)
      [] OTHER                         -> Boolean(value)

-----------------------------------------------------------------------------
(* A file.                                                                 *)

from_dict(document) ==
    [key \in Keys |->
        LET value == document.values[key]
        IN IF value = Absent THEN Defaults[key] ELSE Checked(key, value)]

(* Reading and parsing a file.  load() turns OSError and TOMLDecodeError   *)
(* into a ConfigError; it lets through what is no UTF-8, what int() says   *)
(* of thousands of digits and the parser of a thousand brackets, and what  *)
(* is raised before its try: by is_file(), of a path out of reach, and     *)
(* by expanduser(), of a home nobody has.                                  *)
Reading(file) ==
    CASE file = "read"         -> "ok"
      [] file = "undecodable"  -> "UnicodeDecodeError"
      [] file = "endless"      -> "ValueError"
      [] file = "nested"       -> "RecursionError"
      [] file = "out_of_reach" -> "OSError"
      [] file = "homeless"     -> "RuntimeError"
      [] OTHER                 -> "ConfigError"

(* The keys in the order they are checked in. *)
Order == <<"reconnect_attempts", "interface", "host", "port",
           "connect_timeout", "receive_timeout", "reconnect_delay",
           "model_year", "read_only", "level", "log_packets">>

Fails(document, i) == from_dict(document)[Order[i]] \in Raised

(* The first key that is wrong decides.                                    *)
CheckEnds(document) ==
    IF \E i \in DOMAIN Order :
          /\ from_dict(document)[Order[i]] = OverflowError
          /\ \A j \in 1 .. (i - 1) : ~Fails(document, j)
    THEN "OverflowError"
    ELSE IF \E i \in DOMAIN Order : Fails(document, i) THEN "ConfigError"
                                                       ELSE "ok"

(* How load() ends.  No file is an error only if one was named. *)
LoadEnds(document, named) ==
    IF document.file = "absent" /\ ~named THEN "ok"
    ELSE IF Reading(document.file) # "ok" THEN Reading(document.file)
    ELSE IF document.unknown              THEN "ConfigError"
                                          ELSE CheckEnds(document)

Loaded(document) == IF document.file = "absent" THEN Defaults
                                                ELSE from_dict(document)

(* Flags are taken as they come, without the checks a file is put to. *)
with_overrides(config, given) ==
    [key \in Keys |-> IF key \in DOMAIN given /\ given[key] # Absent
                      THEN given[key] ELSE config[key]]

-----------------------------------------------------------------------------
(* What the rest of the program asks of a configuration.                   *)

Missing(config) == {key \in {"host", "port"} : config[key] = Absent}

guard_write(config) ==
    IF config["read_only"] = True THEN "SafetyViolationError" ELSE "ok"
=============================================================================
