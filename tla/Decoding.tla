------------------------------ MODULE Decoding ------------------------------
(***************************************************************************)
(* Signal definitions, their registry and what they make of a response of  *)
(* an ECU (decoding/signals.py).                                           *)
(*                                                                         *)
(* A record of a definition file is a TLA+ record with all fields present; *)
(* `defect' says that a required one is missing, or how the first of the   *)
(* conversions of from_dict that fails ends: "TypeError" for null or a     *)
(* list, "ValueError" for a text, "OverflowError" for Infinity or what is  *)
(* too large for a float.  `verified' is the kind of the JSON value of     *)
(* that key.  An identifier is its digits, their case and how often "0x"   *)
(* stands before or among them.  Scale and offset are integers here,       *)
(* floats there.                                                           *)
(***************************************************************************)
EXTENDS Values

CONSTANTS
    Documents,  \* definition files that can be parsed
    Records,    \* what a caller may construct a definition from
    Payloads,   \* responses
    MaxDefinitions  \* bound: definitions in a registry

(* The records in all files.                                               *)
Listed == UNION {ToSet(document.signals) \cup ToSet(document.definitions) :
                   document \in Documents}

Defects == {"none", "missing field", "TypeError", "ValueError",
            "OverflowError"}

(* The kinds of JSON values that bool() takes for true, and for false; a   *)
(* "text" and a "list" are not empty, a "number" is not zero.              *)
ForTrue  == {"true", "text", "number", "list"}
ForFalse == {"false", "absent", "null", "zero", "empty"}

ASSUME DefinitionsAssumption ==
    /\ \A document \in Documents :
          /\ document.signals \in Seq(Listed)
          /\ document.definitions \in Seq(Listed)
    /\ \A record \in Listed \cup Records :
          /\ record.identifier \in
                [digits : STRING, upper : BOOLEAN, marks : Nat]
          /\ record.length \in Int /\ record.offset_bytes \in Int
          /\ record.defect \in Defects
          /\ record.verified \in ForTrue \cup ForFalse
    /\ Payloads \subseteq Seq(Byte)
    /\ MaxDefinitions \in Nat

VARIABLES
    definitions,    \* the registry, in the order of its list
    result          \* of the last call

None == "None"
NoIdentifier == [digits |-> None, upper |-> TRUE, marks |-> 0]

-----------------------------------------------------------------------------
(* SignalDefinition.                                                       *)

\* Mutant: the length a decoder needs is not looked at.
MalformedSizeOnly(record) == record.length <= 0 \/ record.offset_bytes < 0

(* __post_init__; a decoder nobody knows may have any length. *)
Malformed(record) ==
    \/ record.length <= 0 \/ record.offset_bytes < 0
    \/ DECODER_LENGTHS(record.decoder) \notin {0, record.length}

(* The constructor, called by a program that has the values at hand, keeps *)
(* the identifier as it is written.                                        *)
SignalDefinition(record) ==
    [record |-> record, identifier |-> record.identifier,
     verified |-> record.verified = "true", loaded |-> FALSE]

(* What stands in a file for an identifier that is not known.              *)
Placeholders == {"", "UNKNOWN", "TODO", "TODO: VERIFY"}

\* Mutant: the case of the identifier is left as it is.
normalised_marks_only(identifier) ==
    IF identifier.digits \in {None} \cup Placeholders THEN NoIdentifier
    ELSE [identifier EXCEPT !.marks = 0]

(* upper().replace("0X", ""), which takes every "0X" away.                 *)
normalised(identifier) ==
    IF identifier.digits \in {None} \cup Placeholders THEN NoIdentifier
    ELSE [digits |-> identifier.digits, upper |-> TRUE, marks |-> 0]

(* bool(), whatever the value says. *)
Truthy(json) == json \in ForTrue

from_dict(record) ==
    [record |-> record, identifier |-> normalised(record.identifier),
     verified |-> Truthy(record.verified), loaded |-> TRUE]

(* How from_dict ends.  Its caller expects ValueErrors only.               *)
FromDictEnds(record) ==
    IF record.defect \in {"TypeError", "OverflowError"} THEN record.defect
    ELSE IF record.defect # "none" \/ Malformed(record) THEN "ValueError"
    ELSE "ok"

-----------------------------------------------------------------------------
(* decode().  A result is how the call ended and the DecodedValue, if any. *)

Ended(how) == [how |-> how, definition |-> None, payload |-> <<>>,
               raw |-> <<>>, value |-> DecodeError, unit |-> None,
               verified |-> FALSE, opted_in |-> FALSE]

end_offset(d) == d.record.offset_bytes + d.record.length

extract(d, payload) ==
    IF Len(payload) < end_offset(d) THEN <<>>
    ELSE SubSeq(payload, d.record.offset_bytes + 1, end_offset(d))

\* Mutant: the fallback passes the flag of the definition on.
FallbackVerified(d, base) ==
    [base EXCEPT !.how = "fallback", !.value = raw_hex(base.raw),
                 !.verified = d.verified]

(* The raw bytes stay visible, and claim nothing. *)
Fallback(d, base) ==
    [base EXCEPT !.how = "fallback", !.value = raw_hex(base.raw)]

Scaled(d, base, value) ==
    [base EXCEPT !.how = "decoded",
                 !.value = apply_scaling(value, d.record.scale,
                                         d.record.offset),
                 !.unit = d.record.unit, !.verified = d.verified]

decode(d, payload, allow_unverified) ==
    LET window == extract(d, payload)
        value == Decoded(d.record.decoder, window)
        base == [Ended("none") EXCEPT
                    !.definition = d, !.payload = payload, !.raw = window,
                    !.opted_in = allow_unverified]
    IN IF ~d.verified /\ ~allow_unverified
       THEN Ended("UnverifiedDefinitionError")
       ELSE IF window = <<>>       THEN Ended("DecodeError")
       ELSE IF value = DecodeError THEN Fallback(d, base)
       ELSE Scaled(d, base, value)

(* format(): the unit, the error and the label it adds to the value.       *)
format(r) ==
    (IF r.unit # None THEN {"unit"} ELSE {})
      \cup (IF r.how = "fallback" THEN {"error"} ELSE {})
      \cup (IF r.verified THEN {} ELSE {"[UNVERIFIED]"})

-----------------------------------------------------------------------------
(* The registry.                                                           *)

(* Selections are the places of what is selected. *)
verified == {i \in DOMAIN definitions : definitions[i].verified}

by_name(name) == {i \in DOMAIN definitions :
                    /\ definitions[i].record.name = name
                    /\ \A j \in 1 .. i - 1 : definitions[j].record.name # name}

by_identifier(identifier) ==
    LET wanted == [digits |-> identifier.digits, upper |-> TRUE, marks |-> 0]
    IN {i \in DOMAIN definitions : definitions[i].identifier = wanted}

(* load(): the list, or the first of two keys with a list that is not      *)
(* empty.  Entries are taken in order; a bad one refuses the whole file.   *)
entries(document) == IF document.signals # <<>> THEN document.signals
                                                ELSE document.definitions

Load(document) ==
    LET records == entries(document)
        Bad(i) == FromDictEnds(records[i]) # "ok"
    IN \/ /\ \A i \in DOMAIN records : ~Bad(i)
          /\ definitions' = [i \in DOMAIN records |-> from_dict(records[i])]
          /\ result' = Ended("ok")
       \/ \E i \in DOMAIN records :
             /\ Bad(i) /\ \A j \in 1 .. i - 1 : ~Bad(j)
             /\ UNCHANGED definitions
             /\ result' = Ended(FromDictEnds(records[i]))

(* Not a file, not JSON, neither a list nor an object with one, or a list  *)
(* of something else.  A file that cannot be read, and one nested too      *)
(* deeply, end in what nobody expects.                                     *)
LoadRefused ==
    /\ \E how \in {"ValueError", "OSError", "RecursionError"} :
          result' = Ended(how)
    /\ UNCHANGED definitions

Add(record) ==
    IF Malformed(record)
    THEN UNCHANGED definitions /\ result' = Ended("ValueError")
    ELSE /\ Len(definitions) < MaxDefinitions
         /\ definitions' = Append(definitions, SignalDefinition(record))
         /\ result' = Ended("ok")

Decode(i, payload, allow_unverified) ==
    /\ result' = decode(definitions[i], payload, allow_unverified)
    /\ UNCHANGED definitions

Init == definitions = <<>> /\ result = Ended("none")

Next ==
    \/ \E document \in Documents : Load(document)
    \/ LoadRefused
    \/ \E record \in Records : Add(record)
    \/ \E i \in DOMAIN definitions, payload \in Payloads, allow \in BOOLEAN :
          Decode(i, payload, allow)

vars == <<definitions, result>>
Spec == Init /\ [][Next]_vars
-----------------------------------------------------------------------------
Shown == result.how \in {"decoded", "fallback"}

(* Whatever is shown as a fact comes from a definition whose flag was set  *)
(* and from bytes its decoder accepted; the rest was asked for explicitly  *)
(* if it is a hypothesis, is labelled, and a dump claims no unit.          *)
NothingUnverifiedIsFact ==
    Shown =>
      LET flag == result.definition.record.verified
      IN /\ "[UNVERIFIED]" \notin format(result) =>
              flag \in ForTrue /\ result.how = "decoded"
         /\ flag \in ForFalse => result.opted_in
         /\ result.how = "fallback" => "unit" \notin format(result)

(* What remains of a number when digit after digit is taken off its end.   *)
Quotients(n, base, length) ==
    LET rest[i \in 1 .. length] ==
          IF i = 1 THEN n ELSE rest[i - 1] \div base
    IN rest

(* A number encodes to the very bytes it was decoded from.                 *)
EncodesTo(n, decoder, raw) ==
    IF decoder = "bcd"
    THEN LET rest == Quotients(n, 100, Len(raw))
             Packed(pair) == 16 * (pair \div 10) + (pair % 10)
         IN /\ \A i \in 1 .. Len(raw) :
                  raw[Len(raw) + 1 - i] = Packed(rest[i] % 100)
            /\ rest[Len(raw)] \in 0 .. 99
    ELSE LET rest == Quotients(n, 256, Len(raw))
             kind == IntegerDecoders[decoder]
         IN /\ \A i \in 1 .. Len(raw) :
                  raw[IF kind.order = "big" THEN Len(raw) + 1 - i ELSE i] =
                    rest[i] % 256
            /\ rest[Len(raw)] \in IF kind.signed THEN -128 .. 127 ELSE Byte

(* What is shown can be traced back: raw is the definition's window of the *)
(* response, a dump shows it, a boolean says whether it is zero, a number  *)
(* is scaled from one that encodes to just these bytes.  Text has lost     *)
(* nothing but white space and padding at its ends, and keeps no white     *)
(* space there; a NUL before final white space it does keep.               *)
ValueShowsItsBytes ==
    Shown =>
      LET record == result.definition.record
          value == result.value
          raw == result.raw
      IN /\ Len(raw) = record.length
         /\ \A i \in DOMAIN raw :
               raw[i] = result.payload[record.offset_bytes + i]
         /\ value.type = "hex" => value.text = raw
         /\ value.type = "boolean" => (value.number = 0 <=> raw[1] = 0)
         /\ value.type = "number" =>
              LET n == Decoded(record.decoder, raw).number
              IN /\ EncodesTo(n, record.decoder, raw)
                 /\ value.number = n * record.scale + record.offset
         /\ value.type = "text" =>
              \E i, j \in 0 .. Len(raw) :
                 /\ value.text = SubSeq(raw, i + 1, j)
                 /\ \A k \in DOMAIN raw \ (i + 1 .. j) :
                       raw[k] \in Padding \cup Latin1Whitespace
                 /\ value.text # <<>> =>
                       /\ Head(value.text) \notin Whitespace
                       /\ Last(value.text) \notin Whitespace

(* A definition that was let in never fails for a reason of its own: a     *)
(* dump is shown only when the bytes are no text or no decimal digits, or  *)
(* the decoder is not known.                                               *)
FallbackIsTheDatasFault ==
    result.how = "fallback" =>
      LET decoder == result.definition.record.decoder
      IN \/ decoder \notin DECODERS
         \/ decoder = "ascii" /\ \E i \in DOMAIN result.raw : result.raw[i] >= 128
         \/ decoder = "bcd" /\ \E i \in DOMAIN result.raw :
                                 result.raw[i] \notin {16 * h + l : h, l \in 0 .. 9}

(* An identifier finds all loaded definitions with its digits, in whatever *)
(* case and with however many "0x" either side writes it, and none whose   *)
(* identifier is a placeholder.  A definition made in code it finds only   *)
(* if that wrote it in upper case and without "0x".                        *)
LookupFindsEverySpelling ==
    \A i \in DOMAIN definitions, upper \in BOOLEAN, marks \in 0 .. 2 :
       LET wanted == definitions[i].record.identifier
           spelling == [wanted EXCEPT !.upper = upper, !.marks = marks]
           Found(d) == LET own == d.record.identifier
                       IN /\ own.digits = wanted.digits
                          /\ IF d.loaded THEN own.digits \notin Placeholders
                             ELSE own.upper /\ own.marks = 0
       IN wanted.digits # None =>
            by_identifier(spelling) =
              {j \in DOMAIN definitions : Found(definitions[j])}

=============================================================================
