------------------------------- MODULE Values -------------------------------
(***************************************************************************)
(* The primitive decoders of decoding/values.py: what a window of bytes    *)
(* becomes.  A value is a record of its type, a number (1 or 0 for a       *)
(* boolean) and a text, which is a sequence of character codes; a hex dump *)
(* is the bytes it shows.                                                  *)
(***************************************************************************)
EXTENDS Integers, Sequences, SequencesExt

Byte == 0 .. 255

DecodeError == [type |-> "DecodeError", number |-> 0, text |-> <<>>]
Number(n)   == [type |-> "number", number |-> n, text |-> <<>>]
Boolean(b)  == [type |-> "boolean", number |-> IF b THEN 1 ELSE 0,
                text |-> <<>>]
Text(codes) == [type |-> "text", number |-> 0, text |-> codes]
raw_hex(data) == [type |-> "hex", number |-> 0, text |-> data]

-----------------------------------------------------------------------------
Integer(n, order, signed) == [length |-> n, order |-> order, signed |-> signed]

IntegerDecoders ==
    [uint8     |-> Integer(1, "big", FALSE),
     int8      |-> Integer(1, "big", TRUE),
     uint16    |-> Integer(2, "big", FALSE),
     int16     |-> Integer(2, "big", TRUE),
     uint16_le |-> Integer(2, "little", FALSE),
     int16_le  |-> Integer(2, "little", TRUE),
     uint32    |-> Integer(4, "big", FALSE),
     int32     |-> Integer(4, "big", TRUE),
     uint32_le |-> Integer(4, "little", FALSE)]

DECODERS == DOMAIN IntegerDecoders
              \cup {"boolean", "ascii", "latin1", "bcd", "raw_hex"}

(* The length a decoder consumes, 0 if any. *)
DECODER_LENGTHS(name) ==
    IF name \in DOMAIN IntegerDecoders THEN IntegerDecoders[name].length
    ELSE IF name = "boolean" THEN 1 ELSE 0

(* The number that a sequence of digits stands for, the first of them being *)
(* the most significant.                                                    *)
Positional(base, digits) ==
    FoldLeft(LAMBDA n, digit : base * n + digit, 0, digits)

\* Mutant: the sign is taken from the first byte, whichever end it is.
from_bytes_sign_first(data, kind) ==
    LET ordered == IF kind.order = "big" THEN data ELSE Reverse(data)
    IN Positional(256, [ordered EXCEPT ![1] =
                          IF kind.signed /\ Head(data) >= 128
                          THEN @ - 256 ELSE @])

(* int.from_bytes: the most significant byte carries the sign. *)
from_bytes(data, kind) ==
    LET ordered == IF kind.order = "big" THEN data ELSE Reverse(data)
    IN Positional(256, [ordered EXCEPT ![1] =
                          IF kind.signed /\ @ >= 128 THEN @ - 256 ELSE @])

bcd(data) ==
    IF \E i \in DOMAIN data : (data[i] \div 16) > 9 \/ (data[i] % 16) > 9
    THEN DecodeError
    ELSE Number(Positional(100, [i \in DOMAIN data |->
                                   10 * (data[i] \div 16) + (data[i] % 16)]))

-----------------------------------------------------------------------------
(* Text: padding goes first and from the end only, then the white space of *)
(* both ends; what str calls white space is more than what bytes does.     *)
Padding == {0, 255}
Whitespace == (9 .. 13) \cup {32}
Latin1Whitespace == Whitespace \cup (28 .. 31) \cup {133, 160}

rstrip(s, codes) == SubSeq(s, 1, SelectLastInSeq(s, LAMBDA c : c \notin codes))

strip(s, codes) ==
    LET right == rstrip(s, codes)
        first == SelectInSeq(right, LAMBDA c : c \notin codes)
    IN IF first = 0 THEN <<>> ELSE SubSeq(right, first, Len(right))

\* Mutant: white space goes first, and what padding uncovers stays.
ascii_stripped_first(data) ==
    LET trimmed == rstrip(strip(data, Whitespace), Padding)
    IN IF \E i \in DOMAIN trimmed : trimmed[i] >= 128
       THEN DecodeError ELSE Text(trimmed)

ascii_text(data) ==
    LET trimmed == strip(rstrip(data, Padding), Whitespace)
    IN IF \E i \in DOMAIN trimmed : trimmed[i] >= 128
       THEN DecodeError ELSE Text(trimmed)

latin1_text(data) == Text(strip(rstrip(data, Padding), Latin1Whitespace))

(* get_decoder(name)(data); a name nobody registered is a DecodeError too. *)
Decoded(name, data) ==
    CASE name \in DOMAIN IntegerDecoders ->
           LET kind == IntegerDecoders[name]
           IN IF Len(data) = kind.length
              THEN Number(from_bytes(data, kind)) ELSE DecodeError
      [] name = "boolean" ->
           IF Len(data) = 1 THEN Boolean(data[1] # 0) ELSE DecodeError
      [] name = "ascii"   -> ascii_text(data)
      [] name = "latin1"  -> latin1_text(data)
      [] name = "bcd"     -> bcd(data)
      [] name = "raw_hex" -> raw_hex(data)
      [] OTHER            -> DecodeError

(* Only numbers are scaled; a boolean, though an int to Python, is not.    *)
apply_scaling(value, scale, offset) ==
    IF value.type = "number" THEN Number(value.number * scale + offset)
                             ELSE value
=============================================================================
