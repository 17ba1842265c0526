----------------------------- MODULE MCVehicle ------------------------------
(***************************************************************************)
(* A small instance: one field of each kind of decoder, the kinds of       *)
(* values the flag may have in a file, identifiers in several spellings,   *)
(* responses with high and low bytes, digits, text with padding, and too   *)
(* few bytes.                                                              *)
(***************************************************************************)
EXTENDS Vehicle

F190 == [digits |-> "F190", upper |-> TRUE, marks |-> 0]
Unknown == [F190 EXCEPT !.digits = "UNKNOWN", !.upper = FALSE]

Field == [name |-> "a", identifier |-> F190, decoder |-> "int16", length |-> 2,
          offset_bytes |-> 0, scale |-> 1, offset |-> 0, unit |-> "V",
          verified |-> "true", defect |-> "none"]
Little == [Field EXCEPT !.decoder = "int16_le", !.offset_bytes = 1,
                        !.scale = 3, !.offset = -40,
                        !.identifier.upper = FALSE, !.identifier.marks = 2]
Hypothesis == [Field EXCEPT !.decoder = "bcd", !.verified = "absent",
                            !.identifier = Unknown]
Typed(decoder, length, flag) ==
    [Field EXCEPT !.decoder = decoder, !.length = length, !.verified = flag]

List(signals) == [signals |-> signals, definitions |-> <<>>]

MCDocuments ==
    {List(<<>>), [signals |-> <<>>, definitions |-> <<Field>>],
     List(<<Little, Field>>), List(<<Hypothesis>>),
     List(<<Typed("ascii", 3, "number")>>),
     List(<<Typed("latin1", 3, "null")>>),
     List(<<Typed("boolean", 1, "text")>>), List(<<Typed("?", 2, "list")>>),
     List(<<Typed("uint16_le", 2, "zero"),
            [Typed("int16", 2, "empty") EXCEPT
                !.identifier.digits = "TODO: VERIFY"]>>),
     List(<<Typed("uint8", 2, "true")>>),
     List(<<Field, [Field EXCEPT !.defect = "missing field"]>>),
     List(<<[Field EXCEPT !.defect = "ValueError"]>>),
     List(<<[Field EXCEPT !.defect = "TypeError"]>>),
     List(<<[Field EXCEPT !.defect = "OverflowError"], Field>>)}

MCRecords ==
    {Typed("uint8", 1, "true"), Typed("uint32", 0, "true"),
     [Typed("raw_hex", 2, "false") EXCEPT !.identifier = Little.identifier],
     [Field EXCEPT !.offset_bytes = -1]}

MCPayloads ==
    {<<>>, <<0, 255, 1>>, <<18, 57>>, <<200, 65, 130, 9>>,
     <<32, 65, 0>>, <<65, 32, 0>>, <<65, 0, 32>>, <<65, 255, 32>>,
     <<9, 160, 0>>}

MCUnits == {[name |-> "DME", upper |-> TRUE, nr |-> 1],
            [name |-> "DME", upper |-> TRUE, nr |-> 2]}
=============================================================================
