---------------------------- MODULE VehicleProofs ----------------------------
(***************************************************************************)
(* Theorems of Vehicle and of the Decoding it extends: what is presented   *)
(* as a fact, and what a lookup finds - for all definition files, all      *)
(* definitions a program makes and all responses.                          *)
(***************************************************************************)
EXTENDS Vehicle, SequenceLemmas

(* The two ways a definition comes about.                                  *)
Made == {from_dict(record) : record \in {r \in Listed : FromDictEnds(r) = "ok"}}
          \cup {SignalDefinition(record) :
                  record \in {r \in Records : ~Malformed(r)}}

Registered == definitions \in Seq(Made)

(* A definition that passes the gate by itself was flagged as verified.    *)
LEMMA MadeIsHonest ==
    ASSUME NEW d \in Made
    PROVE  /\ d.verified \in BOOLEAN
           /\ d.verified => d.record.verified \in ForTrue
           /\ d.record \in Listed \cup Records /\ ~Malformed(d.record)
<1>1. CASE \E record \in {r \in Listed : FromDictEnds(r) = "ok"} :
             d = from_dict(record)
  <2>1. PICK record \in {r \in Listed : FromDictEnds(r) = "ok"} :
               d = from_dict(record)
    BY <1>1
  <2>2. ~Malformed(record)
    BY <2>1 DEF FromDictEnds
  <2>3. /\ d.record = record
        /\ d.verified = (record.verified \in ForTrue)
    BY <2>1 DEF from_dict, Truthy
  <2>4. record \in Listed \cup Records
    BY <2>1
  <2>5. (record.verified \in ForTrue) \in BOOLEAN
    OBVIOUS
  <2> QED BY <2>2, <2>3, <2>4, <2>5, Zenon
<1>2. CASE \E record \in {r \in Records : ~Malformed(r)} :
             d = SignalDefinition(record)
  <2>1. PICK record \in {r \in Records : ~Malformed(r)} :
               d = SignalDefinition(record)
    BY <1>2
  <2>2. d.record = record /\ d.verified = (record.verified = "true")
    BY <2>1 DEF SignalDefinition
  <2>3. record \in Listed \cup Records
    BY <2>1
  <2>4. "true" \in ForTrue
    BY DEF ForTrue
  <2>5. (record.verified = "true") \in BOOLEAN
    OBVIOUS
  <2> QED BY <2>1, <2>2, <2>3, <2>4, <2>5
<1> QED BY <1>1, <1>2 DEF Made

(* A list that loads is a list of definitions.                             *)
LEMMA LoadKeepsRegistered ==
    ASSUME Registered, NEW document \in Documents, Load(document)
    PROVE  Registered'
<1> DEFINE records == entries(document)
<1>1. records \in Seq(Listed)
  BY DefinitionsAssumption DEF entries
<1>2. CASE /\ definitions' = [i \in DOMAIN records |-> from_dict(records[i])]
           /\ \A i \in DOMAIN records : FromDictEnds(records[i]) = "ok"
  <2>1. definitions' = [i \in DOMAIN records |-> from_dict(records[i])]
    BY <1>2
  <2>2. DOMAIN records = 1 .. Len(records) /\ Len(records) \in Nat
    BY <1>1, LenProperties
  <2>3. \A i \in 1 .. Len(records) : FromDictEnds(records[i]) = "ok"
    BY <1>2, <2>2
  <2>4. \A i \in 1 .. Len(records) : from_dict(records[i]) \in Made
    <3>1. \A i \in 1 .. Len(records) : records[i] \in Listed
      BY <1>1, ElementOfSeq
    <3> QED BY <2>3, <3>1 DEF Made
  <2> HIDE DEF records
  <2>5. [i \in 1 .. Len(records) |-> from_dict(records[i])] \in Seq(Made)
    BY <2>2, <2>4
  <2> QED BY <2>1, <2>2, <2>5 DEF Registered
<1>3. CASE UNCHANGED definitions
  BY <1>3 DEF Registered
<1> QED BY <1>2, <1>3 DEF Load

LEMMA AddKeepsRegistered ==
    ASSUME Registered, NEW record \in Records, Add(record)
    PROVE  Registered'
<1>1. CASE Malformed(record)
  BY <1>1 DEF Add, Registered
<1>2. CASE ~Malformed(record)
  <2>1. SignalDefinition(record) \in Made
    BY <1>2 DEF Made
  <2>2. definitions' = Append(definitions, SignalDefinition(record))
    BY <1>2 DEF Add
  <2> QED BY <2>1, <2>2, AppendProperties DEF Registered
<1> QED BY <1>1, <1>2

LEMMA StepKeepsRegistered == Registered /\ [VehicleNext]_vehicle => Registered'
<1> SUFFICES ASSUME Registered, [VehicleNext]_vehicle
             PROVE  Registered'
  OBVIOUS
<1>1. CASE Reload
  BY <1>1, LoadKeepsRegistered DEF Reload
<1>2. ASSUME NEW record \in Records, Add(record)
      PROVE  Registered'
  BY <1>2, AddKeepsRegistered
<1>3. CASE UNCHANGED definitions
  BY <1>3 DEF Registered
<1>4. CASE \/ LoadRefused \/ MSV90
           \/ \E allow \in BOOLEAN : live_data(allow)
           \/ \E unit \in Units : Answers(unit) \/ register_discovered(unit)
           \/ \E i \in DOMAIN definitions, payload \in Payloads,
                 allow \in BOOLEAN : Decode(i, payload, allow)
           \/ UNCHANGED vehicle
  <2>1. UNCHANGED definitions
    BY <1>4 DEF LoadRefused, MSV90, live_data, Answers, register_discovered,
                Decode, vehicle, vars
  <2> QED BY <1>3, <2>1
<1> QED BY <1>1, <1>2, <1>4 DEF VehicleNext

(* A registry holds what was loaded and added, nothing malformed.          *)
THEOREM RegistryHoldsDefinitions == VehicleSpec => []Registered
<1>1. VehicleInit => Registered
  BY EmptySeq DEF VehicleInit, Init, Registered
<1> QED BY <1>1, StepKeepsRegistered, PTL DEF VehicleSpec

-----------------------------------------------------------------------------
(* Result r, if it shows anything, is what decode() makes of the payload:  *)
(* the definition was let in, and the value is what its decoder made of    *)
(* the window, or the window.                                              *)
Shows(r, d, payload, allow) ==
    r.how \in {"decoded", "fallback"} =>
      /\ d.verified \/ allow
      /\ r.definition = d /\ r.opted_in = allow /\ r.payload = payload
      /\ r.raw = extract(d, payload) /\ r.raw # <<>>
      /\ \/ /\ r.how = "decoded" /\ r.verified = d.verified
            /\ r.value = apply_scaling(Decoded(d.record.decoder, r.raw),
                                       d.record.scale, d.record.offset)
         \/ /\ r.how = "fallback" /\ r.verified = FALSE
            /\ r.unit = None /\ r.value = raw_hex(r.raw)
            /\ Decoded(d.record.decoder, r.raw) = DecodeError

LEMMA DecodeEnds ==
    ASSUME NEW d \in Made, NEW payload, NEW allow \in BOOLEAN,
           NEW r, r = decode(d, payload, allow)
    PROVE  /\ Shows(r, d, payload, allow)
           /\ r.how # "no_signals_defined"
<1> DEFINE window == extract(d, payload)
           value == Decoded(d.record.decoder, window)
           base == [Ended("none") EXCEPT
                      !.definition = d, !.payload = payload, !.raw = window,
                      !.opted_in = allow]
<1>1. d.verified \in BOOLEAN
  BY MadeIsHonest
<1> HIDE DEF window, value
<1>2. r = IF ~d.verified /\ ~allow THEN Ended("UnverifiedDefinitionError")
          ELSE IF window = <<>>       THEN Ended("DecodeError")
          ELSE IF value = DecodeError THEN Fallback(d, base)
          ELSE Scaled(d, base, value)
  BY DEF decode, window, value
<1>3. CASE ~d.verified /\ ~allow
  <2>1. r.how = "UnverifiedDefinitionError"
    BY <1>2, <1>3 DEF Ended
  <2> QED BY <2>1 DEF Shows
<1>4. CASE (d.verified \/ allow) /\ window = <<>>
  <2>1. r.how = "DecodeError"
    BY <1>2, <1>4 DEF Ended
  <2> QED BY <2>1 DEF Shows
<1>5. CASE (d.verified \/ allow) /\ window # <<>> /\ value = DecodeError
  <2>1. r = Fallback(d, base)
    BY <1>2, <1>5
  <2>2. /\ r.how = "fallback" /\ r.verified = FALSE /\ r.unit = None
        /\ r.definition = d /\ r.opted_in = allow /\ r.payload = payload
        /\ r.raw = window /\ r.value = raw_hex(window)
    BY <2>1 DEF Fallback, Ended
  <2> QED BY <1>5, <2>2 DEF Shows, window, value
<1>6. CASE (d.verified \/ allow) /\ window # <<>> /\ value # DecodeError
  <2>1. r = Scaled(d, base, value)
    BY <1>2, <1>6
  <2>2. /\ r.how = "decoded" /\ r.verified = d.verified
        /\ r.definition = d /\ r.opted_in = allow /\ r.payload = payload
        /\ r.raw = window
        /\ r.value = apply_scaling(value, d.record.scale, d.record.offset)
    BY <2>1 DEF Scaled, Ended
  <2> QED BY <1>6, <2>2 DEF Shows, window, value
<1> QED BY <1>1, <1>3, <1>4, <1>5, <1>6

(* The steps that show nothing.                                            *)
LEMMA OnlyDecodeShows ==
    ASSUME [VehicleNext]_vehicle
    PROVE  \/ \E i \in DOMAIN definitions, payload \in Payloads,
                 allow \in BOOLEAN : Decode(i, payload, allow)
           \/ result' = result
           \/ ~Shown'
<1>1. ASSUME NEW document \in Documents, Load(document)
      PROVE  ~Shown'
  <2>1. \E how : /\ result' = Ended(how)
                 /\ how \in {"ok", "TypeError", "ValueError",
                            "OverflowError"}
    BY <1>1 DEF Load, FromDictEnds
  <2> QED BY <2>1 DEF Shown, Ended
<1>2. ASSUME NEW record \in Records, Add(record)
      PROVE  ~Shown'
  <2>1. \E how : result' = Ended(how) /\ how \in {"ok", "ValueError"}
    BY <1>2 DEF Add
  <2> QED BY <2>1 DEF Shown, Ended
<1>3. CASE LoadRefused \/ MSV90 \/ \E allow \in BOOLEAN : live_data(allow)
  <2>1. \E how \in {"ok", "ValueError", "OSError", "RecursionError",
                    "no_signals_defined", "not_implemented"} :
           result' = Ended(how)
    BY <1>3 DEF LoadRefused, MSV90, live_data
  <2>2. PICK how \in {"ok", "ValueError", "OSError", "RecursionError",
                     "no_signals_defined", "not_implemented"} :
           result' = Ended(how)
    BY <2>1
  <2>3. result'.how = how
    BY <2>2 DEF Ended
  <2> QED BY <2>3 DEF Shown
<1>4. ASSUME NEW unit \in Units, Answers(unit) \/ register_discovered(unit)
      PROVE  result' = result \/ ~Shown'
  <2>1. \/ result' = result
        \/ \E how : result' = Ended(how) /\ how \in {"ok", "ValueError"}
    BY <1>4 DEF Answers, register_discovered
  <2> QED BY <2>1 DEF Shown, Ended
<1>5. CASE UNCHANGED vehicle
  BY <1>5 DEF vehicle, vars
<1> QED BY <1>1, <1>2, <1>3, <1>4, <1>5 DEF VehicleNext, Reload

(* What is shown is what decode() made of a response, with a definition    *)
(* that was made in one of the two ways.                                   *)
Explained ==
    /\ Shown => /\ result.definition \in Made
                /\ result.payload \in Payloads
                /\ result.opted_in \in BOOLEAN
    /\ Shows(result, result.definition, result.payload, result.opted_in)

THEOREM ResultsAreExplained == VehicleSpec => []Explained
<1>1. VehicleInit => Explained
  BY DEF VehicleInit, Init, Explained, Shown, Shows, Ended
<1>2. Registered /\ Explained /\ [VehicleNext]_vehicle => Explained'
  <2> SUFFICES ASSUME Registered, Explained, [VehicleNext]_vehicle
               PROVE  Explained'
    OBVIOUS
  <2>1. ASSUME NEW i \in DOMAIN definitions, NEW payload \in Payloads,
               NEW allow \in BOOLEAN, Decode(i, payload, allow)
        PROVE  Explained'
    <3> DEFINE d == definitions[i]
    <3>1. result' = decode(d, payload, allow)
      BY <2>1 DEF Decode
    <3>2. d \in Made
      <4>1. DOMAIN definitions = 1 .. Len(definitions)
        BY LenProperties DEF Registered
      <4> QED BY <4>1, ElementOfSeq DEF Registered
    <3> HIDE DEF d
    <3>3. Shows(result', d, payload, allow)
      BY <3>1, <3>2, DecodeEnds
    <3>4. Shown' => /\ result'.definition = d /\ result'.payload = payload
                    /\ result'.opted_in = allow
      BY <3>3 DEF Shows, Shown
    <3>5. CASE Shown'
      <4>1. Shows(result', result'.definition, result'.payload,
                  result'.opted_in)
        BY <3>3, <3>4, <3>5
      <4> QED BY <3>2, <3>4, <3>5, <4>1 DEF Explained
    <3>6. CASE ~Shown'
      BY <3>6 DEF Explained, Shown, Shows
    <3> QED BY <3>5, <3>6
  <2>2. CASE result' = result
    BY <2>2 DEF Explained, Shown
  <2>3. CASE ~Shown'
    BY <2>3 DEF Explained, Shown, Shows
  <2> QED BY <2>1, <2>2, <2>3, OnlyDecodeShows
<1> QED BY <1>1, <1>2, RegistryHoldsDefinitions, PTL DEF VehicleSpec

(* What is shown without the label comes from a definition whose flag was  *)
(* set and from bytes its decoder took; a hypothesis is applied only on    *)
(* demand; a dump has no unit.                                             *)
THEOREM FactsAreVerified == VehicleSpec => []NothingUnverifiedIsFact
<1>1. Explained => NothingUnverifiedIsFact
  <2> SUFFICES ASSUME Explained, Shown
               PROVE  NothingUnverifiedIsFact
    BY DEF NothingUnverifiedIsFact
  <2> DEFINE d == result.definition
  <2>1. /\ d \in Made
        /\ d.verified \/ result.opted_in
        /\ \/ result.how = "decoded" /\ result.verified = d.verified
           \/ /\ result.how = "fallback" /\ result.verified = FALSE
              /\ result.unit = None
    BY DEF Explained, Shows, Shown
  <2>2. /\ d.verified \in BOOLEAN
        /\ d.verified => d.record.verified \in ForTrue
    BY <2>1, MadeIsHonest
  <2> HIDE DEF d
  <2>3. "[UNVERIFIED]" \notin format(result) => result.verified
    BY DEF format
  <2>4. result.unit = None => "unit" \notin format(result)
    BY DEF format
  <2>5. ForTrue \cap ForFalse = {}
    BY DEF ForTrue, ForFalse
  <2>6. d.record.verified \in ForFalse => result.opted_in
    BY <2>1, <2>2, <2>5
  <2>7. /\ "[UNVERIFIED]" \notin format(result) =>
             d.record.verified \in ForTrue /\ result.how = "decoded"
        /\ result.how = "fallback" => "unit" \notin format(result)
    BY <2>1, <2>2, <2>3, <2>4
  <2> QED BY <2>6, <2>7 DEF NothingUnverifiedIsFact, d
<1> QED BY <1>1, ResultsAreExplained, PTL

-----------------------------------------------------------------------------
(* The two places that normalise an identifier agree: whatever spelling is *)
(* looked up, it finds the loaded definitions with those digits, unless    *)
(* they are a placeholder, and those made in code in the normal spelling.  *)
THEOREM LookupIsComplete == VehicleSpec => []LookupFindsEverySpelling
<1>1. Registered => LookupFindsEverySpelling
  <2> SUFFICES ASSUME Registered, NEW i \in DOMAIN definitions,
                      NEW upper \in BOOLEAN, NEW marks \in 0 .. 2,
                      definitions[i].record.identifier.digits # None
               PROVE  LET wanted == definitions[i].record.identifier
                          spelling == [wanted EXCEPT !.upper = upper,
                                                     !.marks = marks]
                          Found(d) ==
                            LET own == d.record.identifier
                            IN /\ own.digits = wanted.digits
                               /\ IF d.loaded
                                  THEN own.digits \notin Placeholders
                                  ELSE own.upper /\ own.marks = 0
                      IN by_identifier(spelling) =
                           {j \in DOMAIN definitions : Found(definitions[j])}
    BY DEF LookupFindsEverySpelling
  <2> DEFINE wanted == definitions[i].record.identifier
             spelling == [wanted EXCEPT !.upper = upper, !.marks = marks]
             normal == [digits |-> wanted.digits, upper |-> TRUE,
                        marks |-> 0]
  <2>1. \A j \in DOMAIN definitions : definitions[j] \in Made
    <3>1. DOMAIN definitions = 1 .. Len(definitions)
      BY LenProperties DEF Registered
    <3> QED BY <3>1, ElementOfSeq DEF Registered
  <2>2. wanted \in [digits : STRING, upper : BOOLEAN, marks : Nat]
    BY <2>1, MadeIsHonest, DefinitionsAssumption
  <2>3. spelling.digits = wanted.digits
    BY <2>2
  <2>4. by_identifier(spelling) =
          {j \in DOMAIN definitions : definitions[j].identifier = normal}
    BY <2>3 DEF by_identifier
  <2>5. ASSUME NEW j \in DOMAIN definitions
        PROVE  LET own == definitions[j].record.identifier
               IN definitions[j].identifier = normal <=>
                    /\ own.digits = wanted.digits
                    /\ IF definitions[j].loaded
                       THEN own.digits \notin Placeholders
                       ELSE own.upper /\ own.marks = 0
    <3> DEFINE d == definitions[j]
               own == d.record.identifier
    <3>1. own \in [digits : STRING, upper : BOOLEAN, marks : Nat]
      BY <2>1, MadeIsHonest, DefinitionsAssumption
    <3>2. wanted.digits # None
      OBVIOUS
    <3> HIDE DEF wanted
    <3>3. \/ d.loaded = TRUE /\ d.identifier = normalised(own)
          \/ d.loaded = FALSE /\ d.identifier = own
      BY <2>1 DEF Made, from_dict, SignalDefinition
    <3> HIDE DEF d, own
    <3>4. CASE d.loaded = TRUE /\ d.identifier = normalised(own)
      <4>1. CASE own.digits \in {None} \cup Placeholders
        <5>1. d.identifier.digits = None /\ normal.digits = wanted.digits
          <6>1. d.identifier = NoIdentifier
            BY <3>4, <4>1 DEF normalised
          <6> QED BY <6>1 DEF NoIdentifier
        <5>2. d.identifier # normal
          BY <3>2, <5>1
        <5> QED BY <3>2, <3>4, <4>1, <5>2 DEF d, own
      <4>2. CASE own.digits \notin {None} \cup Placeholders
        <5>1. d.identifier = [digits |-> own.digits, upper |-> TRUE,
                              marks |-> 0]
          BY <3>4, <4>2 DEF normalised
        <5>2. d.identifier = normal <=> own.digits = wanted.digits
          <6>1. /\ d.identifier.digits = own.digits
                /\ normal.digits = wanted.digits
            BY <5>1
          <6> QED BY <5>1, <6>1
        <5> QED BY <3>4, <4>2, <5>2 DEF d, own
      <4> QED BY <4>1, <4>2
    <3>5. CASE d.loaded = FALSE /\ d.identifier = own
      <4>1. own = normal <=> /\ own.digits = wanted.digits
                             /\ own.upper /\ own.marks = 0
        BY <3>1
      <4> QED BY <3>5, <4>1 DEF d, own
    <3> QED BY <3>3, <3>4, <3>5
  <2> QED BY ZenonT(40), <2>4, <2>5
<1> QED BY <1>1, RegistryHoldsDefinitions, PTL
-----------------------------------------------------------------------------
(* What stripping leaves: a stretch of the text, with nothing but what is  *)
(* stripped outside of it and none of that at its ends.                    *)
LEMMA RightStripped ==
    ASSUME NEW S, NEW s \in Seq(S), NEW codes
    PROVE  \E m \in 0 .. Len(s) :
              /\ rstrip(s, codes) = SubSeq(s, 1, m)
              /\ \A k \in m + 1 .. Len(s) : s[k] \in codes
              /\ m # 0 => s[m] \notin codes
<1> DEFINE N == Len(s)
           I == {k \in 1 .. N : s[k] \notin codes}
           m == IF I # {} THEN Max(I) ELSE 0
<1>1. N \in Nat
  BY LenProperties
<1>2. rstrip(s, codes) = SubSeq(s, 1, m)
  BY DEF rstrip, SelectLastInSeq
<1>3. \A k \in I : k \in 1 .. N /\ s[k] \notin codes
  OBVIOUS
<1>4. \A k \in 1 .. N : k \notin I => s[k] \in codes
  OBVIOUS
<1> HIDE DEF N, I
<1>5. CASE I = {}
  BY <1>1, <1>2, <1>4, <1>5 DEF N
<1>6. CASE I # {}
  <2>1. I \subseteq Nat /\ \A k \in I : k \in Nat /\ k <= N
    BY <1>1, <1>3
  <2>2. Max(I) \in I /\ \A k \in I : k <= Max(I)
    BY <1>1, <1>6, <2>1, MaxIsGreatest
  <2>3. m = Max(I)
    BY <1>6
  <2> HIDE DEF m
  <2>4. /\ m \in 0 .. N /\ s[m] \notin codes
        /\ \A k \in m + 1 .. N : s[k] \in codes
    <3>1. m \in I /\ m \in 1 .. N /\ \A k \in I : k <= m
      BY <1>3, <2>2, <2>3
    <3>2. ASSUME NEW k \in m + 1 .. N
          PROVE  k \notin I /\ k \in 1 .. N
      BY <1>1, <3>1
    <3> QED BY <1>1, <1>3, <1>4, <3>1, <3>2
  <2> QED BY <1>2, <2>4 DEF N
<1> QED BY <1>5, <1>6

LEMMA Stripped ==
    ASSUME NEW S, NEW s \in Seq(S), NEW codes
    PROVE  \E i, j \in 0 .. Len(s) :
              /\ i <= j /\ strip(s, codes) = SubSeq(s, i + 1, j)
              /\ \A k \in 1 .. Len(s) \ (i + 1 .. j) : s[k] \in codes
              /\ i # j => s[i + 1] \notin codes /\ s[j] \notin codes
<1>1. PICK m \in 0 .. Len(s) :
        /\ rstrip(s, codes) = SubSeq(s, 1, m)
        /\ \A k \in m + 1 .. Len(s) : s[k] \in codes
        /\ m # 0 => s[m] \notin codes
  BY RightStripped
<1> DEFINE right == SubSeq(s, 1, m)
           I == {k \in 1 .. Len(right) : right[k] \notin codes}
           first == IF I # {} THEN Min(I) ELSE 0
<1>2. Len(s) \in Nat /\ m \in Int /\ \A k \in 1 .. Len(s) : s[k] \in S
  BY LenProperties
<1>3. Len(right) = m /\ \A k \in 1 .. m : right[k] = s[k]
  <2>1. \A k \in 1 .. m : s[k] \in S
    BY <1>2
  <2>2. /\ Len(right) = IF 1 <= m THEN m - 1 + 1 ELSE 0
        /\ \A k \in 1 .. m - 1 + 1 : right[k] = s[1 + k - 1]
    BY <1>2, <2>1, SubSeqProperties
  <2> QED BY <1>2, <2>2
<1>4. strip(s, codes) =
        IF first = 0 THEN <<>> ELSE SubSeq(right, first, Len(right))
  BY <1>1 DEF strip, SelectInSeq
<1> HIDE DEF right
<1>5. /\ \A k \in I : k \in 1 .. m /\ s[k] \notin codes
      /\ \A k \in 1 .. m : k \notin I => s[k] \in codes
  BY <1>3
<1> HIDE DEF I
<1>6. CASE I = {}
  <2>1. strip(s, codes) = <<>>
    BY <1>4, <1>6
  <2>2. SubSeq(s, 1, 0) = <<>>
    BY SubSeqEmpty
  <2>3. \A k \in 1 .. Len(s) : s[k] \in codes
    BY <1>1, <1>2, <1>5, <1>6
  <2>4. /\ 0 <= 0 /\ strip(s, codes) = SubSeq(s, 0 + 1, 0)
        /\ \A k \in 1 .. Len(s) \ (0 + 1 .. 0) : s[k] \in codes
    BY <2>1, <2>2, <2>3
  <2> QED BY <1>2, <2>4
<1>7. CASE I # {}
  <2>1. I \subseteq Nat /\ \A k \in I : k \in Nat
    BY <1>5
  <2>2. Min(I) \in I /\ \A k \in I : Min(I) <= k
    BY <1>7, <2>1, MinIsLeast
  <2>3. first = Min(I)
    BY <1>7
  <2> HIDE DEF first
  <2>4. /\ first \in 1 .. m /\ s[first] \notin codes
        /\ \A k \in 1 .. first - 1 : s[k] \in codes
    <3>1. first \in I /\ first \in 1 .. m /\ \A k \in I : first <= k
      BY <1>5, <2>2, <2>3
    <3>2. ASSUME NEW k \in 1 .. first - 1
          PROVE  k \notin I /\ k \in 1 .. m
      BY <1>2, <3>1
    <3> QED BY <1>5, <3>1, <3>2
  <2>5. strip(s, codes) = SubSeq(right, first, m)
    BY <1>3, <1>4, <2>4
  <2>6. SubSeq(right, first, m) = SubSeq(s, first, m)
    BY <1>2, <1>3, <2>4
  <2> DEFINE i == first - 1
  <2>7. /\ i \in 0 .. Len(s) /\ i <= m /\ i # m
        /\ i + 1 = first /\ m # 0
    BY <1>1, <1>2, <2>4
  <2>8. \A k \in 1 .. Len(s) \ (i + 1 .. m) : s[k] \in codes
    BY <1>1, <1>2, <2>4
  <2> HIDE DEF i
  <2> QED BY <1>1, <2>4, <2>5, <2>6, <2>7, <2>8
<1> QED BY <1>6, <1>7

(* Both: padding from the end first, then white space from both ends.      *)
Stretch(text, raw, codes, i, j) ==
    /\ i <= j /\ text = SubSeq(raw, i + 1, j)
    /\ Len(text) = j - i /\ \A k \in 1 .. j - i : text[k] = raw[i + k]
    /\ \A k \in 1 .. Len(raw) \ (i + 1 .. j) : raw[k] \in Padding \cup codes
    /\ i # j => raw[i + 1] \notin codes /\ raw[j] \notin codes

LEMMA TextIsAStretch ==
    ASSUME NEW S, NEW raw \in Seq(S), NEW codes, NEW text,
           text = strip(rstrip(raw, Padding), codes)
    PROVE  \E i, j \in 0 .. Len(raw) : Stretch(text, raw, codes, i, j)
<1>1. PICK m \in 0 .. Len(raw) :
        /\ rstrip(raw, Padding) = SubSeq(raw, 1, m)
        /\ \A k \in m + 1 .. Len(raw) : raw[k] \in Padding
  BY RightStripped
<1>2. Len(raw) \in Nat /\ m \in Nat /\ \A k \in 1 .. Len(raw) : raw[k] \in S
  BY <1>1, LenProperties
<1> DEFINE right == SubSeq(raw, 1, m)
<1>3. /\ right \in Seq(S) /\ Len(right) = m
      /\ \A k \in 1 .. m : right[k] = raw[k]
  <2>1. \A k \in 1 .. m : raw[k] \in S
    BY <1>1, <1>2
  <2>2. /\ right \in Seq(S)
        /\ Len(right) = IF 1 <= m THEN m - 1 + 1 ELSE 0
        /\ \A k \in 1 .. m - 1 + 1 : right[k] = raw[1 + k - 1]
    BY <1>2, <2>1, SubSeqProperties
  <2> QED BY <1>2, <2>2
<1>4. text = strip(right, codes)
  BY <1>1
<1> HIDE DEF right
<1>5. PICK i, j \in 0 .. Len(right) :
        /\ i <= j /\ strip(right, codes) = SubSeq(right, i + 1, j)
        /\ \A k \in 1 .. Len(right) \ (i + 1 .. j) : right[k] \in codes
        /\ i # j => right[i + 1] \notin codes /\ right[j] \notin codes
  BY <1>3, Stripped
<1>6. i \in Nat /\ j \in Nat /\ i <= m /\ j <= m /\ i <= j
  BY <1>2, <1>3, <1>5
<1>7. text = SubSeq(raw, i + 1, j)
  BY <1>2, <1>3, <1>4, <1>5, <1>6 DEF right
<1>8. Len(text) = j - i /\ \A k \in 1 .. j - i : text[k] = raw[i + k]
  BY <1>1, <1>2, <1>6, <1>7
<1>9. ASSUME NEW k \in 1 .. Len(raw) \ (i + 1 .. j)
      PROVE  raw[k] \in Padding \cup codes
  <2>1. CASE k \in m + 1 .. Len(raw)
    BY <1>1, <2>1
  <2>2. CASE k \in 1 .. m
    BY <1>3, <1>5, <2>2
  <2> QED BY <1>2, <2>1, <2>2
<1>10. i # j => raw[i + 1] \notin codes /\ raw[j] \notin codes
  BY <1>3, <1>5, <1>6
<1>11. i \in 0 .. Len(raw) /\ j \in 0 .. Len(raw)
  BY <1>1, <1>2, <1>6
<1> QED BY <1>6, <1>7, <1>8, <1>9, <1>10, <1>11 DEF Stretch

-----------------------------------------------------------------------------
(* A window that is there is as long as the definition says, at its place. *)
LEMMA WindowIsWhole ==
    ASSUME NEW d \in Made, NEW payload \in Payloads,
           NEW raw, raw = extract(d, payload), raw # <<>>
    PROVE  /\ raw \in Seq(Byte) /\ Len(raw) = d.record.length
           /\ Len(raw) \in Nat /\ Len(raw) > 0
           /\ \A i \in 1 .. Len(raw) :
                 raw[i] = payload[d.record.offset_bytes + i]
<1> DEFINE length == d.record.length
           offset == d.record.offset_bytes
<1>1. length \in Int /\ offset \in Int /\ length > 0 /\ offset >= 0
  BY MadeIsHonest, DefinitionsAssumption DEF Malformed
<1>2. payload \in Seq(Byte) /\ Len(payload) \in Nat
  BY DefinitionsAssumption, LenProperties
<1>3. /\ raw = SubSeq(payload, offset + 1, offset + length)
      /\ offset + length <= Len(payload)
  <2>1. ~(Len(payload) < offset + length)
    BY DEF extract, end_offset
  <2>2. raw = SubSeq(payload, offset + 1, offset + length)
    BY <2>1 DEF extract, end_offset
  <2> HIDE DEF length, offset
  <2> QED BY <1>1, <1>2, <2>1, <2>2
<1> HIDE DEF length, offset
<1>4. \A k \in offset + 1 .. offset + length : payload[k] \in Byte
  BY <1>1, <1>2, <1>3, ElementOfSeq
<1> DEFINE m == offset + 1
           n == offset + length
<1>5. m \in Int /\ n \in Int /\ m <= n /\ n - m + 1 = length
  BY <1>1
<1>6. raw = SubSeq(payload, m, n) /\ \A k \in m .. n : payload[k] \in Byte
  BY <1>3, <1>4
<1>7. \A i \in Int : m + i - 1 = offset + i
  BY <1>1
<1> HIDE DEF m, n
<1>8. /\ raw \in Seq(Byte) /\ Len(raw) = length
      /\ \A i \in 1 .. length : raw[i] = payload[m + i - 1]
  BY <1>5, <1>6, SubSeqProperties
<1>9. \A i \in 1 .. length : raw[i] = payload[offset + i]
  BY <1>1, <1>7, <1>8
<1> QED BY <1>1, <1>8, <1>9 DEF length, offset

(* What a decoder can make of a window, by its kind.                       *)
LEMMA KindsOfValue ==
    ASSUME NEW name, NEW raw, NEW value, value = Decoded(name, raw)
    PROVE  \/ /\ name \in DOMAIN IntegerDecoders
              /\ \/ value.type = "number"
                 \/ Len(raw) # IntegerDecoders[name].length
           \/ /\ name = "boolean"
              /\ value = Boolean(raw[1] # 0) \/ Len(raw) # 1
           \/ name = "ascii" /\ value = ascii_text(raw)
           \/ name = "latin1" /\ value = latin1_text(raw)
           \/ name = "bcd" /\ value = bcd(raw)
           \/ name = "raw_hex" /\ value = raw_hex(raw)
           \/ name \notin DECODERS /\ value = DecodeError
<1>1. DOMAIN IntegerDecoders \cap {"boolean", "ascii", "latin1", "bcd",
                                   "raw_hex"} = {}
  BY DEF IntegerDecoders
<1>2. CASE name \in DOMAIN IntegerDecoders
  <2> DEFINE kind == IntegerDecoders[name]
  <2>1. value = IF Len(raw) = kind.length THEN Number(from_bytes(raw, kind))
                                          ELSE DecodeError
    BY <1>1, <1>2 DEF Decoded
  <2>2. CASE Len(raw) = kind.length
    BY <1>2, <2>1, <2>2 DEF Number
  <2> QED BY <1>2, <2>2
<1>3. CASE name \in {"boolean", "ascii", "latin1", "bcd", "raw_hex"}
  BY <1>1, <1>3 DEF Decoded
<1>4. CASE name \notin DECODERS
  BY <1>4 DEF Decoded, DECODERS
<1> QED BY <1>2, <1>3, <1>4 DEF DECODERS

(* The constructor refuses a length that the decoder does not take.        *)
LEMMA LengthsFit ==
    ASSUME NEW d \in Made
    PROVE  /\ d.record.decoder \in DOMAIN IntegerDecoders =>
                d.record.length = IntegerDecoders[d.record.decoder].length
           /\ d.record.decoder = "boolean" => d.record.length = 1
<1> DEFINE name == d.record.decoder
<1>1. DECODER_LENGTHS(name) \in {0, d.record.length}
  BY MadeIsHonest DEF Malformed
<1> HIDE DEF name
<1>2. ASSUME name \in DOMAIN IntegerDecoders
      PROVE  d.record.length = IntegerDecoders[name].length
  <2>1. DECODER_LENGTHS(name) = IntegerDecoders[name].length
    BY <1>2 DEF DECODER_LENGTHS
  <2>2. IntegerDecoders[name].length # 0
    BY <1>2 DEF IntegerDecoders, Integer
  <2> QED BY <1>1, <2>1, <2>2
<1>3. ASSUME name = "boolean"
      PROVE  d.record.length = 1
  <2>1. DECODER_LENGTHS(name) = 1
    BY <1>3 DEF DECODER_LENGTHS, IntegerDecoders
  <2> QED BY <1>1, <2>1
<1> QED BY <1>2, <1>3 DEF name

-----------------------------------------------------------------------------
(* What FoldLeft() makes of the digits of a number: a function of the sets *)
(* of places, of which only those of the first n places matter.            *)
Folds(base, digits, N, f) ==
    f = [s \in SUBSET (1 .. N) |->
           IF s = {} THEN 0
           ELSE base * f[s \ {Max(s)}] + digits[Max(s)]]

LEMMA PositionalIsAFold ==
    ASSUME NEW base, NEW digits, NEW N \in Nat, DOMAIN digits = 1 .. N
    PROVE  Positional(base, digits) =
             (CHOOSE f : Folds(base, digits, N, f))[1 .. N]
BY DEF Positional, FoldLeft, MapThenFoldSet, Folds

LEMMA FoldOneMore ==
    ASSUME NEW base, NEW digits, NEW n \in Nat, NEW f,
           Folds(base, digits, n, f)
    PROVE  \E g : Folds(base, digits, n + 1, g)
<1> DEFINE g == [s \in SUBSET (1 .. n + 1) |->
                   IF n + 1 \in s
                   THEN base * f[s \ {n + 1}] + digits[n + 1] ELSE f[s]]
           h == [s \in SUBSET (1 .. n + 1) |->
                   IF s = {} THEN 0
                   ELSE base * g[s \ {Max(s)}] + digits[Max(s)]]
<1>1. \A s \in SUBSET (1 .. n) :
        f[s] = IF s = {} THEN 0
               ELSE base * f[s \ {Max(s)}] + digits[Max(s)]
  BY DEF Folds
<1>2. ASSUME NEW s \in SUBSET (1 .. n + 1)
      PROVE  g[s] = h[s]
  <2>0. /\ s \subseteq Nat /\ n + 1 \in Nat
        /\ \A i \in s : i \in Nat /\ i <= n + 1
    OBVIOUS
  <2>1. s # {} => Max(s) \in s /\ \A i \in s : i <= Max(s)
    BY <2>0, MaxIsGreatest
  <2>2. CASE n + 1 \in s
    <3>1. Max(s) = n + 1
      <4> DEFINE m == Max(s)
      <4>1. m \in Nat /\ m <= n + 1 /\ n + 1 <= m
        BY <2>0, <2>1, <2>2
      <4> HIDE DEF m
      <4>2. m = n + 1
        BY <4>1
      <4> QED BY <4>2 DEF m
    <3>2. s \ {n + 1} \in SUBSET (1 .. n + 1) /\ n + 1 \notin s \ {n + 1}
      OBVIOUS
    <3>3. g[s \ {n + 1}] = f[s \ {n + 1}]
      BY <3>2
    <3>4. g[s] = base * f[s \ {n + 1}] + digits[n + 1]
      BY <2>2
    <3> HIDE DEF g
    <3> QED BY <2>2, <3>1, <3>3, <3>4
  <2>3. CASE n + 1 \notin s
    <3>1. s \in SUBSET (1 .. n)
      BY <2>0, <2>3
    <3>2. g[s] = f[s]
      BY <2>3
    <3>3. /\ s \ {Max(s)} \in SUBSET (1 .. n + 1)
          /\ n + 1 \notin s \ {Max(s)}
      BY <2>3
    <3>4. g[s \ {Max(s)}] = f[s \ {Max(s)}]
      BY <3>3
    <3> HIDE DEF g
    <3> QED BY <1>1, <3>1, <3>2, <3>4
  <2> QED BY <2>2, <2>3
<1>3. g = h
  BY <1>2
<1> HIDE DEF g
<1> QED BY <1>3 DEF Folds

LEMMA FoldsAll ==
    ASSUME NEW base, NEW digits, NEW N \in Nat, N # 0
    PROVE  \E f : Folds(base, digits, N, f)
<1> DEFINE P == {n \in 1 .. N : \E f : Folds(base, digits, n, f)}
<1>1. \E f : Folds(base, digits, 0, f)
  <2> DEFINE f == [s \in SUBSET (1 .. 0) |-> 0]
             h == [s \in SUBSET (1 .. 0) |->
                     IF s = {} THEN 0
                     ELSE base * f[s \ {Max(s)}] + digits[Max(s)]]
  <2>1. \A s \in SUBSET (1 .. 0) : s = {}
    OBVIOUS
  <2>2. f = h
    BY <2>1
  <2> HIDE DEF f
  <2> QED BY <2>2 DEF Folds
<1>2. 1 \in P
  <2>1. \E g : Folds(base, digits, 0 + 1, g)
    BY <1>1, FoldOneMore
  <2> QED BY <2>1
<1>3. ASSUME NEW n \in P, n + 1 \in 1 .. N
      PROVE  n + 1 \in P
  <2>1. n \in Nat /\ \E f : Folds(base, digits, n, f)
    OBVIOUS
  <2>2. \E g : Folds(base, digits, n + 1, g)
    BY <2>1, FoldOneMore
  <2> QED BY <1>3, <2>2
<1>4. N \in P
  <2>1. P \subseteq 1 .. N
    OBVIOUS
  <2> HIDE DEF P
  <2> QED BY <1>2, <1>3, <2>1, Induction
<1> QED BY <1>4

(* The first n digits, digit by digit.                                     *)
DigitByDigit(base, digits, N, f) ==
    /\ f[1 .. 0] = 0
    /\ \A n \in 1 .. N : f[1 .. n] = base * f[1 .. n - 1] + digits[n]

LEMMA FoldsAt ==
    ASSUME NEW base, NEW digits, NEW N \in Nat, NEW f,
           Folds(base, digits, N, f)
    PROVE  DigitByDigit(base, digits, N, f)
<1>1. \A s \in SUBSET (1 .. N) :
        f[s] = IF s = {} THEN 0
               ELSE base * f[s \ {Max(s)}] + digits[Max(s)]
  BY DEF Folds
<1>2. f[1 .. 0] = 0
  <2>1. 1 .. 0 = {} /\ {} \in SUBSET (1 .. N)
    OBVIOUS
  <2> QED BY <1>1, <2>1
<1>3. ASSUME NEW n \in 1 .. N
      PROVE  f[1 .. n] = base * f[1 .. n - 1] + digits[n]
  <2> DEFINE s == 1 .. n
  <2>1. /\ s \subseteq Nat /\ s # {} /\ n \in Nat /\ n \in s
        /\ \A i \in s : i \in Nat /\ i <= n
    OBVIOUS
  <2>2. s \in SUBSET (1 .. N) /\ s \ {n} = 1 .. n - 1
    OBVIOUS
  <2> HIDE DEF s
  <2>3. Max(s) \in s /\ \A i \in s : i <= Max(s)
    BY <2>1, MaxIsGreatest
  <2>4. Max(s) = n
    <3> DEFINE m == Max(s)
    <3>1. m \in Nat /\ m <= n /\ n <= m
      BY <2>1, <2>3
    <3> HIDE DEF m
    <3>2. m = n
      BY <2>1, <3>1
    <3> QED BY <3>2 DEF m
  <2> QED BY <1>1, <2>1, <2>2, <2>4 DEF s
<1> QED BY <1>2, <1>3 DEF DigitByDigit

(* Digits of which the first, the most significant, may be any.            *)
Significant(base, digits, N) ==
    /\ N \in Nat /\ N # 0 /\ DOMAIN digits = 1 .. N /\ digits[1] \in Int
    /\ \A i \in 1 .. N : i # 1 => digits[i] \in 0 .. base - 1

(* The numbers that the first 1, 2, ..., N digits stand for: what is left  *)
(* of each without its last digit is the one before.                       *)
Partials(base, digits, N, v) ==
    /\ v[N] = Positional(base, digits) /\ v[1] = digits[1]
    /\ \A n \in 1 .. N : v[n] \in Int
    /\ \A n \in 1 .. N : n # 1 => /\ v[n] \div base = v[n - 1]
                                  /\ v[n] % base = digits[n]

(* The fold, one digit after the other.                                    *)
Shifted(base, digits, N, v) ==
    /\ v[1] = base * 0 + digits[1]
    /\ \A n \in 1 .. N : n # 1 => v[n] = base * v[n - 1] + digits[n]

LEMMA PositionalShifts ==
    ASSUME NEW base, NEW digits, NEW N \in Nat, N # 0, DOMAIN digits = 1 .. N
    PROVE  \E v : /\ Shifted(base, digits, N, v)
                  /\ v[N] = Positional(base, digits)
<1> DEFINE f == CHOOSE g : Folds(base, digits, N, g)
           v == [n \in 1 .. N |-> f[1 .. n]]
<1>1. Folds(base, digits, N, f)
  BY FoldsAll
<1>2. v[N] = Positional(base, digits)
  BY PositionalIsAFold
<1> HIDE DEF f
<1>3. /\ f[1 .. 0] = 0
      /\ \A n \in 1 .. N : f[1 .. n] = base * f[1 .. n - 1] + digits[n]
  <2>1. DigitByDigit(base, digits, N, f)
    BY <1>1, FoldsAt
  <2> QED BY <2>1 DEF DigitByDigit
<1>4. v[1] = base * 0 + digits[1]
  <2>1. 1 \in 1 .. N /\ 1 - 1 = 0
    OBVIOUS
  <2>2. f[1 .. 1] = base * f[1 .. 1 - 1] + digits[1]
    BY <1>3, <2>1
  <2>3. f[1 .. 1 - 1] = 0
    BY <1>3
  <2> QED BY <2>1, <2>2, <2>3
<1>5. \A n \in 1 .. N : n # 1 => v[n] = base * v[n - 1] + digits[n]
  <2>1. \A n \in 1 .. N : n # 1 => n - 1 \in 1 .. N
    OBVIOUS
  <2> QED BY <1>3, <2>1
<1> QED BY <1>2, <1>4, <1>5 DEF Shifted

LEMMA PositionalHasPartials ==
    ASSUME NEW base \in {100, 256}, NEW digits, NEW N,
           Significant(base, digits, N)
    PROVE  \E v : Partials(base, digits, N, v)
<1>0. /\ N \in Nat /\ N # 0 /\ DOMAIN digits = 1 .. N /\ digits[1] \in Int
      /\ \A i \in 1 .. N : i # 1 => digits[i] \in 0 .. base - 1
  BY DEF Significant
<1>1. PICK v : /\ Shifted(base, digits, N, v)
               /\ v[N] = Positional(base, digits)
  BY <1>0, PositionalShifts
<1> DEFINE P == {n \in 1 .. N : v[n] \in Int}
<1>2. v[1] = digits[1]
  <2>1. v[1] = base * 0 + digits[1]
    BY <1>1 DEF Shifted
  <2> QED BY <1>0, <2>1
<1>3. ASSUME NEW n \in 1 .. N, n # 1, v[n - 1] \in Int
      PROVE  /\ v[n] \in Int
             /\ v[n] \div base = v[n - 1] /\ v[n] % base = digits[n]
  <2> DEFINE m == v[n - 1]
             digit == digits[n]
  <2>1. v[n] = base * m + digit
    BY <1>1, <1>3 DEF Shifted
  <2>2. m \in Int /\ digit \in 0 .. base - 1
    BY <1>0, <1>3
  <2> HIDE DEF m, digit
  <2>3. /\ base * m + digit \in Int
        /\ (base * m + digit) \div base = m
        /\ (base * m + digit) % base = digit
    <3>1. CASE base = 100
      BY <2>2, <3>1
    <3>2. CASE base = 256
      <4>1. digit \in 0 .. 255 /\ m \in Int
        BY <2>2, <3>2
      <4>2. 256 * m + digit \in Int
        BY <4>1
      <4>3. (256 * m + digit) \div 256 = m
        BY <4>1
      <4>4. (256 * m + digit) % 256 = digit
        BY <4>1
      <4> QED BY <3>2, <4>2, <4>3, <4>4
    <3> QED BY <3>1, <3>2
  <2>4. v[n] \in Int /\ v[n] \div base = m /\ v[n] % base = digit
    BY <2>1, <2>3
  <2> QED BY <2>4 DEF m, digit
<1>4. 1 \in P
  BY <1>0, <1>2
<1>5. ASSUME NEW n \in P, n + 1 \in 1 .. N
      PROVE  n + 1 \in P
  <2>1. n + 1 # 1 /\ (n + 1) - 1 = n /\ v[n] \in Int
    OBVIOUS
  <2>2. v[n + 1] \in Int
    BY <1>3, <1>5, <2>1
  <2> QED BY <1>5, <2>2
<1>6. \A n \in 1 .. N : n \in P
  <2>1. P \subseteq 1 .. N
    OBVIOUS
  <2> HIDE DEF P
  <2> QED BY <1>0, <1>4, <1>5, <2>1, Induction
<1>7. ASSUME NEW n \in 1 .. N, n # 1
      PROVE  v[n] \div base = v[n - 1] /\ v[n] % base = digits[n]
  <2>1. n - 1 \in 1 .. N
    BY <1>0, <1>7
  <2> QED BY <1>3, <1>6, <1>7, <2>1
<1> QED BY <1>1, <1>2, <1>6, <1>7 DEF Partials

(* Taking digits off the end of a number walks through its prefixes.       *)
WalksBack(rest, v, N) == \A i \in 1 .. N : rest[i] = v[N + 1 - i]

LEMMA QuotientsArePartials ==
    ASSUME NEW base, NEW digits, NEW N \in Nat, N # 0,
           NEW v, Partials(base, digits, N, v)
    PROVE  WalksBack(Quotients(v[N], base, N), v, N)
<1> DEFINE Divides(g) == g = [i \in 1 .. N |-> IF i = 1 THEN v[N]
                                               ELSE g[i - 1] \div base]
           w == [i \in 1 .. N |-> v[N + 1 - i]]
           rest == Quotients(v[N], base, N)
           P == {i \in 1 .. N : rest[i] = v[N + 1 - i]}
<1>1. Divides(w)
  <2>1. ASSUME NEW i \in 1 .. N
        PROVE  w[i] = IF i = 1 THEN v[N] ELSE w[i - 1] \div base
    <3>1. CASE i = 1
      BY <3>1
    <3>2. CASE i # 1
      <4>1. i - 1 \in 1 .. N /\ N + 1 - i \in 1 .. N
        BY <3>2
      <4>2. N + 1 - (i - 1) \in 1 .. N /\ N + 1 - (i - 1) # 1
            /\ (N + 1 - (i - 1)) - 1 = N + 1 - i
        BY <3>2
      <4>3. v[N + 1 - (i - 1)] \div base = v[N + 1 - i]
        BY <4>2 DEF Partials
      <4> QED BY <3>2, <4>1, <4>3
    <3> QED BY <3>1, <3>2
  <2> DEFINE h == [i \in 1 .. N |-> IF i = 1 THEN v[N]
                                    ELSE w[i - 1] \div base]
  <2>2. w = h
    <3>1. \A i \in 1 .. N : w[i] = h[i]
      BY <2>1
    <3> QED BY <3>1
  <2> QED BY <2>2
<1>2. rest = CHOOSE g : Divides(g)
  BY DEF Quotients
<1>3. Divides(rest)
  <2> HIDE DEF w, rest, Divides
  <2> QED BY <1>1, <1>2
<1> HIDE DEF rest
<1>4. \A i \in 1 .. N : rest[i] = IF i = 1 THEN v[N]
                                  ELSE rest[i - 1] \div base
  BY <1>3
<1>5. 1 \in P
  BY <1>4
<1>6. ASSUME NEW i \in P, i + 1 \in 1 .. N
      PROVE  i + 1 \in P
  <2>1. /\ i \in 1 .. N /\ i + 1 # 1 /\ (i + 1) - 1 = i
        /\ rest[i] = v[N + 1 - i]
    OBVIOUS
  <2>2. rest[i + 1] = v[N + 1 - i] \div base
    BY <1>4, <1>6, <2>1
  <2>3. N + 1 - i \in 1 .. N /\ N + 1 - i # 1
        /\ (N + 1 - i) - 1 = N + 1 - (i + 1)
    BY <1>6, <2>1
  <2>4. v[N + 1 - i] \div base = v[N + 1 - (i + 1)]
    BY <2>3 DEF Partials
  <2> QED BY <1>6, <2>2, <2>4
<1>7. \A i \in 1 .. N : i \in P
  <2>1. P \subseteq 1 .. N
    OBVIOUS
  <2> HIDE DEF P
  <2> QED BY <1>5, <1>6, <2>1, Induction
<1> QED BY <1>7 DEF WalksBack, rest

(* So the digits come back, the last one first, and the first one as it is.*)
ComeBack(base, digits, N, rest) ==
    /\ rest[N] = digits[1]
    /\ \A i \in 1 .. N : i # N => rest[i] % base = digits[N + 1 - i]

LEMMA DigitsComeBack ==
    ASSUME NEW base \in {100, 256}, NEW digits, NEW N,
           Significant(base, digits, N)
    PROVE  ComeBack(base, digits, N,
                    Quotients(Positional(base, digits), base, N))
<1> DEFINE rest == Quotients(Positional(base, digits), base, N)
<1>0. N \in Nat /\ N # 0
  BY DEF Significant
<1>1. PICK v : Partials(base, digits, N, v)
  BY PositionalHasPartials
<1>2. \A i \in 1 .. N : rest[i] = v[N + 1 - i]
  <2>1. WalksBack(Quotients(v[N], base, N), v, N)
    BY <1>0, <1>1, QuotientsArePartials
  <2>2. v[N] = Positional(base, digits)
    BY <1>1 DEF Partials
  <2> QED BY <2>1, <2>2 DEF WalksBack
<1> HIDE DEF rest
<1>3. rest[N] = digits[1]
  <2>1. N \in 1 .. N /\ N + 1 - N = 1
    BY <1>0
  <2> QED BY <1>1, <1>2, <2>1 DEF Partials
<1>4. ASSUME NEW i \in 1 .. N, i # N
      PROVE  rest[i] % base = digits[N + 1 - i]
  <2>1. N + 1 - i \in 1 .. N /\ N + 1 - i # 1
    BY <1>0, <1>4
  <2>2. v[N + 1 - i] % base = digits[N + 1 - i]
    BY <1>1, <2>1 DEF Partials
  <2> QED BY <1>2, <2>2
<1> QED BY <1>3, <1>4 DEF ComeBack, rest

LEMMA IntegersEncode ==
    ASSUME NEW raw \in Seq(Byte), raw # <<>>,
           NEW name \in DOMAIN IntegerDecoders
    PROVE  EncodesTo(from_bytes(raw, IntegerDecoders[name]), name, raw)
<1> DEFINE kind == IntegerDecoders[name]
           N == Len(raw)
           ordered == IF kind.order = "big" THEN raw ELSE Reverse(raw)
           first == ordered[1]
           top == IF kind.signed /\ first >= 128 THEN first - 256 ELSE first
           digits == [ordered EXCEPT ![1] = top]
           rest == Quotients(Positional(256, digits), 256, N)
<1>1. N \in Nat /\ N # 0 /\ DOMAIN raw = 1 .. N
      /\ \A i \in 1 .. N : raw[i] \in Byte
  BY EmptySeq, LenProperties, ElementOfSeq
<1>2. name # "bcd"
  BY DEF IntegerDecoders
<1> HIDE DEF kind, N
<1>3. /\ DOMAIN ordered = 1 .. N
      /\ \A i \in 1 .. N :
            ordered[i] = raw[IF kind.order = "big" THEN i ELSE N + 1 - i]
  <2>1. CASE kind.order = "big"
    BY <1>1, <2>1
  <2>2. CASE kind.order # "big"
    <3>1. ordered = [i \in 1 .. N |-> raw[(N - i) + 1]]
      BY <2>2 DEF Reverse, N
    <3>2. \A i \in 1 .. N : (N - i) + 1 = N + 1 - i
      BY <1>1
    <3> QED BY <2>2, <3>1, <3>2
  <2> QED BY <2>1, <2>2
<1>4. \A i \in 1 .. N : ordered[i] \in Byte
  <2>1. \A i \in 1 .. N : N + 1 - i \in 1 .. N
    BY <1>1
  <2> QED BY <1>1, <1>3, <2>1
<1> HIDE DEF ordered
<1>5. from_bytes(raw, kind) = Positional(256, digits)
  BY DEF from_bytes, ordered
<1>6. /\ first \in Byte /\ top % 256 = first
      /\ top \in IF kind.signed THEN -128 .. 127 ELSE Byte
  <2>1. first \in Byte
    BY <1>1, <1>4
  <2> HIDE DEF first
  <2>2. CASE kind.signed /\ first >= 128
    <3>1. top = first - 256 /\ first \in 128 .. 255
      BY <2>1, <2>2 DEF Byte
    <3> QED BY <2>1, <2>2, <3>1
  <2>3. CASE ~(kind.signed /\ first >= 128)
    <3> DEFINE signed == kind.signed
    <3> HIDE DEF signed
    <3>1. top = first /\ first \in 0 .. 255 /\ first % 256 = first
      BY <2>1, <2>3 DEF Byte
    <3>2. signed => first \in -128 .. 127
      BY <2>3, <3>1 DEF signed
    <3> QED BY <2>1, <3>1, <3>2 DEF signed
  <2> QED BY <2>1, <2>2, <2>3
<1>7. /\ DOMAIN digits = 1 .. N /\ digits[1] = top
      /\ \A i \in 1 .. N : i # 1 => digits[i] = ordered[i]
  BY <1>1, <1>3
<1> HIDE DEF first, top, digits
<1>8. /\ rest[N] = top
      /\ \A i \in 1 .. N : i # N => rest[i] % 256 = digits[N + 1 - i]
  <2>1. ASSUME NEW i \in 1 .. N, i # 1
        PROVE  digits[i] \in 0 .. 256 - 1
    <3>1. digits[i] \in Byte
      BY <1>4, <1>7, <2>1
    <3> QED BY <3>1 DEF Byte
  <2>2. digits[1] \in Int
    BY <1>6, <1>7 DEF Byte
  <2>3. Significant(256, digits, N)
    BY <1>1, <1>7, <2>1, <2>2 DEF Significant
  <2>4. ComeBack(256, digits, N, rest)
    BY <2>3, DigitsComeBack
  <2> HIDE DEF rest
  <2> QED BY <1>7, <2>4 DEF ComeBack
<1> HIDE DEF rest
<1>9. ASSUME NEW i \in 1 .. N
      PROVE  raw[IF kind.order = "big" THEN N + 1 - i ELSE i] = rest[i] % 256
  <2>1. /\ N + 1 - i \in 1 .. N /\ N + 1 - (N + 1 - i) = i
        /\ (N + 1 - i = 1 <=> i = N)
    BY <1>1
  <2>2. ordered[N + 1 - i] = rest[i] % 256
    <3>1. CASE i = N
      <4>1. N + 1 - i = 1
        BY <2>1, <3>1
      <4> QED BY <1>6, <1>8, <3>1, <4>1 DEF first
    <3>2. CASE i # N
      BY <1>7, <1>8, <2>1, <3>2
    <3> QED BY <3>1, <3>2
  <2>3. ordered[N + 1 - i] =
          raw[IF kind.order = "big" THEN N + 1 - i ELSE i]
    BY <1>3, <2>1
  <2> QED BY <2>2, <2>3
<1>10. rest[N] \in IF kind.signed THEN -128 .. 127 ELSE Byte
  BY <1>6, <1>8
<1>11. rest = Quotients(from_bytes(raw, kind), 256, N)
  BY <1>5 DEF rest
<1> QED BY <1>2, <1>9, <1>10, <1>11 DEF EncodesTo, kind, N

LEMMA DecimalsEncode ==
    ASSUME NEW raw \in Seq(Byte), raw # <<>>, bcd(raw).type = "number"
    PROVE  EncodesTo(bcd(raw).number, "bcd", raw)
<1> DEFINE N == Len(raw)
           digits == [i \in DOMAIN raw |->
                        10 * (raw[i] \div 16) + (raw[i] % 16)]
           rest == Quotients(Positional(100, digits), 100, N)
           Packed(pair) == 16 * (pair \div 10) + (pair % 10)
<1>1. N \in Nat /\ N # 0 /\ DOMAIN raw = 1 .. N
      /\ \A i \in 1 .. N : raw[i] \in Byte
  BY EmptySeq, LenProperties, ElementOfSeq
<1> HIDE DEF N
<1>2. /\ bcd(raw).number = Positional(100, digits)
      /\ \A i \in 1 .. N : ~(raw[i] \div 16 > 9) /\ ~(raw[i] % 16 > 9)
  BY <1>1 DEF bcd, DecodeError, Number
<1>3. ASSUME NEW i \in 1 .. N
      PROVE  /\ digits[i] \in 0 .. 99
             /\ digits[i] % 100 = digits[i] /\ raw[i] = Packed(digits[i])
  <2> DEFINE byte == raw[i]
             high == byte \div 16
             low == byte % 16
  <2>1. byte \in 0 .. 255 /\ ~(high > 9) /\ ~(low > 9)
    BY <1>1, <1>2 DEF Byte
  <2>2. digits[i] = 10 * high + low
    BY <1>1
  <2> HIDE DEF byte
  <2>3. high \in 0 .. 9 /\ low \in 0 .. 9 /\ byte = 16 * high + low
    BY <2>1
  <2> HIDE DEF high, low, digits
  <2>4. digits[i] \in 0 .. 99 /\ digits[i] % 100 = digits[i]
    BY <2>2, <2>3
  <2>5. digits[i] \div 10 = high /\ digits[i] % 10 = low
    BY <2>2, <2>3
  <2> QED BY <2>3, <2>4, <2>5 DEF byte
<1>4. DOMAIN digits = 1 .. N
  BY <1>1
<1> HIDE DEF digits
<1>5. /\ rest[N] = digits[1]
      /\ \A i \in 1 .. N : i # N => rest[i] % 100 = digits[N + 1 - i]
  <2>1. ASSUME NEW i \in 1 .. N
        PROVE  digits[i] \in 0 .. 100 - 1 /\ digits[i] \in Int
    <3> DEFINE digit == digits[i]
    <3>1. digit \in 0 .. 99
      BY <1>3
    <3> HIDE DEF digit
    <3>2. digit \in 0 .. 100 - 1 /\ digit \in Int
      BY <3>1
    <3> QED BY <3>2 DEF digit
  <2>2. 1 \in 1 .. N
    BY <1>1
  <2>3. Significant(100, digits, N)
    BY <1>1, <1>4, <2>1, <2>2 DEF Significant
  <2>4. ComeBack(100, digits, N, rest)
    BY <2>3, DigitsComeBack
  <2> HIDE DEF rest
  <2> QED BY <2>4 DEF ComeBack
<1> HIDE DEF rest
<1>6. ASSUME NEW i \in 1 .. N
      PROVE  raw[N + 1 - i] = Packed(rest[i] % 100)
  <2>1. N + 1 - i \in 1 .. N /\ (i = N => N + 1 - i = 1)
    BY <1>1
  <2>2. rest[i] % 100 = digits[N + 1 - i]
    BY <1>3, <1>5, <2>1
  <2> QED BY <1>3, <2>1, <2>2
<1>7. rest[N] \in 0 .. 99
  BY <1>1, <1>3, <1>5
<1> QED BY <1>2, <1>6, <1>7 DEF EncodesTo, N, rest

-----------------------------------------------------------------------------
(* The window, a dump, a boolean, a number and a text can be traced back   *)
(* to the bytes of the response (values.py, SignalDefinition.extract()).   *)
THEOREM ValuesShowTheirBytes == VehicleSpec => []ValueShowsItsBytes
<1>1. Explained => ValueShowsItsBytes
  <2> SUFFICES ASSUME Explained, Shown
               PROVE  ValueShowsItsBytes
    BY DEF ValueShowsItsBytes
  <2> DEFINE d == result.definition
             raw == result.raw
             value == result.value
             decoded == Decoded(d.record.decoder, raw)
  <2>1. /\ d \in Made /\ result.payload \in Payloads
        /\ raw = extract(d, result.payload) /\ raw # <<>>
        /\ \/ value = apply_scaling(decoded, d.record.scale, d.record.offset)
           \/ value = raw_hex(raw)
    BY DEF Explained, Shows, Shown
  <2> HIDE DEF d, raw, value
  <2>2. /\ raw \in Seq(Byte) /\ Len(raw) = d.record.length
        /\ \A i \in 1 .. Len(raw) :
              raw[i] = result.payload[d.record.offset_bytes + i]
    BY <2>1, WindowIsWhole
  <2>3. DOMAIN raw = 1 .. Len(raw) /\ Len(raw) \in Nat
    BY <2>2, LenProperties
  <2> HIDE DEF decoded
  <2>4. value.type = "number" \/ value = decoded \/ value = raw_hex(raw)
    BY <2>1 DEF apply_scaling, Number
  <2>5. \/ value = raw_hex(raw) \/ value = Boolean(raw[1] # 0)
        \/ \E codes \in {Whitespace, Latin1Whitespace} :
              value = Text(strip(rstrip(raw, Padding), codes))
        \/ value.type \in {"number", "DecodeError"}
        \/ d.record.decoder \in DOMAIN IntegerDecoders \cup {"boolean"}
    <3>1. CASE value = decoded
      <4>1. ascii_text(raw) \in {DecodeError,
                                 Text(strip(rstrip(raw, Padding), Whitespace))}
        BY DEF ascii_text
      <4>2. bcd(raw).type \in {"number", "DecodeError"}
        BY DEF bcd, Number, DecodeError
      <4>3. DecodeError.type = "DecodeError"
        BY DEF DecodeError
      <4> QED BY <3>1, <4>1, <4>2, <4>3, KindsOfValue DEF latin1_text, decoded
    <3> QED BY <2>4, <3>1
  <2>6. d.record.decoder \in DOMAIN IntegerDecoders =>
          value.type = "number" \/ value = raw_hex(raw)
    <3>1. d.record.decoder \in DOMAIN IntegerDecoders =>
            Len(raw) = IntegerDecoders[d.record.decoder].length
      BY <2>1, <2>2, LengthsFit
    <3> QED BY <2>4, <3>1, KindsOfValue DEF decoded, IntegerDecoders, DECODERS
  <2>7. d.record.decoder = "boolean" =>
          \/ value.type = "number" \/ value = raw_hex(raw)
          \/ value = Boolean(raw[1] # 0)
    <3>1. d.record.decoder = "boolean" => Len(raw) = 1
      BY <2>1, <2>2, LengthsFit
    <3> QED BY <2>4, <3>1, KindsOfValue DEF decoded, IntegerDecoders, DECODERS
  <2>8. \/ value = raw_hex(raw) \/ value = Boolean(raw[1] # 0)
        \/ \E codes \in {Whitespace, Latin1Whitespace} :
              value = Text(strip(rstrip(raw, Padding), codes))
        \/ value.type \in {"number", "DecodeError"}
    BY <2>5, <2>6, <2>7
  <2>9. value.type = "hex" => value.text = raw
    BY <2>8 DEF raw_hex, Boolean, Text
  <2>10. value.type = "boolean" => (value.number = 0 <=> raw[1] = 0)
    BY <2>8 DEF raw_hex, Boolean, Text
  <2>11. ASSUME value.type = "text"
         PROVE  \E i, j \in 0 .. Len(raw) :
                   /\ value.text = SubSeq(raw, i + 1, j)
                   /\ \A k \in DOMAIN raw \ (i + 1 .. j) :
                         raw[k] \in Padding \cup Latin1Whitespace
                   /\ value.text # <<>> =>
                         /\ Head(value.text) \notin Whitespace
                         /\ Last(value.text) \notin Whitespace
    <3>1. PICK codes \in {Whitespace, Latin1Whitespace} :
            value = Text(strip(rstrip(raw, Padding), codes))
      BY <2>8, <2>11 DEF raw_hex, Boolean
    <3> DEFINE text == value.text
    <3>2. text = strip(rstrip(raw, Padding), codes)
      BY <3>1 DEF Text
    <3> HIDE DEF text
    <3>3. PICK i, j \in 0 .. Len(raw) : Stretch(text, raw, codes, i, j)
      BY <2>2, <3>2, TextIsAStretch
    <3> USE DEF Stretch
    <3>4. Whitespace \subseteq codes /\ codes \subseteq Latin1Whitespace
      BY DEF Latin1Whitespace
    <3>5. ASSUME text # <<>>
          PROVE  Head(text) \notin Whitespace /\ Last(text) \notin Whitespace
      <4>1. i # j
        <5>1. i = j => SubSeq(raw, i + 1, j) = <<>>
          BY <2>3, SubSeqEmpty
        <5> QED BY <3>3, <3>5, <5>1
      <4>2. Head(text) = text[1] /\ Last(text) = text[Len(text)]
        BY DEF Last
      <4>3. text[1] = raw[i + 1] /\ text[Len(text)] = raw[j]
        BY <2>3, <3>3, <4>1
      <4> QED BY <3>3, <3>4, <4>1, <4>2, <4>3
    <3>6. \A k \in DOMAIN raw \ (i + 1 .. j) :
             raw[k] \in Padding \cup Latin1Whitespace
      BY <2>3, <3>3, <3>4
    <3> QED BY <3>3, <3>5, <3>6 DEF text
  <2>12. ASSUME value.type = "number"
         PROVE  /\ EncodesTo(decoded.number, d.record.decoder, raw)
                /\ value.number = decoded.number * d.record.scale
                                  + d.record.offset
    <3>1. /\ decoded.type = "number"
          /\ value.number = decoded.number * d.record.scale + d.record.offset
      BY <2>1, <2>12 DEF apply_scaling, Number, raw_hex
    <3>2. CASE d.record.decoder \in DOMAIN IntegerDecoders
      <4> DEFINE kind == IntegerDecoders[d.record.decoder]
      <4>1. Len(raw) = kind.length
        BY <2>1, <2>2, <3>2, LengthsFit
      <4>2. decoded = Number(from_bytes(raw, kind))
        <5>1. d.record.decoder \notin {"boolean", "ascii", "latin1", "bcd",
                                       "raw_hex"}
          BY <3>2 DEF IntegerDecoders
        <5>2. \A e : e = decoded =>
                e = IF Len(raw) = kind.length
                    THEN Number(from_bytes(raw, kind)) ELSE DecodeError
          BY <3>2, <5>1 DEF Decoded, decoded
        <5> QED BY <4>1, <5>2
      <4>3. decoded.number = from_bytes(raw, kind)
        BY <4>2 DEF Number
      <4> QED BY <2>1, <2>2, <3>1, <3>2, <4>3, IntegersEncode
    <3>3. CASE d.record.decoder \notin DOMAIN IntegerDecoders
      <4>1. decoded = bcd(raw) /\ d.record.decoder = "bcd"
        <5>1. /\ ascii_text(raw).type # "number"
              /\ latin1_text(raw).type # "number"
              /\ Boolean(raw[1] # 0).type # "number"
              /\ raw_hex(raw).type # "number" /\ DecodeError.type # "number"
          BY DEF ascii_text, latin1_text, Text, Boolean, raw_hex, DecodeError
        <5>2. d.record.decoder = "boolean" => Len(raw) = 1
          BY <2>1, <2>2, LengthsFit
        <5> QED BY <3>1, <3>3, <5>1, <5>2, KindsOfValue DEF decoded
      <4> QED BY <2>1, <2>2, <3>1, <4>1, DecimalsEncode
    <3> QED BY <3>2, <3>3
  <2> QED BY <2>2, <2>3, <2>9, <2>10, <2>11, <2>12
          DEF ValueShowsItsBytes, d, raw, value, decoded
<1> QED BY <1>1, ResultsAreExplained, PTL

(* A definition that was let in is as long as its decoder needs: decode()  *)
(* falls back on a dump only for what the bytes are, or for a decoder that *)
(* nobody knows.                                                           *)
THEOREM FallbackIsJustified == VehicleSpec => []FallbackIsTheDatasFault
<1>1. Explained => FallbackIsTheDatasFault
  <2> SUFFICES ASSUME Explained, result.how = "fallback"
               PROVE  FallbackIsTheDatasFault
    BY DEF FallbackIsTheDatasFault
  <2> DEFINE d == result.definition
             raw == result.raw
             name == d.record.decoder
  <2>1. /\ d \in Made /\ result.payload \in Payloads
        /\ raw = extract(d, result.payload) /\ raw # <<>>
        /\ Decoded(name, raw) = DecodeError
    BY DEF Explained, Shows, Shown
  <2> HIDE DEF d, raw
  <2>2. raw \in Seq(Byte) /\ Len(raw) = d.record.length
    BY <2>1, WindowIsWhole
  <2>3. /\ name \in DOMAIN IntegerDecoders =>
             Len(raw) = IntegerDecoders[name].length
        /\ name = "boolean" => Len(raw) = 1
    BY <2>1, <2>2, LengthsFit
  <2> HIDE DEF name
  <2>4. DOMAIN raw = 1 .. Len(raw) /\ Len(raw) \in Nat
        /\ \A i \in 1 .. Len(raw) : raw[i] \in Byte
    BY <2>2, LenProperties, ElementOfSeq
  <2>5. \/ name = "ascii" /\ ascii_text(raw) = DecodeError
        \/ name = "bcd" /\ bcd(raw) = DecodeError
        \/ name \notin DECODERS
    BY <2>1, <2>3, KindsOfValue
       DEF DecodeError, Boolean, latin1_text, Text, raw_hex
  <2>6. ASSUME name = "ascii", ascii_text(raw) = DecodeError
        PROVE  \E i \in DOMAIN raw : raw[i] >= 128
    <3> DEFINE text == strip(rstrip(raw, Padding), Whitespace)
    <3>1. PICK k \in DOMAIN text : text[k] >= 128
      BY <2>6 DEF ascii_text, Text, DecodeError
    <3> HIDE DEF text
    <3>2. PICK i, j \in 0 .. Len(raw) : Stretch(text, raw, Whitespace, i, j)
      BY <2>2, TextIsAStretch DEF text
    <3> USE DEF Stretch
    <3>3. DOMAIN text = 1 .. j - i
      BY <2>4, <3>2
    <3>4. i + k \in DOMAIN raw /\ raw[i + k] = text[k]
      BY <2>4, <3>1, <3>2, <3>3
    <3> QED BY <3>1, <3>4
  <2>7. ASSUME name = "bcd", bcd(raw) = DecodeError
        PROVE  \E i \in DOMAIN raw :
                  raw[i] \notin {16 * h + l : h, l \in 0 .. 9}
    <3>1. PICK i \in DOMAIN raw : raw[i] \div 16 > 9 \/ raw[i] % 16 > 9
      BY <2>7 DEF bcd, Number, DecodeError
    <3>2. raw[i] \in 0 .. 255
      BY <2>4 DEF Byte
    <3>3. \A h, l \in 0 .. 9 : raw[i] # 16 * h + l
      BY <3>1, <3>2
    <3> QED BY <3>3
  <2> QED BY <2>5, <2>6, <2>7 DEF FallbackIsTheDatasFault, d, raw, name
<1> QED BY <1>1, ResultsAreExplained, PTL

-----------------------------------------------------------------------------
(* What the vehicle's dict holds, and what the DME's registry is: it is    *)
(* the caller's as long as that is the one it was handed, and was not      *)
(* empty then.                                                             *)
EcusInv ==
    /\ _ecus \in Seq(Units)
    /\ \A i \in DOMAIN _ecus : _ecus[i] \in responding
    /\ \A i, j \in DOMAIN _ecus : SameName(_ecus[i], _ecus[j]) => i = j

DmeInv ==
    /\ dme \in [built : BOOLEAN, shared : BOOLEAN, own : Seq(Made),
                found : BOOLEAN, kept : BOOLEAN]
    /\ dme.kept /\ dme.found => dme.shared

NoneDefined ==
    result.how = "no_signals_defined" /\ dme.kept /\ dme.found => verified = {}

KnowsInv == EcusInv /\ DmeInv /\ NoneDefined

LEMMA DiscoveryKeepsEcus ==
    ASSUME EcusInv, NEW unit \in Units, register_discovered(unit)
    PROVE  EcusInv'
<1>1. DOMAIN _ecus = 1 .. Len(_ecus) /\ Len(_ecus) \in Nat
  BY LenProperties DEF EcusInv
<1>2. \A i \in DOMAIN _ecus : _ecus[i] \in Units
  BY <1>1, ElementOfSeq DEF EcusInv
<1>3. CASE ~is_responding(unit)
  BY <1>3 DEF register_discovered, EcusInv
<1>4. CASE /\ is_responding(unit)
           /\ \E i \in DOMAIN _ecus : SameName(_ecus[i], unit)
  <2>1. /\ _ecus' = [i \in DOMAIN _ecus |->
                       IF SameName(_ecus[i], unit) THEN unit ELSE _ecus[i]]
        /\ responding' = responding
    BY <1>4 DEF register_discovered
  <2>2. DOMAIN _ecus' = 1 .. Len(_ecus)
    BY <1>1, <2>1
  <2>3. \A i \in 1 .. Len(_ecus) :
           /\ _ecus'[i] \in Units /\ _ecus'[i] \in responding
           /\ _ecus'[i].name = _ecus[i].name
           /\ _ecus'[i].upper = _ecus[i].upper
    BY <1>1, <1>2, <1>4, <2>1 DEF EcusInv, SameName, is_responding
  <2>4. _ecus' \in Seq(Units)
    <3>1. _ecus' = [i \in 1 .. Len(_ecus) |-> _ecus'[i]]
      BY <1>1, <2>1
    <3> QED BY <1>1, <2>3, <3>1
  <2>5. ASSUME NEW i \in 1 .. Len(_ecus), NEW j \in 1 .. Len(_ecus),
               SameName(_ecus'[i], _ecus'[j])
        PROVE  i = j
    <3>1. SameName(_ecus[i], _ecus[j])
      BY <2>3, <2>5 DEF SameName
    <3> QED BY <1>1, <3>1 DEF EcusInv
  <2> QED BY <2>1, <2>2, <2>3, <2>4, <2>5 DEF EcusInv, SameName
<1>5. CASE /\ is_responding(unit)
           /\ ~ \E i \in DOMAIN _ecus : SameName(_ecus[i], unit)
  <2>1. _ecus' = Append(_ecus, unit) /\ responding' = responding
    BY <1>5 DEF register_discovered
  <2>2. /\ _ecus' \in Seq(Units) /\ DOMAIN _ecus' = 1 .. Len(_ecus) + 1
        /\ \A i \in 1 .. Len(_ecus) : _ecus'[i] = _ecus[i]
        /\ _ecus'[Len(_ecus) + 1] = unit
    BY <1>1, <2>1, AppendProperties DEF EcusInv
  <2>3. \A i \in 1 .. Len(_ecus) + 1 : i \in 1 .. Len(_ecus)
                                       \/ i = Len(_ecus) + 1
    BY <1>1
  <2>4. ASSUME NEW i \in DOMAIN _ecus'
        PROVE  _ecus'[i] \in responding'
    BY <1>1, <1>5, <2>1, <2>2, <2>3 DEF EcusInv, is_responding
  <2>5. ASSUME NEW i \in DOMAIN _ecus', NEW j \in DOMAIN _ecus',
               SameName(_ecus'[i], _ecus'[j])
        PROVE  i = j
    <3>1. CASE i \in 1 .. Len(_ecus) /\ j \in 1 .. Len(_ecus)
      BY <1>1, <2>2, <2>5, <3>1 DEF EcusInv
    <3>2. CASE i \in 1 .. Len(_ecus) /\ j = Len(_ecus) + 1
      BY <1>1, <1>5, <2>2, <2>5, <3>2
    <3>3. CASE i = Len(_ecus) + 1 /\ j \in 1 .. Len(_ecus)
      BY <1>1, <1>5, <2>2, <2>5, <3>3 DEF SameName
    <3> QED BY <2>2, <2>3, <3>1, <3>2, <3>3
  <2>6. \A i, j \in DOMAIN _ecus' : SameName(_ecus'[i], _ecus'[j]) => i = j
    BY <2>5
  <2> QED BY <2>2, <2>4, <2>6 DEF EcusInv, SameName
<1> QED BY <1>3, <1>4, <1>5

LEMMA StepKeepsEcus == EcusInv /\ [VehicleNext]_vehicle => EcusInv'
<1> SUFFICES ASSUME EcusInv, [VehicleNext]_vehicle
             PROVE  EcusInv'
  OBVIOUS
<1>1. ASSUME NEW unit \in Units, register_discovered(unit)
      PROVE  EcusInv'
  BY <1>1, DiscoveryKeepsEcus
<1>2. ASSUME NEW unit \in Units, Answers(unit)
      PROVE  EcusInv'
  <2>1. _ecus' = _ecus /\ responding \subseteq responding'
    BY <1>2 DEF Answers
  <2> QED BY <2>1 DEF EcusInv
<1>3. CASE UNCHANGED <<responding, _ecus>>
  BY <1>3 DEF EcusInv
<1>4. CASE \/ Reload \/ MSV90 \/ \E allow \in BOOLEAN : live_data(allow)
           \/ UNCHANGED vehicle
  BY <1>3, <1>4 DEF Reload, MSV90, live_data, vehicle
<1> QED BY <1>1, <1>2, <1>3, <1>4 DEF VehicleNext

LEMMA StepKeepsDme == Registered /\ DmeInv /\ [VehicleNext]_vehicle => DmeInv'
<1> SUFFICES ASSUME Registered, DmeInv, [VehicleNext]_vehicle
             PROVE  DmeInv'
  OBVIOUS
<1>1. CASE Reload
  <2>1. CASE dme' = dme
    BY <2>1 DEF DmeInv
  <2>2. CASE dme' = [dme EXCEPT !.shared = FALSE, !.own = DmeDefinitions,
                                !.kept = FALSE]
    <3>1. DmeDefinitions \in Seq(Made)
      BY DEF DmeDefinitions, DmeInv, Registered
    <3> QED BY <2>2, <3>1 DEF DmeInv
  <2> QED BY <1>1, <2>1, <2>2 DEF Reload
<1>2. CASE MSV90
  <2>1. <<>> \in Seq(Made)
    BY EmptySeq
  <2>2. /\ dme' = [built |-> TRUE, shared |-> definitions # <<>>, own |-> <<>>,
                   found |-> definitions # <<>>, kept |-> TRUE]
        /\ (definitions # <<>>) \in BOOLEAN
    BY <1>2 DEF MSV90
  <2> QED BY <2>1, <2>2 DEF DmeInv
<1>3. CASE UNCHANGED dme
  BY <1>3 DEF DmeInv
<1>4. CASE \/ \E allow \in BOOLEAN : live_data(allow)
           \/ \E unit \in Units : Answers(unit) \/ register_discovered(unit)
           \/ UNCHANGED vehicle
  BY <1>3, <1>4 DEF live_data, Answers, register_discovered, vehicle
<1> QED BY <1>1, <1>2, <1>3, <1>4 DEF VehicleNext

LEMMA StepKeepsNoneDefined ==
    Registered /\ DmeInv /\ NoneDefined /\ [VehicleNext]_vehicle => NoneDefined'
<1> SUFFICES ASSUME Registered, DmeInv, NoneDefined, [VehicleNext]_vehicle
             PROVE  NoneDefined'
  OBVIOUS
<1> USE DEF NoneDefined
<1>1. ASSUME NEW document \in Documents, Load(document)
      PROVE  NoneDefined'
  <2>1. \E how : /\ result' = Ended(how)
                 /\ how \in {"ok", "TypeError", "ValueError",
                            "OverflowError"}
    BY <1>1 DEF Load, FromDictEnds
  <2>2. result'.how # "no_signals_defined"
    BY <2>1 DEF Ended
  <2> QED BY <2>2
<1>2. ASSUME NEW record \in Records, Add(record)
      PROVE  NoneDefined'
  <2>1. \E how : result' = Ended(how) /\ how \in {"ok", "ValueError"}
    BY <1>2 DEF Add
  <2>2. result'.how # "no_signals_defined"
    BY <2>1 DEF Ended
  <2> QED BY <2>2
<1>3. CASE LoadRefused \/ MSV90
  <2>1. \E how : /\ result' = Ended(how)
                 /\ how \in {"ok", "ValueError", "OSError", "RecursionError"}
    BY <1>3 DEF LoadRefused, MSV90
  <2>2. result'.how # "no_signals_defined"
    BY <2>1 DEF Ended
  <2> QED BY <2>2
<1>4. ASSUME NEW i \in DOMAIN definitions, NEW payload \in Payloads,
             NEW allow \in BOOLEAN, Decode(i, payload, allow)
      PROVE  NoneDefined'
  <2>1. definitions[i] \in Made
    <3>1. DOMAIN definitions = 1 .. Len(definitions)
      BY LenProperties DEF Registered
    <3> QED BY <3>1, ElementOfSeq DEF Registered
  <2>2. result'.how # "no_signals_defined"
    BY <1>4, <2>1, DecodeEnds DEF Decode
  <2> QED BY <2>2
<1>5. ASSUME NEW allow \in BOOLEAN, live_data(allow)
      PROVE  NoneDefined'
  <2>1. UNCHANGED <<definitions, dme>>
    BY <1>5 DEF live_data
  <2>2. verified' = verified
    BY <2>1 DEF verified
  <2>3. CASE available_signals(allow) = {}
    <3>1. dme.kept /\ dme.found => DmeDefinitions = definitions
      BY DEF DmeInv, DmeDefinitions
    <3>2. dme.kept /\ dme.found => verified = {}
      BY <2>3, <3>1 DEF available_signals, verified
    <3> QED BY <2>1, <2>2, <3>2
  <2>4. CASE available_signals(allow) # {}
    <3>1. result'.how = "not_implemented"
      BY <1>5, <2>4 DEF live_data, Ended
    <3> QED BY <3>1
  <2> QED BY <2>3, <2>4
<1>6. CASE UNCHANGED <<definitions, result, dme>>
  <2>1. verified' = verified
    BY <1>6 DEF verified
  <2> QED BY <1>6, <2>1
<1>7. ASSUME NEW unit \in Units, register_discovered(unit)
      PROVE  NoneDefined'
  <2>1. \E how : result' = Ended(how) /\ how \in {"ok", "ValueError"}
    BY <1>7 DEF register_discovered
  <2>2. result'.how # "no_signals_defined"
    BY <2>1 DEF Ended
  <2> QED BY <2>2
<1>8. CASE UNCHANGED vehicle \/ \E unit \in Units : Answers(unit)
  BY <1>6, <1>8 DEF vehicle, vars, Answers
<1> QED BY <1>1, <1>2, <1>3, <1>4, <1>5, <1>7, <1>8 DEF VehicleNext, Reload

(* The dict of a vehicle has units that answered, each name once; a DME    *)
(* whose caller still has the registry it was handed shares it.            *)
THEOREM VehicleInvariant == VehicleSpec => []KnowsInv
<1>1. VehicleInit => KnowsInv
  <2> SUFFICES ASSUME VehicleInit
               PROVE  KnowsInv
    OBVIOUS
  <2>1. _ecus = <<>> /\ dme = NoDme /\ result.how = "none"
    BY DEF VehicleInit, Init, Ended
  <2>2. EcusInv
    BY <2>1, EmptySeq DEF EcusInv
  <2>3. DmeInv
    BY <2>1, EmptySeq DEF DmeInv, NoDme
  <2> QED BY <2>1, <2>2, <2>3 DEF KnowsInv, NoneDefined
<1>2. Registered /\ KnowsInv /\ [VehicleNext]_vehicle => KnowsInv'
  BY StepKeepsEcus, StepKeepsDme, StepKeepsNoneDefined DEF KnowsInv
<1> QED BY <1>1, <1>2, RegistryHoldsDefinitions, PTL DEF VehicleSpec

(* What a vehicle lists answered, under a name of its own by which it is   *)
(* found; a DME never says that no signal is defined while the registry it *)
(* shares with its caller holds one that could be used.                    *)
THEOREM VehicleIsHonest == VehicleSpec => []SaysWhatItKnows
<1>1. KnowsInv => SaysWhatItKnows
  <2> SUFFICES ASSUME KnowsInv
               PROVE  SaysWhatItKnows
    OBVIOUS
  <2>1. \A i \in DOMAIN _ecus : _ecus[i] \in Units
    <3>1. DOMAIN _ecus = 1 .. Len(_ecus)
      BY LenProperties DEF KnowsInv, EcusInv
    <3> QED BY <3>1, ElementOfSeq DEF KnowsInv, EcusInv
  <2>2. ASSUME NEW i \in DOMAIN _ecus, _ecus[i].upper
        PROVE  get_ecu(_ecus[i].name) = {_ecus[i]}
    <3>1. ASSUME NEW unit \in get_ecu(_ecus[i].name)
          PROVE  unit = _ecus[i]
      <4>1. PICK j \in DOMAIN _ecus : unit = _ecus[j]
        BY DEF get_ecu, ToSet
      <4>2. unit.name = _ecus[i].name /\ unit.upper
        BY DEF get_ecu
      <4>3. _ecus[i].upper = TRUE /\ _ecus[j].upper = TRUE
        BY <2>1, <2>2, <4>1, <4>2, UnitsAssumption
      <4>4. SameName(_ecus[i], _ecus[j])
        BY <4>1, <4>2, <4>3 DEF SameName
      <4> QED BY <4>1, <4>4 DEF KnowsInv, EcusInv
    <3>2. _ecus[i] \in get_ecu(_ecus[i].name)
      BY <2>2 DEF get_ecu, ToSet
    <3> QED BY <3>1, <3>2
  <2> QED BY <2>2 DEF KnowsInv, EcusInv, NoneDefined, SaysWhatItKnows
<1> QED BY <1>1, VehicleInvariant, PTL

=============================================================================
