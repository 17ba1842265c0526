------------------------------ MODULE Vehicle -------------------------------
(***************************************************************************)
(* The vehicle and its control units (vehicle/f10.py, vehicle/ecu.py) and  *)
(* the DME with its signal definitions (ecus/msv90.py).                    *)
(*                                                                         *)
(* A DME is handed the very registry of its caller, so what the caller     *)
(* adds later it knows too - unless the registry was empty at the time:    *)
(* `definitions or load_bundled()' then gives it one of its own, which is  *)
(* empty as shipped.  That a unit answers is up to the protocol layer,     *)
(* which does not exist yet.                                               *)
(***************************************************************************)
EXTENDS Decoding

CONSTANTS Units     \* control units: their name, its case, and a number

ASSUME UnitsAssumption == \A unit \in Units : unit.upper \in BOOLEAN

VARIABLES
    dme,            \* the DME's registry
    responding,     \* units whose comms_level has reached ECU_RESPONDING
    _ecus           \* the dict of the vehicle, in order of insertion

-----------------------------------------------------------------------------
(* shared: the registry is the caller's.  `found' and `kept' are history:  *)
(* whether the caller's held definitions, and whether it still is the same.*)
NoDme == [built |-> FALSE, shared |-> FALSE, own |-> <<>>,
          found |-> FALSE, kept |-> FALSE]

\* Mutant: the definitions are copied.
MSV90Copies ==
    /\ dme' = [built |-> TRUE, shared |-> FALSE, own |-> definitions,
                found |-> definitions # <<>>, kept |-> TRUE]
    /\ result' = Ended("ok")
    /\ UNCHANGED <<definitions, responding, _ecus>>

MSV90 ==
    /\ dme' = [built |-> TRUE, shared |-> definitions # <<>>, own |-> <<>>,
                found |-> definitions # <<>>, kept |-> TRUE]
    /\ result' = Ended("ok")
    /\ UNCHANGED <<definitions, responding, _ecus>>

DmeDefinitions == IF dme.shared THEN definitions ELSE dme.own

available_signals(include_unverified) ==
    {i \in DOMAIN DmeDefinitions :
        include_unverified \/ DmeDefinitions[i].verified}

(* NotVerifiedError either way, with one of two explanations. *)
live_data(allow_unverified) ==
    /\ dme.built
    /\ result' = Ended(IF available_signals(allow_unverified) = {}
                        THEN "no_signals_defined" ELSE "not_implemented")
    /\ UNCHANGED <<definitions, dme, responding, _ecus>>

(* load() makes a registry, and the caller's old one is the DME's alone.   *)
Reload ==
    /\ \E document \in Documents : Load(document)
    /\ dme' = IF definitions' = definitions THEN dme
               ELSE [dme EXCEPT !.shared = FALSE, !.own = DmeDefinitions,
                                !.kept = FALSE]
    /\ UNCHANGED <<responding, _ecus>>

-----------------------------------------------------------------------------
(* A valid response, which is what raises the level of a unit.             *)
Answers(unit) ==
    /\ responding' = responding \cup {unit}
    /\ UNCHANGED <<definitions, result, dme, _ecus>>

is_responding(unit) == unit \in responding

SameName(a, b) == a.name = b.name /\ a.upper = b.upper

(* A name seen before keeps its place, and its unit is replaced. *)
register_discovered(unit) ==
    /\ IF ~is_responding(unit)
       THEN UNCHANGED _ecus /\ result' = Ended("ValueError")
       ELSE /\ _ecus' = IF \E i \in DOMAIN _ecus : SameName(_ecus[i], unit)
                        THEN [i \in DOMAIN _ecus |->
                                IF SameName(_ecus[i], unit) THEN unit
                                                            ELSE _ecus[i]]
                        ELSE Append(_ecus, unit)
            /\ result' = Ended("ok")
    /\ UNCHANGED <<definitions, dme, responding>>

(* The name asked for is put in upper case, the names of the units as they *)
(* were given.                                                             *)
get_ecu(name) == {unit \in ToSet(_ecus) : unit.name = name /\ unit.upper}

-----------------------------------------------------------------------------
VehicleInit == Init /\ dme = NoDme /\ responding = {} /\ _ecus = <<>>

VehicleNext ==
    \/ Reload
    \/ /\ \/ LoadRefused
          \/ \E record \in Records : Add(record)
          \/ \E i \in DOMAIN definitions, payload \in Payloads, allow \in BOOLEAN :
                Decode(i, payload, allow)
       /\ UNCHANGED <<dme, responding, _ecus>>
    \/ MSV90
    \/ \E allow \in BOOLEAN : live_data(allow)
    \/ \E unit \in Units : Answers(unit) \/ register_discovered(unit)

vehicle == <<vars, dme, responding, _ecus>>
VehicleSpec == VehicleInit /\ [][VehicleNext]_vehicle

-----------------------------------------------------------------------------
(* What a vehicle and its DME say of themselves.  Units are listed as      *)
(* discovered only if they answered, each name once, and one with a name   *)
(* in upper case is found by it.  That no signal is defined is said only   *)
(* when the caller's registry holds none that could be used, counting what *)
(* was added after the DME was built - unless the DME was built on an      *)
(* empty registry, or the caller has loaded another since.                 *)
SaysWhatItKnows ==
    /\ \A i, j \in DOMAIN _ecus :
          /\ _ecus[i] \in responding
          /\ SameName(_ecus[i], _ecus[j]) => i = j
    /\ \A i \in DOMAIN _ecus :
          _ecus[i].upper => get_ecu(_ecus[i].name) = {_ecus[i]}
    /\ result.how = "no_signals_defined" /\ dme.kept /\ dme.found
          => verified = {}
=============================================================================
