------------------------------ MODULE Transport ------------------------------
(***************************************************************************)
(* The Transport base class (transport/base.py): lifecycle state, last     *)
(* error and packet observers.  Concrete transports extend this module and *)
(* add their methods.                                                      *)
(*                                                                         *)
(* _emit calls the observers one after the other in the caller's thread,   *)
(* and what a callback does is its own affair: it may raise, and it may    *)
(* change the very list that is being walked.  So an emission is a loop of *)
(* one step per callback, with the list copied when it starts.             *)
(***************************************************************************)
EXTENDS Naturals, Sequences, SequencesExt

CONSTANTS
    Observers,      \* the callbacks that may be registered
    MaxObservers    \* bound: registrations at a time

VARIABLES
    state, last_error,
    observers,      \* _observers, in order of registration
    snapshot,       \* the copy the running _emit walks
    called          \* the callbacks the running _emit has made

base == <<state, last_error, observers, snapshot, called>>

ConnectionState == {"disconnected", "connecting", "connected", "error"}

TransportInit ==
    /\ state = "disconnected" /\ last_error = "none"
    /\ observers = <<>> /\ snapshot = <<>> /\ called = <<>>

SetState(s) ==
    /\ state' = s
    /\ last_error' = IF s = "connected" THEN "none" ELSE last_error

Fail ==
    /\ state' = "error"
    /\ last_error' = "failure"

(* Registering twice means being called twice. *)
AddObserver(o) ==
    /\ Len(observers) < MaxObservers
    /\ observers' = Append(observers, o)
    /\ UNCHANGED <<state, last_error, snapshot, called>>

(* The first registration goes; an unknown observer is ignored. *)
RemoveObserver(o) ==
    /\ observers' = RemoveFirst(observers, o)
    /\ UNCHANGED <<state, last_error, snapshot, called>>

BeginEmit == snapshot' = observers /\ called' = <<>>

\* Mutant: _emit walks the live list.
LiveList == observers

Walked == snapshot

(* One callback.  It may return, raise, take itself off the list or bring  *)
(* in another.                                                             *)
Notify ==
    /\ Len(called) < Len(Walked)
    /\ LET o == Walked[Len(called) + 1]
       IN  /\ called' = Append(called, o)
           /\ \/ UNCHANGED <<observers, last_error>>
              \/ last_error' = "observer" /\ UNCHANGED observers
              \/ /\ observers' = RemoveFirst(observers, o)
                 /\ UNCHANGED last_error
              \/ /\ Len(observers) < MaxObservers
                 /\ \E new \in Observers : observers' = Append(observers, new)
                 /\ UNCHANGED last_error
    /\ UNCHANGED <<state, snapshot>>

Emitted == Len(called) >= Len(Walked)

EndEmit ==
    /\ Emitted
    /\ snapshot' = <<>> /\ called' = <<>>
    /\ UNCHANGED <<state, last_error, observers>>
=============================================================================
