-------------------------- MODULE ExactlyOnceInbox --------------------------
(***************************************************************************)
(* What a session's inbox promises its clients and its harness: accepted   *)
(* events are applied to the session state one at a time, each exactly     *)
(* once, in acceptance order.  Applying an event may accept further ones   *)
(* (the wait_resumed events of cancelled waits).                           *)
(***************************************************************************)
EXTENDS Naturals

VARIABLES accepted,   \* number of accepted events, which are 1..accepted
          applied,    \* events whose effects are part of the state
          version     \* version of the session state

Init == accepted = 0 /\ applied = {} /\ version = 0

Accept ==
    /\ accepted' = accepted + 1
    /\ UNCHANGED <<applied, version>>

Apply ==
    \E e \in 1..accepted :
        /\ e \notin applied
        /\ \A d \in 1..(e - 1) : d \in applied
        /\ applied' = applied \cup {e}
        /\ version' = version + 1
        /\ accepted' \in {accepted, accepted + 1}

Next == Accept \/ Apply

Spec == Init /\ [][Next]_<<accepted, applied, version>>
=============================================================================
