------------------------------- MODULE Channel -------------------------------
(***************************************************************************)
(* What Session takes one direction of a WebSocket for: what one side      *)
(* sends arrives in order, once and whole, up to the point where the       *)
(* connection is lost.                                                     *)
(***************************************************************************)
EXTENDS Naturals, Sequences, SequencesExt

VARIABLES sent, received

Init == IsPrefix(received, sent)

Send == IsPrefix(sent, sent') /\ UNCHANGED received

Receive ==
    /\ UNCHANGED sent
    /\ IsPrefix(received, received') /\ IsPrefix(received', sent)

Next == Send \/ Receive

Spec == Init /\ [][Next]_<<sent, received>>
=============================================================================
