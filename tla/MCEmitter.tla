----------------------------- MODULE MCEmitter -----------------------------
(***************************************************************************)
(* Instances of Emitter: two epochs of two events, three starts of the     *)
(* process.                                                                *)
(***************************************************************************)
EXTENDS Emitter
=============================================================================
