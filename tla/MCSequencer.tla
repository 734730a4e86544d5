----------------------------- MODULE MCSequencer -----------------------------
(* An instance of Sequencer: a stream of three messages beside one of two. *)
EXTENDS Sequencer, TLC

TwoStreams == "a" :> 2 @@ "b" :> 1
=============================================================================
