---------------------------- MODULE MCEventPipeline ----------------------------
(* EventPipeline on one log, with one subscriber to the payment. *)
EXTENDS EventPipeline

MCEventLogs == {<<"esc_crt", "funds_rel">>}
MCEvents == 1 .. 2
MCSubscribedTo == [s \in Subs |-> {"funds_rel"}]
=============================================================================
