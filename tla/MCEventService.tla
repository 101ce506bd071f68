---------------------------- MODULE MCEventService ----------------------------
(* EventService alone, on two logs that between them reach every handler but  *)
(* the cancellation and the rejections, which only set a status.              *)
EXTENDS EventService, TLC

MCEventLogs == {<<"esc_crt", "mil_add", "mil_sub", "mil_apr", "funds_rel">>,
                <<"esc_crt", "upgraded", "dis_rai", "dis_res">>}

MCSymmetry == Permutations(Ticks)
=============================================================================
