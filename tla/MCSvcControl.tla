----------------------------- MODULE MCSvcControl -----------------------------
(* Command lines and groups of requests for TLC. *)
EXTENDS SvcControl, FfrtReport

mcLines ==
  {<<"svc">>, <<"svc", "help">>, <<"svc", "wifi">>, <<"svc", "wifi", "enable">>, <<"svc", "wifi", "">>,
   <<"svc", "help", "wifi">>, <<"svc", "enable", "wifi">>, <<"svc", "nearlink", "a", "b", "c">>}

mcWorkloads ==
  {{"FFRT_STAT_CMD"},
   {"IPC_STAT_CMD", "SERVICE_CONTROL_CMD"},
   {"START_ABILITY", "STOP_ABILITY", "ACTIVE_ABILITY", "IDLE_ABILITY",
    "SEND_STRATEGY_TO_SA", "SYSTEM_ABILITY_EXT", "FFRT_DUMPER", "unknown"}}
=============================================================================
