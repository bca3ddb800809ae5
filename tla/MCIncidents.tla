---------------------------- MODULE MCIncidents ----------------------------
(* TLC instance of Incidents: /healthz and another route, each with a      *)
(* result of its own that is no success.                                   *)
EXTENDS Incidents

MCAnswers ==
  {<<"/healthz", "success">>, <<"/healthz", "failure">>,
   <<"/rooms", "success">>, <<"/rooms", "5xx">>}
=============================================================================
