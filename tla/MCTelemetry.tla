------------------------------ MODULE MCTelemetry ------------------------------
(* A heartbeat carries up to two samples; a history of three rows is trimmed by *)
(* every second heartbeat.                                                      *)
EXTENDS Telemetry
================================================================================
