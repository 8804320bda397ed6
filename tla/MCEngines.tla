----------------------------- MODULE MCEngines -----------------------------
(***************************************************************************)
(* Two parse threads and a sidecar that serves two requests at a time: one *)
(* may be an orphan whose client has timed out and asked again.            *)
(***************************************************************************)
EXTENDS Engines
=============================================================================
