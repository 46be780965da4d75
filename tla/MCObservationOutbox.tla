------------------------ MODULE MCObservationOutbox ------------------------
(* Model-checking instance of ObservationOutbox.  Safety and liveness are   *)
(* checked in one run, so ids and pushers are not declared symmetric.       *)
EXTENDS ObservationOutbox
=============================================================================
