------------------------------ MODULE MCConfig --------------------------------
(***************************************************************************)
(* A small instance of GnssConfig: gps.conf has no server, the framework   *)
(* sets one and the lock.                                                  *)
(***************************************************************************)
EXTENDS GnssConfig

MCInputs == [GPS_LOCK |-> {3}, SERVER |-> {5}, SUPL_MODE |-> {1}]
MCFileConf == [GPS_LOCK |-> 0, SERVER |-> 0, SUPL_MODE |-> 1]
=============================================================================
