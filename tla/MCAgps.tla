------------------------------- MODULE MCAgps -------------------------------
(***************************************************************************)
(* Instances of Agps for TLC: what the modem asks for with each handle.    *)
(***************************************************************************)
EXTENDS Agps

CONSTANTS h1, h2

EveryType == [h \in Handles |-> AgpsType]
OneEmergency == [h \in Handles |-> IF h = h1 THEN {"SUPL_ES"} ELSE {"SUPL"}]
Emergencies == [h \in Handles |-> {"SUPL_ES"}]
=============================================================================
