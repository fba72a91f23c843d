----------------------------- MODULE MCDeviceList -----------------------------
EXTENDS DeviceList
CONSTANTS k, m
(* Whole records, and records with one field left out.                     *)
MCAnswers == {[key |-> k, model |-> m], [key |-> None, model |-> m],
              [key |-> k, model |-> None]}
===============================================================================
