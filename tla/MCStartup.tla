----------------------------- MODULE MCStartup -----------------------------
(* Values for the constants of Startup: a label value that is defined and one
   that is only listed, before and after a change of the configuration. *)
EXTENDS Startup

CONSTANTS top, plain

Config(listed, defined, publish) ==
    [values |-> listed, definitions |-> defined, password |-> publish]

MCConfigs == { Config({plain}, {top}, TRUE), Config({}, {top}, TRUE),
               Config({plain}, {}, TRUE) }
MCPolicies == { [values |-> {top}, definitions |-> {top}],
                [values |-> {}, definitions |-> {}] }
=============================================================================
