---------------------------- MODULE MCRadioLink ----------------------------
(* Settings for checking RadioLink: both connections, the three scope      *)
(* policies, and a radio that is disabled or has no target.                *)
EXTENDS RadioLink, TLC

Saved(m, p) == [mode |-> m, policy |-> p]

MCConfigs == {Saved("tcp", "scoped"), Saved("tcp", "blank"), Saved("serial", "scoped"),
              Saved("serial", "open"), Saved("unset", "open"), Saved("disabled", "open")}
=============================================================================
