------------------------------ MODULE MCIpaws ------------------------------
(* Settings for checking Ipaws: an alert of ours, its bare cancellation,   *)
(* and a drill.                                                            *)
EXTENDS Ipaws, TLC

Message(i, t, g, a, e, r) ==
  [id |-> i, type |-> t, genre |-> g, area |-> a, event |-> e, refers |-> r]

MCMessages ==
  {Message("alert", "Alert", "real", "in", TRUE, "alert"),
   Message("cancel", "Cancel", "real", "none", FALSE, "alert"),
   Message("drill", "Alert", "test", "in", TRUE, "drill")}

Choice(z, t, s, p) == [zones |-> z, tests |-> t, selected |-> s, paused |-> p]

MCSettings == {Choice(TRUE, FALSE, TRUE, FALSE), Choice(TRUE, TRUE, FALSE, TRUE)}
=============================================================================
