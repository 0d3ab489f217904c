----------------------------- MODULE MCStatAlarm -----------------------------
(* Two alarm lines, one of which parse_alarm_cfg rejects; edits may add   *)
(* and remove lines, so a reload that kept old lines would show, and the  *)
(* two-line files let a reload read them in one read(2) or in two.        *)
EXTENDS StatAlarm

MCItems == {"i1", "i2", "bad"}
MCValidItems == {"i1", "i2"}
MCConfigs == {<<"i1">>, <<"i2", "bad">>, <<"i1", "i2">>}
=============================================================================
