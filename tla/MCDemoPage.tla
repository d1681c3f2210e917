----------------------------- MODULE MCDemoPage -----------------------------
(***************************************************************************)
(* Instances of the demo page for TLC.                                     *)
(***************************************************************************)
EXTENDS DemoPageProperties

CONSTANTS t1, t2, i1, i2

OneTab == {t1}
TwoTabs == {t1, t2}
TwoIds == {i1, i2}
NoIds == {}
TheSecond == {i2}
==============================================================================
