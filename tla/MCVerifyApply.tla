---------------------------- MODULE MCVerifyApply ----------------------------
(* Small instances of VerifyApply for TLC.                                   *)
EXTENDS VerifyApply

CONSTANTS c1, c2, x1, x2, x3

MCAllow    == [c \in Cmd |-> c = c1]
MCEnforced == {x3}
AllPass    == [x \in Rule |-> "pass"]
AllFail    == [x \in Rule |-> "fail"]
MCCurrent  == {AllPass, AllFail, [AllFail EXCEPT ![x1] = "error"]}
MCInstall  == {NoScan, [AllPass EXCEPT ![x2] = "fail"]}
==============================================================================
