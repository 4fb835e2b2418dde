------------------------------ MODULE ExitCodes ------------------------------
(***************************************************************************)
(* loader.ExitCode, but for LINT_FAIL, which no modelled command returns.  *)
(***************************************************************************)
OK              == 0
USAGE           == 1
CONFIG_INVALID  == 2
RULE_CONFLICT   == 3
TOOL_MISSING    == 5
VERIFY_FAIL     == 6
TRANSPORT_FAIL  == 7
TAILORING_DRIFT == 8
==============================================================================
