------------------------------ MODULE Reconcile ------------------------------
(***************************************************************************)
(* The pure part of ks-gen verify: what a scan result means.  A scan (the  *)
(* parsed ARF) is a function from the rule ids it mentions to XCCDF result *)
(* states; a report is a function from the same ids to rows.               *)
(*                                                                         *)
(* verify/arf.py, verify/reconcile.py,                                     *)
(*   verify/fleet.py and cli.py (report -> exit code)                      *)
(***************************************************************************)
EXTENDS ExitCodes, Naturals, FiniteSets

CONSTANT Rule            \* XCCDF rule ids that a scan may mention

(***************************************************************************)
(* arf.VALID_RESULTS, and reconcile's two subsets of it.                   *)
(***************************************************************************)
ResultState == {"pass", "fail", "notapplicable", "notchecked", "notselected",
                "error", "unknown", "fixed", "informational"}
CleanCurrentStates == {"pass", "fixed", "notapplicable", "notselected",
                       "informational"}
IncompleteStates == {"error", "notchecked", "unknown"}

NoResult == "none"       \* Python's None: the rule has no install-time result

Category == {"clean", "expected_fail", "new_fail", "regression", "incomplete"}
FailingOnlyRegression == {"regression"}
FailingCategory == {"new_fail", "regression"}

(***************************************************************************)
(* reconcile.categorize                                                    *)
(***************************************************************************)
Categorize(current, install, expected) ==
    CASE current \in CleanCurrentStates -> "clean"
      [] current \in IncompleteStates   -> "incomplete"
      [] OTHER ->
           IF expected THEN "expected_fail"
           ELSE IF install \in CleanCurrentStates THEN "regression"
           ELSE "new_fail"

(***************************************************************************)
(* reconcile.build_report: one row per rule of the current scan; rules     *)
(* only in the install-time scan are dropped.  `install' is a scan or the  *)
(* empty function when there is no install slot: `install and rule_id in   *)
(* install' is false either way.                                           *)
(***************************************************************************)
NoScan == [r \in {} |-> NoResult]

InstallState(install, r) == IF r \in DOMAIN install THEN install[r] ELSE NoResult

BuildReport(current, install, expected) ==
    [r \in DOMAIN current |->
        [current  |-> current[r],
         install  |-> InstallState(install, r),
         category |-> Categorize(current[r], InstallState(install, r),
                                 r \in expected)]]

IsClean(rows) == \A r \in DOMAIN rows : rows[r].category \notin FailingCategory

(***************************************************************************)
(* The order in which a finished report is turned into an exit code:       *)
(* failures outrank tailoring drift.                                       *)
(***************************************************************************)
ReportExit(isClean, drift) ==
    IF ~isClean THEN VERIFY_FAIL ELSE IF drift THEN TAILORING_DRIFT ELSE OK
==============================================================================
