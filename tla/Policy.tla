------------------------------- MODULE Policy -------------------------------
(***************************************************************************)
(* What one loaded host.yaml asks of a scan: the ops each ks-gen rule puts *)
(* into tailoring.xml, the failures exceptions.md declares, the rules the  *)
(* configuration promises to pass, and the drift between two tailorings.   *)
(* A STIG rule id stands for the group of ids that the code always treats  *)
(* alike (`unlock_time' for both faillock values); a configuration keeps   *)
(* the fields these functions read.                                      *)
(* rules/alma{8,9,10}/*.py, tailoring.py, writer.py, exceptions_report.py, *)
(*   verify/tailoring_drift.py, ssg_ids.py                                 *)
(***************************************************************************)
EXTENDS Naturals, SequencesExt

Distros  == {"alma8", "alma9", "alma10"}
Policies == {"STIG", "MODERN", "FUTURE"}

ChronyRules == {"maxpoll", "client_only", "no_cmdport", "server_directive"}

StigRules == ChronyRules \cup
    {"fips_common", "fips_dracut", "fips_booted", "crypto_policy", "deny_root",
     "unlock_time", "disk_action", "max_log_action", "set_nts", "usbguard", "banner",
     "init_files", "rngd", "aide"}

(***************************************************************************)
(* The rule modules a distro ships (registry.load_rules), and DEPENDS_ON.  *)
(***************************************************************************)
Rules == {"admin_user_and_keys", "auditd_actions", "banner_text",
          "container_host", "crypto_policy", "data_disks_preserve",
          "dod_root_ca", "faillock_safety", "kernel_module_blacklist",
          "package_purge", "rngd_entropy", "skel_init_files",
          "ssh_config_apply", "ssh_keep_open", "time_servers",
          "unattended_updates", "usbguard"}

DependsOn ==
    [r \in Rules |->
        CASE r \in {"admin_user_and_keys", "container_host"} -> {"skel_init_files"}
          [] r = "ssh_config_apply" ->
                {"admin_user_and_keys", "ssh_keep_open", "crypto_policy"}
          [] OTHER -> {}]

-----------------------------------------------------------------------------
(* HostConfig.kernel_fips: derived from the policy, never configured.      *)
KernelFips(c) == c.policy = "STIG"

(***************************************************************************)
(* One rule object: whether it applies, its tailoring ops, the failures    *)
(* its exception entry declares and the STIG rules it answers for.         *)
(***************************************************************************)
Op(action, id, value) == [action |-> action, rule_id |-> id, value |-> value]
Select(id)            == Op("select", id, "")
Disable(id)           == Op("disable", id, "")
SetValue(id, value)   == Op("set_value", id, value)
DisableAll(ids)       == {Disable(x) : x \in ids}

RuleObject(applies, ops, waives, affected) ==
    [applies |-> applies, ops |-> ops, waives |-> waives, affected |-> affected]

Plain(applies) == RuleObject(applies, {}, {}, {})

-----------------------------------------------------------------------------
(***************************************************************************)
(* crypto_policy: off STIG every FIPS-only rule is disabled, whichever SSG *)
(* release selects it.                                                     *)
(***************************************************************************)
FipsOnlyCommon == {"fips_common"}

TailoredWhenNotStig(d) ==
    FipsOnlyCommon \cup {IF d = "alma10" THEN "fips_booted" ELSE "fips_dracut"}

PolicyTarget(c) == IF c.policy = "MODERN" THEN "DEFAULT" ELSE "FUTURE"

CryptoPolicyRule(c) ==
    LET tailored == TailoredWhenNotStig(c.distro)
    IN  IF KernelFips(c) THEN RuleObject(TRUE, {}, {}, tailored)
        ELSE RuleObject(TRUE,
                DisableAll(tailored) \cup {SetValue("crypto_policy", PolicyTarget(c))},
                tailored, tailored)

(***************************************************************************)
(* auditd_actions: the SETTINGS table of each distro.  A check either      *)
(* reads the XCCDF Value or accepts fixed choices; alma10 governs nothing. *)
(***************************************************************************)
SystemActions == {"syslog", "single", "halt"}

Setting(rule, accepts, reads) == [rule |-> rule, accepts |-> accepts, reads |-> reads]

Alma8Settings == {Setting("disk_action", SystemActions, TRUE)}
Alma9Settings == {Setting("disk_action", SystemActions, FALSE),
                  Setting("max_log_action", {"rotate", "single"}, FALSE)}

Settings(d) ==
    CASE d = "alma8" -> Alma8Settings [] d = "alma9" -> Alma9Settings [] OTHER -> {}

Chosen(c, s) == IF s.rule = "disk_action" THEN c.disk_action ELSE c.max_log_action

FailsCheck(c, s) == ~s.reads /\ Chosen(c, s) \notin s.accepts

AuditdActionsRule(c) ==
    LET settings == Settings(c.distro)
        failing  == {s \in settings : FailsCheck(c, s)}
        disabled == {s.rule : s \in failing}
    IN  RuleObject(TRUE,
            {SetValue(s.rule, Chosen(c, s)) : s \in settings \ failing} \cup DisableAll(disabled),
            disabled, {s.rule : s \in settings})

(***************************************************************************)
(* time_servers: with NTS off, the distro's NTS rule is tailored out       *)
(* unless the operator already waived it.                                  *)
(***************************************************************************)
NtsRule(d) == IF d = "alma10" THEN {"set_nts"} ELSE {}

TimeServersRule(c) ==
    LET waivedNtsRule == IF c.nts THEN {} ELSE NtsRule(c.distro) \ c.waived
    IN  RuleObject(TRUE, DisableAll(waivedNtsRule), waivedNtsRule,
                   ChronyRules \cup NtsRule(c.distro))

FaillockSafetyRule(c) ==
    LET disabled == IF c.even_deny_root THEN {} ELSE {"deny_root"}
    IN  RuleObject(c.faillock,
            {SetValue("unlock_time", c.unlock_time)} \cup DisableAll(disabled),
            disabled, {"deny_root"})

UsbguardRule(c) ==
    IF c.usbguard THEN RuleObject(TRUE, {Select("usbguard")}, {}, {"usbguard"})
    ELSE RuleObject(TRUE, {Disable("usbguard")}, {"usbguard"}, {"usbguard"})

BannerTextRule == RuleObject(TRUE, {Disable("banner")}, {"banner"}, {"banner"})

SkelInitFilesRule == RuleObject(TRUE, {}, {}, {"init_files"})

(* An operator who excludes rng-tools opts out; alma8 alone ships the rule. *)
RngdEntropyRule(c) ==
    IF c.distro = "alma8" THEN RuleObject("rng-tools" \notin c.excluded, {}, {}, {"rngd"})
    ELSE Plain(FALSE)

RuleOf(c, r) ==
    CASE r = "crypto_policy"        -> CryptoPolicyRule(c)
      [] r = "auditd_actions"       -> AuditdActionsRule(c)
      [] r = "time_servers"         -> TimeServersRule(c)
      [] r = "faillock_safety"      -> FaillockSafetyRule(c)
      [] r = "usbguard"             -> UsbguardRule(c)
      [] r = "banner_text"          -> BannerTextRule
      [] r = "skel_init_files"      -> SkelInitFilesRule
      [] r = "rngd_entropy"         -> RngdEntropyRule(c)
      [] r = "container_host"       -> Plain(c.containers)
      [] r = "data_disks_preserve"  -> Plain(c.preserved)
      [] r = "dod_root_ca"          -> Plain(~c.dod_root_ca)
      [] r = "kernel_module_blacklist" -> Plain(c.blacklist)
      [] r = "package_purge"        -> Plain(c.purge /\ c.excluded # {})
      [] r = "ssh_keep_open"        -> Plain(c.firewalld_port \/ c.selinux_port)
      [] r = "unattended_updates"   -> Plain(c.updates)
      [] OTHER                      -> Plain(TRUE)

Applies(c, r) == RuleOf(c, r).applies

-----------------------------------------------------------------------------
(***************************************************************************)
(* writer: the ops of the applicable rules, then one disable for every     *)
(* rule an operator-declared exception names, so that the exception wins.  *)
(* A tailoring is this sequence of two groups: inside a group no two ops   *)
(* of a kind name one id, so their order is immaterial.                    *)
(***************************************************************************)
Applicable(c) == {o \in {RuleOf(c, r) : r \in Rules} : o.applies}

RuleOps(c)      == UNION {o.ops : o \in Applicable(c)}
ExceptionOps(c) == DisableAll(c.waived)

\* A mutant of Tailoring: the exceptions come first, so a rule's select wins.
TailoringReversed(c) == <<ExceptionOps(c), RuleOps(c)>>

Tailoring(c) == <<RuleOps(c), ExceptionOps(c)>>

(* exceptions_report: what may fail, and what ks-gen promises will pass.   *)
ExpectedFailures(c) == c.waived \cup UNION {o.waives : o \in Applicable(c)}

ManagedRules(c) == UNION {o.affected : o \in Applicable(c)} \ ExpectedFailures(c)

(***************************************************************************)
(* What a tailoring does to a profile: on one id the last op of a kind     *)
(* counts.  `default' holds where no op names the id.                      *)
(***************************************************************************)
IsChoice(op) == op.action \in {"select", "disable"}

ChoiceGroups(ops, id) == {i \in DOMAIN ops : \E o \in ops[i] : IsChoice(o) /\ o.rule_id = id}
ValueGroups(ops, id)  == {i \in DOMAIN ops : \E o \in ops[i] : ~IsChoice(o) /\ o.rule_id = id}

SelectedIn(ops, profile) ==
    {x \in StigRules :
        IF ChoiceGroups(ops, x) = {} THEN x \in profile
        ELSE Select(x) \in ops[Max(ChoiceGroups(ops, x))]}

ValueIn(ops, id, default) ==
    IF ValueGroups(ops, id) = {} THEN default
    ELSE (CHOOSE o \in ops[Max(ValueGroups(ops, id))] : ~IsChoice(o) /\ o.rule_id = id).value

(***************************************************************************)
(* compare_tailorings: ops are keyed by (action, rule_id), and a value is  *)
(* compared where both sides set it.  The profile id never differs here.   *)
(***************************************************************************)
AllOps(ops) == UNION ToSet(ops)
Key(op)     == <<op.action, op.rule_id>>
Keys(ops)   == {Key(o) : o \in AllOps(ops)}

\* A mutant of HasDrift: a key on both sides is never compared further.
HasDriftByKey(expected, deployed) == Keys(expected) # Keys(deployed)

HasDrift(expected, deployed) ==
    \/ Keys(expected) # Keys(deployed)
    \/ \E o \in AllOps(expected), p \in AllOps(deployed) :
          Key(o) = Key(p) /\ o.action = "set_value" /\ o.value # p.value

(* check_exception_ids: an id outside the datastream fails `gen'.          *)
UnknownIds(c, known) == c.waived \ known
=============================================================================
