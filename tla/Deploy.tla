------------------------------- MODULE Deploy -------------------------------
(***************************************************************************)
(* One host from host.yaml to its first scan: `ks-gen gen' writes the      *)
(* bundle file by file, the kickstart's %post sections fetch the tailoring,*)
(* remediate with oscap, run the rules' blocks in their order and clear    *)
(* account ageing, the host boots, and `verify' judges it by the host.yaml *)
(* of the bundle.  A bundle file is the configuration it was rendered from *)
(* and a host keeps the settings the STIG checks and a login depend on.    *)
(*                                                                         *)
(* cli.py (gen), writer.py, templates/ks.cfg.j2, rules/alma9/*.py (post),  *)
(*   verify/reconcile.py                                                   *)
(***************************************************************************)
EXTENDS Policy

CONSTANTS
    Scenarios,      \* [cfg, old, fault, order]: what is generated over what,
                    \*   the one fault of the run, and the order of the rules
    Edits(_)        \* configurations an operator may turn one into, later

R == INSTANCE Reconcile WITH Rule <- StigRules

Faults == {"none", "gen", "lists", "fetch", "mismatch", "user", "oscap",
           "boot_uuid", "grubby", "mount", "skel"}

(* What RuleOrder's theorem OrderRespectsDependencies gives topo_sort.     *)
IsOrder(s) ==
    /\ s \in Seq(Rules) /\ ToSet(s) = Rules /\ Len(s) = Cardinality(Rules)
    /\ \A i, j \in DOMAIN s : s[j] \in DependsOn[s[i]] => j < i

(* The distro of a configuration that was loaded is a supported one.      *)
ASSUME ScenarioAssumption ==
    \A s \in Scenarios :
        s.fault \in Faults /\ IsOrder(s.order) /\ s.cfg.distro \in Distros

VARIABLES
    run,            \* the scenario
    dir,            \* the bundle directory: file -> configuration
    todo,           \* write_bundle's files still to write
    phase,
    blocks,         \* rule blocks of %post still to run
    host,
    baseline,       \* the ARF of the install-time oscap run
    verdict         \* verify's report and drift flag

vars == <<run, dir, todo, phase, blocks, host, baseline, verdict>>

NoConfig  == [distro |-> "none"]
NoVerdict == [rows |-> R!NoScan, drift |-> FALSE]
Files     == {"tailoring.xml", "host.yaml", "exceptions.md", "ks.cfg"}
Ks        == dir["ks.cfg"]

-----------------------------------------------------------------------------
(***************************************************************************)
(* The SSG content, external (docs/audit-story): what the stig profile of  *)
(* the oldest supported media ("floor") and of the pinned release ("pin")  *)
(* selects and refines, and what each check looks at.                      *)
(***************************************************************************)
Profile(d, content) ==
    ChronyRules \cup {"fips_common", "crypto_policy", "deny_root", "unlock_time",
                      "usbguard", "banner", "init_files", "aide"}
      \cup (IF d = "alma10" THEN {} ELSE {"disk_action", "rngd"})
      \cup (IF d = "alma9" THEN {"max_log_action"} ELSE {})
      \cup (IF content = "pin" THEN {}
            ELSE IF d = "alma10" THEN {"fips_booted", "set_nts"} ELSE {"fips_dracut"})

KnownIds(d) == Profile(d, "floor") \cup Profile(d, "pin")

FipsPolicies == {"FIPS", "FIPS:STIG"}

RefinedValue(d, content, x) ==
    CASE x = "crypto_policy" ->
            IF content = "pin" /\ d # "alma10" THEN "FIPS:STIG" ELSE "FIPS"
      [] x = "unlock_time"   -> "0"
      [] OTHER               -> "syslog"

Wanted(h, x) == ValueIn(h.tailoring, x, RefinedValue(h.distro, h.content, x))

Satisfies(h, x) ==
    CASE x \in {"fips_common", "fips_booted"} -> h.fips_kernel
      [] x = "fips_dracut"    -> h.dracut_fips
      [] x = "crypto_policy"  -> h.crypto = Wanted(h, x)
      [] x = "deny_root"      -> h.even_deny_root
      [] x = "unlock_time"    -> h.unlock_time = Wanted(h, x)
      [] x \in {"disk_action", "max_log_action"} ->
            \E s \in Settings(h.distro) :
                /\ s.rule = x
                /\ IF s.reads THEN h[x] = Wanted(h, x) ELSE h[x] \in s.accepts
      [] x \in ChronyRules \cup {"set_nts"} -> x \in h.chrony
      [] x = "usbguard"       -> h.usbguard
      [] x = "banner"         -> h.banner = "dod"
      [] x = "init_files"     -> h.loose = {}
      [] OTHER                -> FALSE       \* aide: nobody repairs it

Result(h, x) ==
    IF x = "rngd" THEN "notapplicable"       \* a RHEL-only platform (#118)
    ELSE IF Satisfies(h, x) THEN "pass" ELSE "fail"

SelectedOn(h) == SelectedIn(h.tailoring, Profile(h.distro, h.content))

Scan(h) == [x \in SelectedOn(h) |-> Result(h, x)]

(* oscap xccdf eval --remediate: the fix of every selected rule.  The fix  *)
(* of a FIPS-only sub-policy rule may re-point the crypto policy, and the  *)
(* profile's password ageing defaults reach every account made later.      *)
Fixed(h, subPolicy) ==
    LET selected     == SelectedOn(h)
        On(x)        == x \in selected
        Fix(x, old)  == IF On(x) THEN Wanted(h, x) ELSE old
    IN  [h EXCEPT
            !.crypto         = IF subPolicy THEN "FIPS:STIG" ELSE Fix("crypto_policy", @),
            !.even_deny_root = @ \/ On("deny_root"),
            !.unlock_time    = Fix("unlock_time", @),
            !.disk_action    = Fix("disk_action", @),
            !.max_log_action = Fix("max_log_action", @),
            !.chrony         = @ \cup (selected \cap (ChronyRules \cup {"set_nts"})),
            !.usbguard       = @ \/ On("usbguard"),
            !.banner         = IF On("banner") THEN "dod" ELSE @,
            !.loose          = IF On("init_files") THEN {} ELSE @,
            !.ageing         = TRUE,
            !.scanned        = h.content,
            !.strong_rng     = h.distro = "alma8"]

-----------------------------------------------------------------------------
(***************************************************************************)
(* ks-gen gen: check_exception_ids, then write_bundle's four writes.       *)
(***************************************************************************)
FreshHost(c, admin) ==
    [distro |-> c.distro, tailoring |-> <<>>, content |-> "floor", scanned |-> "none",
     pkgs |-> ({"dnf-automatic", "policycoreutils"} \cup
                 (IF Applies(c, "rngd_entropy") THEN {"rng-tools"} ELSE {})) \ c.excluded,
     users |-> IF admin THEN {"admin"} ELSE {}, loose |-> IF admin THEN {"admin"} ELSE {},
     expiring |-> {}, ageing |-> FALSE, keys |-> FALSE, skel_tight |-> FALSE,
     kargs |-> IF KernelFips(c) THEN {"fips"} ELSE {}, dracut_fips |-> FALSE,
     fips_kernel |-> FALSE, crypto |-> "DEFAULT", host_keys |-> FALSE,
     sshd_port |-> 22, open |-> {22}, labelled |-> {22}, rngd |-> FALSE,
     strong_rng |-> FALSE, even_deny_root |-> FALSE, unlock_time |-> "unset",
     disk_action |-> "unset", max_log_action |-> "unset", chrony |-> {},
     banner |-> "none", usbguard |-> FALSE]

Init ==
    /\ run \in Scenarios
    /\ dir = [f \in Files |-> run.old]
    /\ todo = <<"tailoring.xml", "host.yaml", "exceptions.md", "ks.cfg">>
    /\ phase = "gen" /\ blocks = {}
    /\ host = FreshHost(run.cfg, TRUE)
    /\ baseline = R!NoScan /\ verdict = NoVerdict

KnownTo(s) == IF s.fault = "lists" THEN {} ELSE KnownIds(s.cfg.distro)

GenRefuses ==
    /\ phase = "gen"
    /\ UnknownIds(run.cfg, KnownTo(run)) # {}
    /\ phase' = "refused"
    /\ UNCHANGED <<run, dir, todo, blocks, host, baseline, verdict>>

GenAccepts ==
    /\ phase = "gen"
    /\ UnknownIds(run.cfg, KnownTo(run)) = {}
    /\ phase' = "write"
    /\ UNCHANGED <<run, dir, todo, blocks, host, baseline, verdict>>

\* A mutant of WriteFile: the kickstart is written first.
WriteFileBackwards ==
    /\ phase = "write" /\ todo # <<>>
    /\ dir' = [dir EXCEPT ![Last(todo)] = run.cfg]
    /\ todo' = Front(todo)
    /\ UNCHANGED <<run, phase, blocks, host, baseline, verdict>>

WriteFile ==
    /\ phase = "write" /\ todo # <<>>
    /\ dir' = [dir EXCEPT ![Head(todo)] = run.cfg]
    /\ todo' = Tail(todo)
    /\ UNCHANGED <<run, phase, blocks, host, baseline, verdict>>

(* Anaconda starts from the bundle; the old one may be only half replaced. *)
Install ==
    /\ phase = "write"
    /\ todo = <<>> \/ (run.fault = "gen" /\ run.old # NoConfig)
    /\ phase' = "fetch"
    /\ host' = FreshHost(Ks, run.fault # "user")
    /\ UNCHANGED <<run, dir, todo, blocks, baseline, verdict>>

-----------------------------------------------------------------------------
(***************************************************************************)
(* ks.cfg's %post sections before the rules' own.                          *)
(***************************************************************************)
Abort == /\ phase' = "aborted"
         /\ UNCHANGED <<run, dir, todo, blocks, host, baseline, verdict>>

FetchTailoring ==
    /\ phase = "fetch"
    /\ IF run.fault = "fetch" THEN Abort
       ELSE /\ host' = [host EXCEPT !.tailoring = Tailoring(dir["tailoring.xml"])]
            /\ phase' = "upgrade"
            /\ UNCHANGED <<run, dir, todo, blocks, baseline, verdict>>

(* Best effort: an offline install keeps the media's content.              *)
UpgradeContent ==
    /\ phase = "upgrade"
    /\ \E content \in {"floor", "pin"} : host' = [host EXCEPT !.content = content]
    /\ phase' = "oscap"
    /\ UNCHANGED <<run, dir, todo, blocks, baseline, verdict>>

ShippedBlocks == {r \in Rules : Applies(Ks, r)}

Remediate ==
    /\ phase = "oscap"
    /\ IF run.fault = "mismatch" THEN Abort     \* the TAILORED_PROFILE_ID guard
       ELSE /\ IF run.fault = "oscap"           \* `|| true'
               THEN UNCHANGED <<host, baseline>>
               ELSE \E subPolicy \in (IF host.content = "pin" /\ host.distro # "alma10"
                                      THEN BOOLEAN ELSE {FALSE}) :
                       /\ host' = Fixed(host, subPolicy)
                       /\ baseline' = Scan(host')
            /\ phase' = "post"
            /\ blocks' = ShippedBlocks
            /\ UNCHANGED <<run, dir, todo, verdict>>

-----------------------------------------------------------------------------
(***************************************************************************)
(* The rules' %post blocks (emit_post), one action each, in the order of   *)
(* the rules.                                                              *)
(***************************************************************************)
Current == run.order[Min({i \in DOMAIN run.order : run.order[i] \in blocks})]

Turn(r) == phase = "post" /\ blocks # {} /\ Current = r

Sets(h) == /\ host' = h
           /\ blocks' = blocks \ {Current}
           /\ UNCHANGED <<run, dir, todo, phase, baseline, verdict>>

PostSkelInitFiles ==
    /\ Turn("skel_init_files")
    /\ Sets([host EXCEPT !.skel_tight = run.fault # "skel"])

\* The account, if anaconda's `user' line did not make it, is made by useradd.
PostAdminUserAndKeys ==
    /\ Turn("admin_user_and_keys")
    /\ LET made == {"admin"} \ host.users
       IN  Sets([host EXCEPT
                    !.users    = @ \cup made,
                    !.loose    = @ \cup (IF host.skel_tight THEN {} ELSE made),
                    !.expiring = @ \cup (IF host.ageing /\ Ks.key_only THEN made ELSE {}),
                    !.keys     = TRUE])

PostAuditdActions ==
    /\ Turn("auditd_actions")
    /\ Sets([host EXCEPT !.disk_action = Ks.disk_action,
                         !.max_log_action = Ks.max_log_action])

PostBannerText ==
    /\ Turn("banner_text")
    /\ Sets([host EXCEPT !.banner = "civil"])

\* create-rootless-user.sh (RootlessUser) tightens and un-ages its accounts.
PostContainerHost ==
    /\ Turn("container_host")
    /\ IF "policycoreutils" \in host.pkgs
       THEN Sets([host EXCEPT !.users = @ \cup {"svc"}]) ELSE Abort

FipsBootReady == KernelFips(Ks) => run.fault \notin {"boot_uuid", "grubby"}

\* A mutant of FipsPolicyHeld: the policy oscap left is not looked at.
FipsPolicyUnseen == TRUE

FipsPolicyHeld == KernelFips(Ks) => host.crypto \in FipsPolicies

PostCryptoPolicy ==
    /\ Turn("crypto_policy")
    /\ IF FipsBootReady /\ FipsPolicyHeld
       THEN Sets([host EXCEPT
                    !.dracut_fips = @ \/ KernelFips(Ks),
                    !.kargs       = @ \cup (IF KernelFips(Ks) THEN {"fips", "boot"} ELSE {}),
                    !.crypto      = IF KernelFips(Ks) THEN @ ELSE PolicyTarget(Ks),
                    !.host_keys   = TRUE])
       ELSE Abort

PostDataDisksPreserve ==
    /\ Turn("data_disks_preserve")
    /\ IF run.fault = "mount" THEN Abort ELSE Sets(host)

PostFaillockSafety ==
    /\ Turn("faillock_safety")
    /\ Sets([host EXCEPT !.unlock_time = Ks.unlock_time, !.even_deny_root = FALSE])

PostPackagePurge ==
    /\ Turn("package_purge")
    /\ Sets([host EXCEPT !.pkgs = @ \ Ks.excluded])

PostRngdEntropy ==
    /\ Turn("rngd_entropy")
    /\ IF "rng-tools" \in host.pkgs THEN Sets([host EXCEPT !.rngd = TRUE]) ELSE Abort

Labels(c) == c.selinux_port /\ c.port # 22

PostSshKeepOpen ==
    /\ Turn("ssh_keep_open")
    /\ IF Labels(Ks) /\ "policycoreutils" \notin host.pkgs THEN Abort    \* semanage
       ELSE Sets([host EXCEPT
                    !.labelled = @ \cup (IF Labels(Ks) THEN {Ks.port} ELSE {}),
                    !.open     = @ \cup (IF Ks.firewalld_port THEN {Ks.port} ELSE {})])

PostSshConfigApply ==
    /\ Turn("ssh_config_apply")
    /\ IF host.host_keys THEN Sets([host EXCEPT !.sshd_port = Ks.port])
       ELSE Abort                                                         \* sshd -t

\* A mutant of ChronyDirectives: the file is written without STIG directives.
BareDirectives(c) == {"server_directive"} \cup (IF c.nts THEN {"set_nts"} ELSE {})

ChronyDirectives(c) ==
    {"server_directive"} \cup (IF c.nts THEN {"set_nts"} ELSE {})
        \cup ({"maxpoll", "client_only", "no_cmdport"} \ c.waived)

PostTimeServers ==
    /\ Turn("time_servers")
    /\ Sets([host EXCEPT !.chrony = ChronyDirectives(Ks)])

PostUnattendedUpdates ==
    /\ Turn("unattended_updates")
    /\ IF "dnf-automatic" \in host.pkgs THEN Sets(host) ELSE Abort        \* systemctl enable

(* These write nothing a check here or a login depends on.                 *)
PostOther ==
    /\ \E r \in {"dod_root_ca", "kernel_module_blacklist", "usbguard"} : Turn(r)
    /\ Sets(host)

-----------------------------------------------------------------------------
(* custom_post is the operator's; then the ageing %post and the reboot.    *)

\* A mutant of ClearAgeing: accounts made by the rules' %post are not covered.
ClearAgeingTooEarly ==
    /\ phase = "post" /\ blocks = {}
    /\ phase' = "reboot"
    /\ UNCHANGED <<run, dir, todo, blocks, host, baseline, verdict>>

ClearAgeing ==
    /\ phase = "post" /\ blocks = {}
    /\ host' = [host EXCEPT !.expiring = {}]
    /\ phase' = "reboot"
    /\ UNCHANGED <<run, dir, todo, blocks, baseline, verdict>>

(* fips=1 without boot=UUID= drops to the dracut emergency shell.          *)
Boot ==
    /\ phase = "reboot"
    /\ phase' = IF host.kargs = {"fips"} THEN "stuck" ELSE "up"
    /\ host' = [host EXCEPT !.fips_kernel = "fips" \in host.kargs]
    /\ UNCHANGED <<run, dir, todo, blocks, baseline, verdict>>

(* The host's own timer upgrades the SSG content after the install.        *)
TimerUpgrade ==
    /\ phase = "up" /\ host.content = "floor"
    /\ host' = [host EXCEPT !.content = "pin"]
    /\ UNCHANGED <<run, dir, todo, phase, blocks, baseline, verdict>>

(* The operator edits host.yaml and does not redeploy.                     *)
Edit ==
    /\ phase = "up" /\ dir["host.yaml"] = run.cfg
    /\ \E c \in Edits(run.cfg) : dir' = [dir EXCEPT !["host.yaml"] = c]
    /\ UNCHANGED <<run, todo, phase, blocks, host, baseline, verdict>>

(* verify: the scan on the host against host.yaml of the bundle.           *)
Verify ==
    /\ phase = "up"
    /\ phase' = "verified"
    /\ verdict' = [rows  |-> R!BuildReport(Scan(host), baseline,
                                           ExpectedFailures(dir["host.yaml"])),
                   drift |-> HasDrift(Tailoring(dir["host.yaml"]), host.tailoring)]
    /\ UNCHANGED <<run, dir, todo, blocks, host, baseline>>

Next ==
    \/ GenRefuses \/ GenAccepts \/ WriteFile \/ Install
    \/ FetchTailoring \/ UpgradeContent \/ Remediate
    \/ PostSkelInitFiles \/ PostAdminUserAndKeys \/ PostAuditdActions
    \/ PostBannerText \/ PostContainerHost \/ PostCryptoPolicy
    \/ PostDataDisksPreserve \/ PostFaillockSafety \/ PostPackagePurge
    \/ PostRngdEntropy \/ PostSshKeepOpen \/ PostSshConfigApply
    \/ PostTimeServers \/ PostUnattendedUpdates \/ PostOther
    \/ ClearAgeing \/ Boot \/ TimerUpgrade \/ Edit \/ Verify

Spec == Init /\ [][Next]_vars

-----------------------------------------------------------------------------
(***************************************************************************)
(* The state has the shape the actions expect: the files go out in         *)
(* write_bundle's order, blocks are left only in %post, and nothing but a  *)
(* finished install has booted (writer.py, ks.cfg.j2, --erroronfail).      *)
(***************************************************************************)
TypeOK ==
    /\ run.fault \in Faults /\ ToSet(run.order) = Rules
    /\ phase \in {"gen", "refused", "write", "fetch", "upgrade", "oscap", "post",
                  "reboot", "up", "stuck", "aborted", "verified"}
    /\ IsSuffix(todo, <<"tailoring.xml", "host.yaml", "exceptions.md", "ks.cfg">>)
    /\ blocks \subseteq Rules /\ (blocks # {} => phase \in {"post", "aborted"})
    /\ DOMAIN dir = Files
    /\ DOMAIN baseline \subseteq StigRules /\ DOMAIN verdict.rows \subseteq StigRules
    /\ host.expiring \cup host.loose \subseteq host.users
    /\ host.users \subseteq {"admin", "svc"}
    /\ host.fips_kernel => phase \in {"up", "verified", "stuck"}

(***************************************************************************)
(* The promise of managed_rule_ids (exceptions_report.py): a host that was *)
(* installed from one bundle, remediated, and scanned with the content it  *)
(* was remediated with passes every rule ks-gen claims to enforce, and no  *)
(* rule at all regresses from its install-time result (#50, #87).  The     *)
(* even_deny_root switch is the exception: see EnforcedRulesPass.          *)
(***************************************************************************)
Remediated == /\ phase = "verified"
              /\ run.fault # "gen"
              /\ host.scanned = host.content
              /\ dir["host.yaml"] = run.cfg

NoFailing(rows, rules) ==
    \A x \in rules \cap DOMAIN rows : rows[x].category \notin R!FailingCategory

PromiseKept ==
    Remediated /\ ~(Ks.faillock /\ Ks.even_deny_root) =>
        /\ NoFailing(verdict.rows, ManagedRules(Ks))
        /\ \A x \in DOMAIN verdict.rows : verdict.rows[x].category # "regression"

(***************************************************************************)
(* The same promise for every configuration the schema accepts, as         *)
(* managed_rule_ids' docstring states it.                                  *)
(***************************************************************************)
EnforcedRulesPass == Remediated => NoFailing(verdict.rows, ManagedRules(Ks))

(***************************************************************************)
(* What exceptions.md and verify declare as an expected failure is what    *)
(* the installed tailoring deselects, no more and no less: a waiver that   *)
(* changes nothing, or a silent one, never reaches a host ("must mirror",  *)
(* exceptions_report.py; #69).                                             *)
(***************************************************************************)
WaiversAreReal ==
    phase \in {"up", "verified"} /\ dir["host.yaml"] = run.cfg /\ run.fault # "gen" =>
        LET known == KnownIds(host.distro) \cup TailoredWhenNotStig(host.distro)
        IN  ExpectedFailures(Ks) = known \ SelectedIn(host.tailoring, known)

(***************************************************************************)
(* If host.yaml asks for other rules or values than the host was installed *)
(* with, because it was edited or because gen was cut short, verify says   *)
(* so (compare_tailorings).                                                *)
(***************************************************************************)
Effect(ops) == <<SelectedIn(ops, StigRules), SelectedIn(ops, {}),
                 [x \in StigRules |-> ValueIn(ops, x, "")]>>

DriftIsSeen ==
    phase = "verified"
      /\ Effect(Tailoring(dir["host.yaml"])) # Effect(host.tailoring) => verdict.drift

(***************************************************************************)
(* No install locks its operator out: a run without a fault ends in a      *)
(* booted host, unless the configuration removes a package a block needs   *)
(* or waives the FIPS policy it insists on; and on every booted host the   *)
(* admin has a key, sshd answers on a port that is open and labelled, and  *)
(* no account is about to expire (#72, #84, #118, #139).                   *)
(***************************************************************************)
SelfDefeating(c) ==
    \/ "dnf-automatic" \in c.excluded /\ c.updates
    \/ "policycoreutils" \in c.excluded /\ (c.containers \/ Labels(c))
    \/ "crypto_policy" \in c.waived /\ KernelFips(c)

Opened(c) == /\ c.firewalld_port \/ c.port = 22 => host.sshd_port \in host.open
             /\ c.selinux_port \/ c.port = 22 => host.sshd_port \in host.labelled

Reachable ==
    /\ phase # "stuck"
    /\ phase = "aborted" => run.fault \notin {"none", "skel", "user"} \/ SelfDefeating(Ks)
    /\ phase \in {"up", "verified"} =>
          /\ "admin" \in host.users /\ host.keys /\ host.expiring = {}
          /\ host.sshd_port = Ks.port /\ Opened(Ks)
          /\ host.strong_rng => host.rngd \/ "rng-tools" \in Ks.excluded

(***************************************************************************)
(* A STIG host that boots has kernel FIPS and a FIPS policy, whatever went *)
(* wrong on the way: oscap's failure is swallowed, and a kickstart may be  *)
(* installed with the tailoring of another configuration (#66, #84, #90).  *)
(***************************************************************************)
FailClosed ==
    phase \in {"up", "verified"} /\ KernelFips(Ks) =>
        /\ host.fips_kernel /\ "boot" \in host.kargs
        /\ host.crypto \in FipsPolicies
=============================================================================
