------------------------------ MODULE MCDeploy ------------------------------
(* The default configuration of every distro and everything up to two      *)
(* settings away from it, without a fault; and everything one setting away *)
(* with every fault, and with the rules in another order they allow.       *)
EXTENDS Deploy

Base(d) ==
    [distro |-> d, policy |-> "MODERN", faillock |-> TRUE, even_deny_root |-> FALSE,
     unlock_time |-> "900", disk_action |-> "suspend", max_log_action |-> "rotate",
     usbguard |-> FALSE, nts |-> FALSE, waived |-> {}, excluded |-> {}, port |-> 22,
     firewalld_port |-> TRUE, selinux_port |-> TRUE, key_only |-> TRUE,
     preserved |-> FALSE, containers |-> FALSE, updates |-> TRUE, purge |-> TRUE,
     blacklist |-> TRUE, dod_root_ca |-> FALSE]

Singles(c) == UNION
    {{[c EXCEPT !.policy = v] : v \in Policies},
     {[c EXCEPT !.faillock = ~@]}, {[c EXCEPT !.even_deny_root = ~@]},
     {[c EXCEPT !.unlock_time = "0"]}, {[c EXCEPT !.disk_action = "halt"]},
     {[c EXCEPT !.max_log_action = "keep_logs"]}, {[c EXCEPT !.usbguard = ~@]},
     {[c EXCEPT !.nts = ~@]}, {[c EXCEPT !.port = 2222]},
     {[c EXCEPT !.waived = @ \cup {v}] :
        v \in {"deny_root", "usbguard", "maxpoll", "aide", "crypto_policy", "typo"}},
     {[c EXCEPT !.waived = @ \cup {"set_nts"}] : d \in {c.distro} \cap {"alma10"}},
     {[c EXCEPT !.excluded = @ \cup {v}] :
        v \in {"rng-tools", "dnf-automatic", "policycoreutils"}},
     {[c EXCEPT !.firewalld_port = ~@]}, {[c EXCEPT !.selinux_port = ~@]},
     {[c EXCEPT !.key_only = ~@]}, {[c EXCEPT !.preserved = ~@]},
     {[c EXCEPT !.containers = ~@]}, {[c EXCEPT !.updates = ~@]},
     {[c EXCEPT !.purge = ~@]}, {[c EXCEPT !.blacklist = ~@]},
     {[c EXCEPT !.dod_root_ca = ~@]}}

(* What HostConfig's own validators refuse.                                *)
Valid(c) == c.nts => c.policy # "STIG" /\ "set_nts" \notin c.waived

Near(d)  == {c \in Singles(Base(d)) : Valid(c)}
Pairs(d) == {c \in UNION {Singles(x) : x \in Near(d)} : Valid(c)}

Shipped == <<"skel_init_files", "admin_user_and_keys", "auditd_actions", "banner_text",
    "container_host", "crypto_policy", "data_disks_preserve", "dod_root_ca",
    "faillock_safety", "kernel_module_blacklist", "package_purge", "rngd_entropy",
    "ssh_keep_open", "ssh_config_apply", "time_servers", "unattended_updates", "usbguard">>

Latest == <<"usbguard", "unattended_updates", "time_servers", "ssh_keep_open",
    "crypto_policy", "skel_init_files", "admin_user_and_keys", "ssh_config_apply",
    "rngd_entropy", "package_purge", "kernel_module_blacklist", "faillock_safety",
    "dod_root_ca", "data_disks_preserve", "container_host", "banner_text", "auditd_actions">>

Scenario(c, old, fault, order) == [cfg |-> c, old |-> old, fault |-> fault, order |-> order]

AllScenarios ==
    UNION {{Scenario(c, NoConfig, "none", Shipped) : c \in Pairs(d)}
      \cup {Scenario(c, Base(d), f, Shipped) : c \in Near(d), f \in Faults}
      \cup {Scenario([Base(d) EXCEPT !.policy = "MODERN"], c, "gen", Shipped) : c \in Near(d)}
      \cup {Scenario(c, NoConfig, f, Latest) : c \in Near(d), f \in {"none", "user"}}
        : d \in Distros}

DenyRoot == {Scenario([Base(d) EXCEPT !.even_deny_root = TRUE], NoConfig, "none", Shipped)
               : d \in Distros}

NoEdits(c) == {}

(* Edits of a setting that the tailoring depends on.                       *)
AllEdits(c) ==
    {x \in {[c EXCEPT !.policy = v] : v \in Policies}
           \cup {[c EXCEPT !.even_deny_root = ~@], [c EXCEPT !.unlock_time = "0"],
                 [c EXCEPT !.disk_action = "halt"], [c EXCEPT !.usbguard = ~@],
                 [c EXCEPT !.waived = {"usbguard"}]} : Valid(x) /\ x # c}
=============================================================================
