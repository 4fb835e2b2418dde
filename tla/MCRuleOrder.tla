---------------------------- MODULE MCRuleOrder ------------------------------
(* Small instances of RuleOrder for TLC.                                     *)
EXTENDS RuleOrder, TLC

R(id, deps) == [id |-> id, depends_on |-> deps]

\* Every graph over three rules with up to two dependencies each, one of
\* which may be a rule that no module defines ("x").
Abc   == {"a", "b", "c"}
Deps  == UNION {[1 .. n -> Abc \cup {"x"}] : n \in 0 .. 2}
Once  == {d \in Deps : Len(d) = 2 => d[1] # d[2]}
Small == {<<R("a", p), R("b", q), R("c", r)>> : p \in Deps, q, r \in Once}

\* Two modules that export a rule of the same id.
Twice == {<<R("a", p), R("b", q), R("a", r)>> : p, q, r \in {d \in Deps : Len(d) <= 1}}

\* The catalog that ships, in the order of its file names.
Shipped == <<
    R("admin_user_and_keys", <<"skel_init_files">>), R("auditd_actions", <<>>),
    R("banner_text", <<>>), R("container_host", <<"skel_init_files">>),
    R("crypto_policy", <<>>), R("data_disks_preserve", <<>>), R("dod_root_ca", <<>>),
    R("faillock_safety", <<>>), R("kernel_module_blacklist", <<>>),
    R("package_purge", <<>>), R("rngd_entropy", <<>>), R("skel_init_files", <<>>),
    R("ssh_config_apply", <<"admin_user_and_keys", "ssh_keep_open", "crypto_policy">>),
    R("ssh_keep_open", <<>>), R("time_servers", <<>>), R("unattended_updates", <<>>),
    R("usbguard", <<>>) >>

\* load_rules finds no package for the distro
MCCatalogs == Small \cup Twice \cup {Shipped, <<>>, <<R("a", <<>>), NoRule, R("b", <<>>)>>}
MCName     == Abc \cup {"x"} \cup {Shipped[i].id : i \in DOMAIN Shipped}
==============================================================================
