----------------------------- MODULE MCHostYaml -----------------------------
(* A plain host, one with each optional part, and bundles of releases that *)
(* wrote the derived FIPS mode and the ufw port back.                      *)
EXTENDS HostYaml

Disk(target, mount, wipe, ids) ==
    [target |-> target, mount |-> mount, wipe |-> wipe, ids |-> ids]

Lv(name, mount, fstype, sized, encrypted) ==
    [name |-> name, mount |-> mount, fstype |-> fstype, sized |-> sized,
     encrypted |-> encrypted]

Swap   == Lv("swap", Null, "swap", FALSE, FALSE)
Root   == Lv("root", "/", "xfs", FALSE, FALSE)
Var    == Lv("var", "/var", "xfs", FALSE, FALSE)
Layout == <<Root, Var, Swap>>

Luks(preset, pass, in_file, servers, threshold) ==
    [preset |-> preset, passphrase |-> pass, file |-> in_file,
     tang |-> [servers |-> servers, threshold |-> threshold]]

Containers(enabled, name, keys, noexec) ==
    [enabled |-> enabled, users |-> <<[name |-> name, keys |-> keys]>>, noexec |-> noexec]

Base == [Blank EXCEPT !.keys = {"ed25519", "rsa"}, !.sudo = "nopasswd_yes"]

AllDocuments ==
    {Base,
     [Base EXCEPT !.packages = "lean"],
     [Base EXCEPT !.policy = "STIG", !.fips_mode = "yes", !.ufw_port = "yes"],
     [Base EXCEPT !.policy = "STIG", !.fips_mode = "no"],
     [Base EXCEPT !.distro = "alma10", !.source = "network"],
     [Base EXCEPT !.distro = "ubuntu2404"],
     [Base EXCEPT !.layout = Layout, !.luks = Luks("tang", TRUE, FALSE, 2, 1)],
     [Base EXCEPT !.target = "sda", !.data_disks = <<Disk("by-id", "/data", FALSE, {})>>],
     [Base EXCEPT !.containers = Containers(TRUE, "svc", {"ed25519"}, FALSE)],
     [Base EXCEPT !.password = TRUE, !.keys = {}, !.password_auth = TRUE,
                  !.luks = Luks("partial", FALSE, TRUE, 0, 1)]}

AllValues(f) ==
    CASE f = "distro"     -> Distros \cup RemovedDistros
      [] f = "scap"       -> {Null, "unset", "alma9", "alma10"}
      [] f = "source"     -> {"media", "network"}
      [] f \in {"baseos", "appstream"} -> {"alma9", "alma10", "own"}
      [] f = "policy"     -> {"STIG", "MODERN"}
      [] f = "fips_mode"  -> {"yes", "no"}
      [] f = "ufw_port"   -> {"yes"}
      [] f = "admin"      -> {"root", "svc"}
      [] f = "keys"       -> {{}, {"ed25519"}}
      [] f \in {"password", "password_auth", "console_login_only", "nts", "waived_nts"} ->
            BOOLEAN
      [] f = "sudo"       -> {"nopasswd_no", "nopasswd_yes"}
      [] f = "preset"     -> {"stig_server", "minimal", "custom"}
      [] f = "layout"     ->
            {Layout, <<Root, Swap>>, <<Root, Var>>, Append(Layout, Var),
             Append(Layout, Lv("var", "/opt", "xfs", TRUE, FALSE)),
             Append(Layout, Lv("opt", "/opt", "xfs", FALSE, FALSE)),
             Append(Layout, Lv("opt", "/opt", "xfs", TRUE, TRUE)),
             Append(Layout, Lv("swap2", "/opt", "swap", TRUE, FALSE)),
             Append(Layout, Lv("srv", "/srv/containers", "xfs", TRUE, FALSE))}
      [] f = "luks"       ->
            {Luks("partial", TRUE, FALSE, 0, 1), Luks("partial", TRUE, TRUE, 0, 1),
             Luks("none", TRUE, FALSE, 0, 1), Luks("tang", TRUE, FALSE, 0, 1),
             Luks("tang", TRUE, FALSE, 1, 2), Luks("partial", TRUE, FALSE, 1, 1)}
      [] f = "target"     -> {Null, "sda", "by-id"}
      [] f = "data_disks" ->
            {<<Disk("sdb", "/data", TRUE, {})>>, <<Disk("sdb", "/var", TRUE, {})>>,
             <<Disk("sdb", "/srv/containers", TRUE, {})>>,
             <<Disk("sdb", "/data", FALSE, {})>>, <<Disk("sdb", "/data", FALSE, {"label"})>>,
             <<Disk("by-id", "/data", FALSE, {"uuid", "label"})>>,
             <<Disk("sdb", "/data", TRUE, {}), Disk("sdb", "/more", TRUE, {})>>}
      [] f = "containers" ->
            {Containers(TRUE, "svc", {"rsa"}, FALSE), Containers(TRUE, "svc", {"rsa"}, TRUE),
             Containers(TRUE, "opsadmin", {"rsa"}, FALSE)}
      [] f = "servers"    -> {"own"}
      [] f = "packages"   -> {"standard", "lean"}
      [] f \in {"at_standard", "lean_required"} -> {"no"}
      [] f = "updates"    ->
            {[enable |-> TRUE, nightly |-> FALSE, monthly |-> FALSE, reboot |-> r] : r \in BOOLEAN}
      [] OTHER            -> {[bootproto |-> "static", address |-> a] : a \in BOOLEAN}

GeneratedBase == {Dump(Config(Base))}

AllDisks == {Disk("sdb", "/data", TRUE, {}), Disk("by-id", "/data", FALSE, {"partition"}),
             Disk("sdb", "/var", FALSE, {"label"})}
=============================================================================
