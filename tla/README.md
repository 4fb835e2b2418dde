# A TLA+ model of ks-gen

`ks-gen` turns one `host.yaml` into an AlmaLinux kickstart hardened after the DISA STIG
and, later, checks the installed host against the same file.  Three things make that
hard.  A configuration is rewritten in place by the program that reads it, over and
over.  What is generated runs elsewhere, in stages that undo or presuppose each other:
oscap's remediation, the rules' shell blocks, the first boot.  And `verify` drives a
scan over a connection that may stall or break, on a host that other runs use too, runs
many of them in a thread pool, and can write what it found back into `host.yaml`.  These
modules model all three, and the other state that outlives a command: the run history,
the ISO files that `ks-gen iso` repacks, and the accounts that a shell script shipped
with the package provisions.

Source paths below are relative to the package, `src/src/ks_gen/` in the repository
tree; `map` in `PROJECT.json` gives the lines of every definition.

## 1. Inventory

| Part | Source | State it keeps | Operations | What makes it correct |
|---|---|---|---|---|
| Scan results and report | `verify/arf.py`, `verify/reconcile.py` | none | `parse_arf`, `categorize`, `build_report`, `is_clean` | a failing rule is never "clean", a waived one never "failing" |
| Single verify run | `verify/__init__.py`, `remote.py`, `baseline.py` | a work directory; on the host one scratch ARF, `/tmp/ksgen-verify-current.arf.xml` (`remote.py:20`) | `run_verify`, `collect_arfs`, `collect_deployed_tailoring`, `collect_ssg_version` | a report is of this host and of this run's time, or it is known which other run it came from; a finished scan leaves nothing behind; only a call without a timeout can hold a run up |
| Transports | `verify/ssh.py`, `transport.py`, `auth.py` | none | `preflight`, `run`, `read_root_file` | each failure becomes one exception class with its exit code |
| Fleet verify | `verify/fleet.py`, `cli.py` | queue, workers, `results` dict | `parse_hosts_file`, `run_fleet`, `verify_one`, `aggregate_exit_code` | every host judged once, whatever the others do; one exit code for all |
| Suggest and apply | `verify/suggest.py`, `exceptions_report.py` | `host.yaml`, `.bak`, `.tmp` | `build_suggestions`, `apply_to_host_yaml` | `host.yaml` whole; exceptions only appended, the rest left alone but for what validation spells out; enforced rules never waived |
| History store | `verify/history.py` | `<host>.jsonl` | `write_record`, `read_history`, `streaks`, `delta` | a record per run, in time order; verdicts that match the exit codes |
| Command line | `cli.py`, `loader.py` | none | option checks, `--set`, mode dispatch | exit codes |
| host.yaml schema | `config.py`, `disk_*.py`, `ssh_key_types.py` | none | `HostConfig`'s validators, `dump_host_yaml` | what loads can be installed; what is written back means what it meant |
| Wizard | `wizard/` | the answers so far | one function per group of prompts | only a config that loads is written |
| Rule registry and order | `registry.py`, `topo.py` | recursion stack | `load_rules`, `topo_sort` | dependencies first, cycles and unknown ids reported |
| Tailoring and drift | `tailoring.py`, `writer.py`, `verify/tailoring_drift.py` | the bundle directory | `render_tailoring`, `write_bundle`, `compare_tailorings` | a waiver deselects its rule; drift is reported if the selected rules differ |
| Kickstart rendering | `skeleton.py`, `templates/`, `rules/` | on the host: accounts, crypto policy, kernel arguments, sshd, firewall | `%post` sections and one block per rule | the host passes what its configuration promises, boots, and lets its operator in |
| ISO repackaging | `iso/`, `cli.py` | ISO files, a staging directory | `iso_cmd`, `build_iso`, `rewrite_grub`, `rewrite_isolinux`, `_patch_esp`, `_author` | all boot entries find the medium, one of them is unattended and the default, also after a rebuild; nothing is given up before it can be replaced |
| SSG version and ids | `verify/ssg_version.py`, `ssg_ids.py` | none | version query and comparison, id checks | information only, never fails a run |
| Lint, renderers | `lint.py`, `verify/report.py`, `verify/html.py` | none | text search, formatting | |
| Rootless user helper | `assets/create-rootless-user.sh` | account, `/etc/subuid`, `/etc/subgid`, keys, quadlet units | one section for each | ranges never overlap; a re-run keeps what is there, and completes what is missing except a unit that was cut |

How they interact: `new` and `gen` write a bundle of four files; anaconda installs from
it, and its `%post` runs the rules' blocks in the order of `topo_sort`, one of them the
rootless user helper.  `cli.py` loads the config (`loader.py`), calls `run_verify`
directly or from `run_fleet`'s worker threads; `run_verify` calls a transport, which
calls `ssh` or a local process; `oscap` on the host is a process of its own, connected
only by the scratch file and the exit status.  The report goes to the renderers, to
`build_suggestions` and `apply_to_host_yaml`, and to `write_record`.  There are no
callbacks and no locks; all shared state is on file systems.

The behaviours that are hard to test, with their source lines and the properties that
cover them, are listed under `hazards` in `PROJECT.json`.

## 2. Modules

| Module | Models |
|---|---|
| `HostConfig` | the schema: what validation fills in and refuses, and the dump |
| `HostYaml` | the life of one bundle directory: wizard, editor, `gen` and `--set`, over and over |
| `HostYamlProofs` | its theorems |
| `MCHostYaml` | its instances for TLC |
| `RuleOrder` | `load_rules` and `topo_sort`, call by call |
| `RuleOrderProofs` | its theorems |
| `MCRuleOrder` | its instances for TLC |
| `Policy` | what one configuration asks of a scan: ops, waivers, managed rules, drift |
| `Deploy` | one host from `gen` over the install and the first boot to its first scan |
| `DeployProofs` | its theorems |
| `MCDeploy` | its instances for TLC |
| `ExitCodes` | the exit codes |
| `Reconcile` | result states, categories, reports and what exit code they give: the pure part, used by the others |
| `VerifyRun` | any number of `run_verify` calls on any hosts, with `oscap` on the host |
| `VerifyRunProofs` | its theorems |
| `MCVerifyRun` | its instances for TLC |
| `FleetSpec` | what `verify --hosts` promises, in two variables |
| `Fleet` | the command, the pool and its workers; implements `FleetSpec` |
| `FleetHistoryProofs` | the theorems of `Fleet`, the refinement among them, and of `History` |
| `VerifyApply` | any number of `verify --apply` commands on one `host.yaml` |
| `VerifyApplyProofs` | its theorems |
| `MCVerifyApply` | its instances for TLC |
| `History` | the runs that append to a host's history, and the reader |
| `MCHistory` | its instances for TLC |
| `IsoBuild` | a sequence of `ks-gen iso` commands on a shelf of ISO files |
| `IsoBuildProofs` | its theorems |
| `MCIsoBuild` | its instances for TLC: a shelf with both releases and the media that are refused |
| `RootlessUser` | any number of runs of `create-rootless-user.sh` on one host |
| `RootlessUserProofs` | its theorems |
| `MCRootlessUser` | its instances for TLC |

`HostYaml` ends where `Deploy` starts, with a configuration that loads.  `Deploy` takes
from `RuleOrder` that the rules come in some order their dependencies allow, and from
`Reconcile` the report of a scan.  `VerifyRun` stands below `Fleet` and `VerifyApply`: there, a verify is one step with
any outcome `VerifyRun` allows.  `History` stands beside them: its runs start where
`VerifyRun` ends, with a report; its definitions are named `HistoryInit`, `HistorySpec`, ...
so that one module can prove about it and `Fleet`.

### HostConfig and HostYaml

A document keeps the fields that a validator reads.  `InstallUrls` to `NormalizeLean` are
the `mode="before"` validators, in their order; `PartsAreValid` and `HostIsValid` the
`mode="after"` ones of the parts and of `HostConfig`.  Pydantic runs the second group
only on valid parts, and the FIPS conflict has an exit code of its own: hence `ExitOf`.
Two mounts stand for the seven that the STIG wants apart.

`stage` is the wizard's prompt and `payload` the answers so far; `Ends` is any way out.
`Gen` and `GenSet` load `file` and render everything from one config before anything is
written; then `WriteTailoring`, `WriteYaml`, `WriteExceptions` and `WriteKickstart` are
`write_bundle`'s four writes, one by one.  `new` writes its `host.yaml` first
(`WriteInitial`) and then goes the same way.  `made` keeps the config that each of the
other three files was rendered from.  Any write may fail (`WriteFails`): the command
ends, and the file at hand is as it was or cut short, which is `Nothing`; the operator
puts such a `host.yaml` back (`Restore`).  That a prefix of a `host.yaml` could itself
load as a document is not modelled.  `outcome` is the exit: `"written"` stands for exit 0
and for a failed lint (exit 7), which comes after the writes.  `source` is a history
variable: the first file and the edits since, as if nothing had ever been written back.

### RuleOrder

`turn` is the outer loop of `topo_sort`, `stack` the calls of the nested `visit()` with
the position in each one's dependencies, `visited` the colours of the search.  `Discover`
and `Sort` are `load_rules` and the dict `by_id`, in which the last of two modules with
one id wins.

### Policy and Deploy

A STIG rule id stands for the group of ids that the code treats alike.  `RuleOf` gives
for each of the 17 rules whether it applies, its ops, what its exception entry declares
and what it answers for; rules that say nothing of a scan are `Plain`.  A tailoring is
two groups of ops, the rules' and the exceptions', and the last group that names an id
decides (`SelectedIn`, `ValueIn`).  A rule that has an enable switch of its own
(`purge`, `blacklist`, `dod_root_ca`, `usbguard`, ...) applies as the switch says.

`run` fixes a configuration, the bundle that was in the directory before, one fault and
an order of the rules.  `WriteFile` is one of `write_bundle`'s four writes, so that an
install may start between two of them.  Then come the `%post` sections of
`ks.cfg.j2`: fetch (`FetchTailoring`), best-effort upgrade of the content, oscap
(`Remediate`), one action per rule with a block, the ageing section, and the boot.
`Abort` is `--erroronfail`.  `host` has the settings that a check, the boot or a login
depends on.  What the SSG content selects and what its fixes do (`Profile`, `Satisfies`,
`Fixed`) is not in the source; it is taken from the rule lists under `docs/audit-story`
and from what the rules' code says of each check, and marked external in `map`.
Before 0.1.82 (`floor`) and at it (`pin`) the profiles differ; a host may get either.

### VerifyRun

A run is a thread that makes one blocking call after the other; `pc` names the call it
is in.  `tpreflight`, `ttest`, `tread` are `collect_deployed_tailoring`; `preflight`
to `cleanup` are `collect_arfs`, of which `InTry` is the `try` block and `cleanup` its
`finally`; `build` is the rest of `run_verify`.  `err` holds the class of the
exception, and `ErrorExit` its exit code; an `OSError` (a full work directory, a process
that cannot be started) and a `UnicodeDecodeError` (a baseline, an ARF, a tailoring or
the output of a command that is not UTF-8) are caught by nobody and end in a traceback,
exit 1.  `oscap`, `snap` and `arf` are the host's:
the scan process, what it has found, and the scratch file.  A scan evaluates the host
at one moment and writes at its end.  When its ssh call is cut, the process stays
(`orphan`) and may still write (`late`); a local child is killed.  `hostRules` is the
truth, which `HostChanges` alters; `seen` records for each run the states the host had
while it ran, `met` the other runs that were at work on the host in that time, and
`rmFailed` whether its `rm -f` failed: what `ReportIsFresh` and `Origin` need to say
where the ARF behind a report can come from.  Runs on one host overlap freely.

ARFs are abstract: who wrote it, whether it is whole, and the result of each rule.
Stalls are an action (`Stall`) of the calls in `Stallable`; only the ssg query and the
scan have a timeout that ends one (`Capped`).

### Fleet

`main` is the command's thread, `worker[w]` the entry a pool thread is on.  The pool's
queue is FIFO, so two counters describe it.  A worker loads the `host.yaml` a second
time (`LoadConfig`), verifies, and stores an outcome; `Guarded` is `_guarded`'s
handler for whatever else was raised.  `EditConfig` is an operator.

### VerifyApply

A step of a command is what happens between two effects on the file system, following
the numbered steps in `apply_to_host_yaml`.  A file's content is the sequence of
exceptions and the form of the rest; a file that was opened for writing is empty, then
whole or torn.  `fd` tracks which file a command holds open, since a rename carries an
open file with it.  Of the rest of `host.yaml` seven forms matter.  Three load: `plain`;
`implied`, which keeps a data disk without naming a partition, so that validating the
candidate writes `partition: 1` into it and apply writes that down with the exceptions
(`Validated`); and `bare`, a `disk:` block without `preset` and `layout`, into which
validation writes an enum that cannot be dumped.  Four do not: `refused` by `HostConfig`,
which apply only notices if it has something to add; `odd`, whose exceptions are not a
list of mappings (`TypeError`); `broken`; and `binary`, not UTF-8.

### History

A line is three parts: two halves of the record and the newline.  `Write` appends any
number of the parts that are left, so a line may reach the file in one write or in
several, and `Fault` may come between them: then the next run continues the torn line.
`Leave` is the exit of `verify_cmd` that skips `_record_run`.  The reader is a set of
operators over a file: `LinesOf` splits it, `Malformed` is the `ConfigError` that
refuses the whole history, `ReadHostHistory` sorts by time (`Sorted`), keeping the
file's order among equals, and `Streaks` and `Delta` are the trends.  A report is a category for
each rule; `Rows` keeps those that are not clean.

### IsoBuild

A boot configuration is abstracted to what the code looks at: the label searched for
before the entries, the entries with their marker, their loader and the labels they
look for, and the default.  A label is its form, because `default_volid`,
`validate_volid` and the word-wise replacement decide by it.  The steps of a command
are the points where it may fail: the flag against the kickstart, the label, the
source (`Inspect`), both rewrites (`Patch`), the image in the EFI partition
(`PatchEsp`), the unlink of the old output, and `Author`.  The shelf holds vendor media
of both releases and one medium for each reason to refuse one; outputs go back on it
and may be the source of the next command.  A command may name one file as `--src` and
`--out`; the code does not look.

### RootlessUser

One step per command that changes the host, together with the test that guards it:
`set -e` makes each of them a place where a run may end.  A block of subordinate ids is
read in one step and appended in the next.  A quadlet unit is torn while `cat` writes
it, then root's, then the user's.  An `authorized_keys` file has its complete lines and
a last one that may lack its newline, and a key that is appended to it shares its line
(`joined`).  `hit` is the fault a run has met.  It may be cut anywhere (`Abort`), or it
misreads a listing (`Misread`): under `set -o pipefail`, `semanage | grep -q` counts as
no match when `grep` leaves first, and the run defines a context that is there.  Between
runs, users add keys, with or without a newline, edit units, and the operator sets a
password.

## 3. Runs

| Run | Asks | Bounds and why they suffice |
|---|---|---|
| `HostYaml_bundle` | does a command that says it wrote a bundle leave four files of one configuration, and does writing defaults back change what a later edit means? | ten files, one per optional part and two of older releases, with two edits of any field and any number of `gen` between them (two edits, since every validator relates two fields); the wizard with every answer and two data disks, on no file or over a bundle of `Replaced`; any of the four writes may fail or be cut, once the operator has edited at the price of an edit |
| `RuleOrder_dfs` | is every order right and every error true, and does the search end? | all graphs on three rules with two dependencies each and an id nobody defines; doubled and missing rules; the catalog that ships |
| `Deploy_install` | are promises kept, waivers real, drift seen, operators let in, and does STIG fail closed? | per distro every configuration up to two settings, enable switches included, from the defaults (a block and a fix meet in at most two settings), each of ten faults with every configuration one setting away, two orders of the rules, one edit after the install |
| `Deploy_denyroot` | does every enforced rule pass? | violated: finding 2 |
| `VerifyRun_overlap` | where does the ARF behind a report come from, and what does a run leave on the host, when runs overlap as they like? | two runs on one host (one meets what the other leaves, late or half-way), four command lines that together reach every branch, scans that succeed, are malformed, leave no file or fail, one change of the host; the runs are interchangeable, hence the symmetry |
| `VerifyRun_alone` | what does exit 0 vouch for, and what can keep a run from ending? | one run with each of its 144 command lines, two rules, one of them expected to fail, that pass, fail or end in error, every call that may stall stalling, one change of the host |
| `Fleet_pool` | is every host judged once, does the command implement `FleetSpec`, and does it end? | three hosts on two workers: one worker must take a second task while the other runs |
| `VerifyApply_serial` | is `host.yaml` safe when writers take turns? | two commands, one with `--allow-regression`; three rules, one of them enforced; `host.yaml` in each of its seven forms; every fault, one kill, one edit |
| `VerifyApply_dump` | is every failure reported as one? | violated: finding 1 |
| `History_store` | is a history that can be read the true one, and do verdict, streaks and changes fit the runs? | three runs of one host (a streak of three, and one that is interrupted), one rule in three categories, two times (equal and increasing), one fault |
| `IsoBuild_chain` | does every medium boot unattended and find itself, over chains of builds? | three commands (build, rebuild, rebuild of that) on eight media and two outputs, in place too, every failing tool, kills, one edit of the kickstart between commands |
| `RootlessUser_rerun` | does a run deliver what it promises whatever came before, and keep what is there? | two runs one after the other (the second repairs the first), two users, four starting hosts, three command lines, one fault (a cut anywhere or a misread listing), one edit; the runs are interchangeable, hence the symmetry |

Deadlock is checked in `HostYaml_bundle`, where an operator can always type on or run
`gen`.  Elsewhere it is not: a command, or a run, that has ended stops.  `MaxChanges`,
`MaxEdits`, `MaxKills`, `MaxFaults`, `MaxBuilds`, `MaxTime`, `MaxDisks` and `Replaced` only
bound the environment; the theorems hold for all their values.

**Fairness.** `VerifyRun`: a run whose call answers goes on, a timeout fires, and an
orphaned scan ends; `Stall` and `HostChanges` have no fairness, and a stalled call
without a timeout enables nothing.  `Fleet`: the main thread and each worker are
scheduled and `run_verify` returns, which `OnlyUncappedHangs` (`VerifyRun_alone`)
establishes unless a call without a timeout stalls.  The code starts no thread that may be starved and takes no
lock, so weak fairness per thread is what the operating system gives it.  `RuleOrder`: a
recursion that never waits goes on (`WF_vars(Next)`), so `SortEnds` says that it does not
go round in circles.  The other
modules have safety properties only, and no fairness.

## 4. Findings

1. A bare `disk:` block makes `yaml.safe_dump` raise outside the handled class, after the
   backup was replaced (`VerifyApply_dump`).
2. With `overrides.faillock.even_deny_root` the configuration promises a rule that
   ks-gen's own block breaks right after oscap fixed it (`Deploy_denyroot`).

Other behaviour the models show.  It is in the runs as they stand where the line says so,
and the properties of section 3 then say exactly how far the code's promise goes; else the
line names the constant to change or the stronger property to check, which TLC refutes:

- Runs on one host share one scratch ARF, so of overlapping verifies one may report the
  other's scan, and a host that is not compliant may exit 0.  A failed `rm -f` is swallowed
  and the path is not cleared before a scan, so a scan that writes nothing is then reported
  with the old file instead of `ArfMissingError`; and a scan that outlives its ssh call
  writes into a later run.  All three are in `VerifyRun_overlap`; `ReportIsFresh` says that
  there is no fourth way, and of a foreign scan it claims no more.
- Exit 0 is about rules that fail.  A rule whose check ended in error, or was not made,
  does not keep a report from being clean (`ExitZeroMeansCompliant`, `VerifyRun_alone`).
- What is pulled or read is decoded as UTF-8 where only `OSError` is caught: a baseline or
  tailoring in another encoding, or an ARF cut in the middle of a character, ends `verify`
  in a traceback (`"decodeerror"`).  So may the answer to the SSG query, of which
  `collect_ssg_version` says "Never raises" (`remote.py:129`).
- A remote call other than the ssg query and the scan stalls: it has no timeout and the
  run never ends.  `OnlyUncappedHangs` (`VerifyRun_alone`) says that nothing else does that.
  `run_verify` says so itself (`verify/__init__.py:103`), while `remote.py:140` has
  "Capped like every other remote call".
- A failing `--apply` or `--html-out` ends the command before the run is recorded,
  although the manual says that every run is (`History_store`: `EveryRunRecorded`).
- `--out` and `--src` may name one file: it is unlinked, then read, and the medium is
  gone.  The commands of `IsoBuild_chain` do it; `CheckedBeforeUnlink` says what has been
  checked by then, and `SourceSurvives` does not hold.
- An edit of the kickstart during a build goes unnoticed (`IsoBuild_chain` with
  `EditsDuring = TRUE`: `SuccessIsMedium`).
- `create-rootless-user.sh` says "Idempotent: safe to re-run" (line 8).  `SafeToRerun` is
  what is left of that; in `RootlessUser_rerun` as it stands, a unit that a cut run left
  torn or root-owned is taken for finished by every later run (`UnitsReady` fails), a key
  is appended to a line without a newline (`KeyInstalled`), and a re-run may end over a
  context that is defined already (`CutRunsFail`).
- Apply is "append-only" (`suggest.py:130`), but validating the candidate fills defaults
  into it: `partition: 1` of a data disk that is kept is written down with the exceptions
  (`AppendOnly` has the exception).
- A `host.yaml` that turns into something that is not UTF-8, or whose exceptions are no
  list of mappings, while the scan runs ends apply in a traceback; one that `HostConfig`
  refuses is not noticed if nothing is to be added (`ReadYaml`).
- Applies to one `host.yaml` overlap and lose exceptions, or report failure after a
  change (`VerifyApply_serial` with `OneApplier = FALSE`: `AppendOnly`,
  `FailureLeavesYaml`).
- Records of one host are written at once and tear each other (`History_store` with
  `Exclusive = FALSE`: `TimelineTrue`); `write_record` says that this is not safe.
- A rebuild keeps the unattended entry of its source even if the kickstart now takes
  its packages from elsewhere (`IsoBuild_chain`: `EntryAlwaysFits`).
- A label that is also a word of the menus is replaced in commands on the next rebuild
  (`IsoBuild_chain` with `Loader("efi")` among the labels of `MCChain`: `FallbackBoots`).
- An extraction that fails looks like a file that is not there (`Flaky = TRUE`:
  `BiosWarningTrue`).
- Two runs of the script at once hand out one range twice (`OneAtATime = FALSE`:
  `DisjointSubids`).
- The install-time oscap run fails as a whole: its exit status is swallowed, and off STIG
  the host comes up green and unremediated (`PromiseKept` without `host.scanned =
  host.content` in `Remediated`).  On STIG the crypto policy block stops the install: `FailClosed`.
- An offline install keeps the media's SSG content, and its own timer upgrades it later:
  `crypto_policy` may then regress without a change of the host (likewise).
- A configuration that removes `dnf-automatic` or `policycoreutils` and keeps what needs
  it, or that waives the STIG crypto policy it is built on, loads, and its install aborts
  in `%post` (`SelfDefeating`; without it, `Reachable`).
- `new` or `gen` cut between its writes leaves a bundle of two configurations, and so does
  `new` when a passphrase file is missing, as it writes `host.yaml` before it renders.
  `BundleIsOneConfig` claims nothing of a command that fails; without its `outcome =
  "written"` it does not hold.  `DriftIsSeen` shows that `verify` notices whatever the
  tailoring lacks; nothing compares `ks.cfg`.
- `gen` in place spells out `meta.scap_content`, the install URLs, `disk.preset`, the
  identifiers of data disks and the package lists.  A later edit of the field one of them
  was derived from is refused, and one of `packages.preset` from `lean` back to
  `standard` has no effect (`EditsMeanTheSame` with an empty `SpelledOut`, or without
  its exception for `packages`).
- Of `new`'s errors only `WizardError` is caught: a port that is no number, and answers
  that do not validate, end in a traceback (outcome `"crash"`).
- Without `/etc/subuid`, awk fails inside the assignment and ends the script, so the
  default on the line after it is never reached (`ReadSubids`).

## 5. Proofs

Every safety property of the passing runs is a theorem. The theorems hold for every
value of the constants that meets the module's assumption (`RunAssumption`,
`FleetAssumption`, `HistoryAssumption`, `ApplyAssumption`, `IsoAssumption`,
`UserAssumption`, `CatalogAssumption`, `ScenarioAssumption`, `YamlAssumption`). Where a
theorem has a further hypothesis it is named with it below, and the run that checks the
property gives the constants values that meet it. Hypotheses are named predicates of the
constants (`OneAtATime`, `Reliable`, ...); what happens without them is in section 4.
TLC agrees with the inductive invariants on the runs' instances.

**VerifyRun.** The four theorems have no hypothesis: any number of runs may overlap on a
host.  `ReportIsFresh` is not inductive: a run pulls whatever is in the scratch file, so
`FreshInv` has to say where that may come from.  `FileOrigin`: what lies in a scratch file
is what its writer's scan found, and the writer is on its way to the cleanup unless its
`rm -f` failed or its scan was late.  `MetAll`: an active run has met every other run that is
at work on its host.  So whatever a run pulls is its own or that of a run it has met, that
failed to remove it, or that wrote late (`GotOrigin`); and what its own scan found it has
seen (`SnapSeen`).  `ExitZero` adds `CleanRows`, that a clean report of a scan means that
every failing rule is expected, and `DriftChecked`, that a tailoring check which was asked
for has been made.  For `CleanupIsFinal`, `CleanInv` says that what lies in a scratch file
was written by a run whose scan is over, and that a run past its cleanup has nothing there
unless `rm` failed or the scan was given up while it was still running; other runs only
replace or remove the file.

**Fleet.** `PoolInv == TypeOK /\ NoHostLost /\ Phase` is inductive; `Phase` ties the
counters to the step of the main thread.  `Implements` maps a worker's store to
`Judge`, the last step to `Finish`, and every other step to a stutter.

**History.** `HistoryTyped` and `TrendsAreTrue` are unconditional: whatever the files
hold, the reader makes a list of runs of them (`HistoryOfRuns`), and verdict, streaks and
delta of any such list agree with each other and with the exit codes (`TrendsOfRuns`).
`HistoryIsTrue` (`TimelineTrue`) assumes `Exclusive`, no two runs of a host at once; runs
that overlap tear each other's lines with no fault at all (section 4).  The property
speaks of the files only through the reader, so the invariant `StoreInv` has to say what
is in them.  A host's file is `Whole`, the lines of the runs that began one, in the order
of their reports, all complete but perhaps the last; or it is `Torn`, some run having
begun its line behind one that was broken off.  A torn file stays torn (`TornStays`),
since a file only grows, and the run that broke off has ended.  `Turns` says that the runs
of a host follow each other with times that do not decrease; so a run that begins its line
comes after all those in the file.  `WholeIsRead` then reads a whole file back: its
newlines are every third chunk, its lines are the runs' records, and they are in order
already.  A torn file is refused (`BrokenIsMalformed`), and so is one that ends in half a
record (`HalfIsMalformed`); one that lacks only its last newline is not.  `HistoryIsSound`
says what is left without `Exclusive`: the records that the reader finds are the host's
own, none twice, in the order of time; it rests on each run writing the parts of its line
in order (`PartsInOrder`).  No run checks this one by itself.  Behind the reader are the
lemmas on sorting: a finite set has exactly one list in a total order
(`ListExists`, `OneList`), and `Sorted` is it.  The library's induction theorems take an
operator as a parameter, so `ListExists` argues from a smallest set that has no list.

**VerifyApply.** With `OneApplier` the invariant `ApplyInv` says for each step of the
one writing command what the three files hold: the backup equals `host.yaml` after the
copy, the temporary file equals the candidate after the write, and the candidate
is `host.yaml` with exceptions appended and its form validated (`Candidate`).  The action properties follow from the rename being the only step
that changes `host.yaml` (`OnlyReplaceWrites`).  `WaiversPermitted` and
`SuccessIsComplete` rest on `WaiverInv`: between the read and the rename the candidate is
`host.yaml` followed by the permitted suggestions it lacks, each once, whatever was
scanned in between; after a rename nothing permitted is lacking; and a temporary file
belongs to a command that has still to remove it, was killed, or failed to.

**IsoBuild.** `IsoInv == TypeOK /\ MediaInv /\ StageInv`.  `EveryMediumFindsItself`
assumes that extraction is reliable (`Reliable`).  A medium is written from the source
and the staged configurations, so the invariant has to relate the staged ones to the
source at each step: before the rewrite they look for the source's label, after it for
the new one, and every configuration the source has is among them.  `OursAlwaysBoots`
strengthens it to `BuildInv`: the entries that are ours, the markers and the default of
every configuration, on a file or staged, agree (`Tidy`), so that a rebuild replaces the
block of the build before it and adds no second one.  Its hypotheses are that extraction
is reliable, since a failed one leaves the vendor's menu; that the shelf holds vendor
media at first (`VendorShelf`), since a foreign default could point anywhere; and that
no label is a word of the menus (`PlainLabels`): such a label is replaced in commands
and markers too, on the build after the next.  `SuccessMeansMedium` assumes
in addition that the kickstart is not edited during a build (`SteadyKs`), as it is read
twice.  `NothingLostInVain` has no hypothesis: any media and labels, commands that write
over their own source among them.  Of a medium it only needs its shape (`ShapeInv`), and
of a command that it has staged every configuration of its source that could be extracted
(`CoverInv`).  That the source survives it does not say; it may not (section 4).

**RootlessUser.** `SubidInv == TypeOK /\ Alone /\ ComputedInv /\ DisjointSubids`, under
`OneAtATime`.  `ComputedInv` says of a run that has computed a block and not yet
appended it that every range in the file ends at or before it; `Alone` keeps the file
from changing in between.  The block size, the ranges that are there at first, and the
lengths of other lines are arbitrary.  For `ReRunIsSafe` the difficulty is that the
script keeps nothing but the host: what an earlier, killed run did has to be read off
it.  `Promised` says for each step of a run what the host holds by then, and `Grew` that
no step of any run, and no editor, takes any of that away; a finished run has then
provided what it was asked for.  Units are written in two steps, and the script takes a
half-written unit for the administrator's own: `UnitsInv` says that a unit which is half
written belongs to a run that is finishing it or was cut there (`Unfinished`).  The only
hypothesis is `OneAtATime`; files whose last line is unfinished, misread listings and cuts
anywhere are all included, and what they spoil is in the statement.  `UserAssumption` asks
of the first host only that its ranges are disjoint and that no unit is half written yet.

**RuleOrder.** `OrderRespectsDependencies` and `VerdictIsTrue` hold for every catalog, of
any size and with any graph.  The invariant ties the colours to the two sequences: the
rules `in` progress are those on the stack, each below its caller as the dependency the
caller has come to; those `done` are those in the order; and every dependency a call has
passed is done.  A `CycleError` is then true because the rules on the stack form a
`Knot`, each depending on the one above it and the last on one of them.  Deploy's
assumption `IsOrder` is what the first theorem gives.

**Deploy.** All theorems hold for any set of configurations, bundles left in the
directory, edits and faults, and for every order `IsOrder` allows; nothing else is
assumed.  A kickstart may be installed with the tailoring of another configuration.  They
follow from one invariant, `DInv` (`DeployInvariant`), whose parts follow
the deployment: which files of the bundle are `gen`'s (`Written`), what the host took
from it (`Carried`, `Supplied`), what the install-time oscap left (`OscapLeft`), which
settings the blocks that have run must have made (`Settled`), how the install ended
(`Ended`) and what verify said (`Judged`).  `Settled` is where the order matters.  The
lemma `BlockEffects` says of each block what it writes and that it leaves all else
alone; `TurnInOrder` that a rule's dependencies have run before it; so a setting, once
made, survives the blocks that follow.  The lemmas before it are the algebra of
tailorings: what `SelectedIn` and `ValueIn` give for the ops of one configuration, and
that two tailorings `HasDrift` finds no difference in have one effect
(`NoDriftSameEffect`), which is `DriftIsAlwaysSeen`.  `WaiversDeployed` is then about
configurations alone, and `PromiseIsKept` combines the two: a managed rule that is not
waived is selected and its setting made, or it is one that a scan passes without.

**HostYaml.** `DumpIsFixed` says of any document that its dump has nothing left for a
validator to fill in and is dumped as it is.  `BundleStaysOne` rests on it: only
`fips_mode` is both dropped by the dump and read by a validator, and its being absent is
never refused, so the file that was written back is accepted (`WrittenInStep`) and
renders the same kickstart (`SameEffect`).  The invariant is `DocumentInv /\ InStep`:
between two of the four writes, each file that has been written is of the document the
command was given, and a command that came to its end left `OneConfig`; one that is cut
leaves whatever it had.  `EditsStayMeant` compares the
file with what the operator asked for over any sequence of commands and edits, by the
relation `Carries`: the two differ only in what validation filled in and what the dump
dropped, and as long as the field a value was derived from has not been edited, it is
what validation would derive again.  A file related in this way either loads to the same
config or is refused, and it is refused only for a value whose origin was edited
(`CarriedIsAccepted`, `CarriedIsMeant`).  `TypeCorrect` includes that a config that
reached the renderer has nothing left to fill in (`AcceptedIsComplete`).

**Only model-checked.**
- Liveness (`OnlyUncappedHangs`, `FleetEnds`, `SortEnds`): the provers handle neither
  fairness nor ENABLED.
- `EnforcedRulesPass` and `FailuresAreReported` are the two properties that the code does
  not keep; their runs show the violation.

## 6. Not modelled, and the plan

Left out for good: lint and the report renderers (text from one input, no state), the
audit scripts and the install test harness (tooling around the program), XML and YAML
syntax, the contents of XCCDF rules, the sudo password, checks of a single string in
`config.py`, partition sizes, and the kickstart's commands before `%post`.  In `IsoBuild`,
the formats of xorriso's reports and the menus' syntax; in `RootlessUser`, the options
and preflight checks that end a run before it changes anything.  In `HostConfig`, mounts
are compared as names: the code, too, takes `/var/` and `/var` for two mounts.

Where the repository's own texts differ from each other the code was followed: the manual
counts twelve or thirteen rules and 17 ship; `rules/alma10/time_servers.py` says that
0.1.82 selects `chrony_set_nts`, the list of that release in `docs/audit-story` lacks it.

Plan, in order:

1. The option checks of `verify`, and which mode and which exit code they lead to.
2. The comparison of SSG versions and what it may say.
