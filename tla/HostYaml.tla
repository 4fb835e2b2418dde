------------------------------ MODULE HostYaml ------------------------------
(***************************************************************************)
(* The life of one bundle directory: `ks-gen new' asks its questions and   *)
(* writes host.yaml, the operator edits it, and `ks-gen gen' loads it (with*)
(* an override from --set), writes it back with every default and derived  *)
(* value spelled out, next to the three files it renders from that config. *)
(* The files of a bundle are written one after the other; each write may   *)
(* fail, and the command may be killed at any of them.                     *)
(* `source' is what the operator asked for: the answers or the first file, *)
(* and the edits since, never written back.                                *)
(*                                                                         *)
(* wizard/*.py, loader.py, writer.py, disk_luks.py, cli.py (gen, new_cmd)  *)
(***************************************************************************)
EXTENDS HostConfig

CONSTANTS
    Documents,      \* the files an operator may begin with
    Values(_),      \* field -> the values an edit may give it
    Replaced,       \* bound: the files `ks-gen new' is run over
    DiskAnswers,    \* data disks the wizard is told of
    MaxDisks,       \* bound: data disks per run of the wizard
    MaxEdits        \* bound: edits of a hand-written file, and failed writes
                    \* of the bundle once it has been edited

VARIABLES
    stage,          \* the wizard's prompt, the file being written, or "shell"
    groups,         \* optional sections still to ask
    tries,          \* passphrase confirmations that failed
    payload,        \* the answers so far, or the document being generated
    sets,           \* the fields that --set gave to that document
    file,           \* host.yaml
    source,
    made,           \* the configs the bundle's other files were rendered from
    edited,         \* fields edited since the file was begun
    budget,         \* edits and failures left
    outcome         \* of the last command, "none" while one is at work

wizard == <<stage, groups, tries, payload, sets>>
bundle == <<file, source, made, edited, budget>>
vars   == <<wizard, bundle, outcome>>

(* No file, or one that was cut short while it was written.                *)
Nothing  == [distro |-> "none"]

Rendered == {"tailoring.xml", "exceptions.md", "ks.cfg"}
Writing  == {"initial", "host.yaml"} \cup Rendered
NoLuks   == [preset |-> "none", passphrase |-> FALSE, file |-> FALSE,
             tang |-> [servers |-> 0, threshold |-> 1]]

(* The schema's defaults, and the admin the wizard proposes.               *)
Blank ==
    [distro |-> "alma9", scap |-> Null, source |-> "media", baseos |-> Null,
     appstream |-> Null, policy |-> "MODERN", fips_mode |-> Null, ufw_port |-> Null,
     admin |-> "opsadmin", keys |-> {}, password |-> FALSE, sudo |-> "nopasswd_no",
     password_auth |-> FALSE, console_login_only |-> FALSE, preset |-> Null,
     layout |-> <<>>, luks |-> NoLuks, target |-> Null, data_disks |-> <<>>,
     containers |-> [enabled |-> FALSE, users |-> <<>>, noexec |-> FALSE],
     nts |-> FALSE, servers |-> "pool", waived_nts |-> FALSE,
     packages |-> "standard", at_standard |-> Null, lean_required |-> Null,
     updates |-> [enable |-> TRUE, nightly |-> TRUE, monthly |-> TRUE, reboot |-> TRUE],
     interface |-> [bootproto |-> "dhcp", address |-> FALSE]]

Fields == DOMAIN Blank

Disks == [target : STRING, mount : STRING, wipe : BOOLEAN,
          ids : SUBSET {"partition", "uuid", "label"}]

IsDocument(y) == y = [f \in Fields |-> y[f]] /\ y.data_disks \in Seq(Disks)

ASSUME YamlAssumption ==
    /\ \A y \in Documents : IsDocument(y)
    /\ DiskAnswers \subseteq Disks /\ Values("data_disks") \subseteq Seq(Disks)
    /\ MaxDisks \in Nat /\ MaxEdits \in Nat

Init ==
    /\ stage = "shell" /\ groups = {} /\ tries = 0 /\ payload = Blank /\ sets = {}
    /\ file \in Documents \cup {Nothing} /\ source = file
    /\ made = [f \in Rendered |-> Nothing] /\ edited = {} /\ budget = MaxEdits
    /\ outcome = "none"

-----------------------------------------------------------------------------
(***************************************************************************)
(* ks-gen new: the prompts in order.  Ctrl-C, end of input and an empty    *)
(* answer to a required question are all a WizardError.                    *)
(***************************************************************************)
At(s) == stage = s

Answers(next, answers) ==
    /\ stage' = next /\ payload' = answers
    /\ UNCHANGED <<groups, tries, sets, bundle, outcome>>

Ends(how) == /\ stage' = "shell" /\ groups' = {} /\ tries' = 0 /\ payload' = Blank
             /\ sets' = {} /\ outcome' = how

StartNew ==
    /\ At("shell") /\ edited = {} /\ {file, source} \subseteq Replaced \cup {Nothing}
    /\ stage' = "core" /\ outcome' = "none"
    /\ UNCHANGED <<groups, tries, payload, sets, bundle>>

GiveUp ==
    /\ stage \notin {"shell", "validate"} \cup Writing /\ Ends("usage")
    /\ UNCHANGED bundle

AskSudo ==
    /\ At("core")
    /\ \E sudo \in {"nopasswd_no", "nopasswd_yes"} :
          Answers("keys", [payload EXCEPT !.sudo = sudo])

AskKeys ==
    /\ At("keys")
    /\ \/ \E key \in {"ed25519", "rsa"} \ payload.keys :
              Answers("keys", [payload EXCEPT !.keys = @ \cup {key}])
       \/ payload.keys # {} /\ Answers("policy", payload)

(* int() of the port, asked just before, is taken after the last answer.   *)
AskPolicy ==
    /\ At("policy")
    /\ \E policy \in {"STIG", "MODERN"} : Answers("groups", [payload EXCEPT !.policy = policy])

PortIsNoNumber ==
    /\ At("policy") /\ Ends("crash")
    /\ UNCHANGED bundle

NextGroup(left) ==
    IF "disk" \in left THEN "disk"
    ELSE IF "network" \in left THEN "network"
    ELSE IF "overrides" \in left THEN "overrides" ELSE "validate"

AnswersLast(left, answers) ==
    /\ groups' = left /\ stage' = NextGroup(left) /\ payload' = answers
    /\ UNCHANGED <<tries, sets, bundle, outcome>>

AskGroups ==
    /\ At("groups")
    /\ \E chosen \in SUBSET {"disk", "network", "overrides"} : AnswersLast(chosen, payload)

(* The minimal preset skips what the schema would refuse with it.          *)
AskDisk ==
    /\ At("disk")
    /\ \E target \in {Null, "sda", "by-id"}, preset \in {"stig_server", "minimal"} :
          LET answers == [payload EXCEPT !.target = target, !.preset = preset]
          IN  IF preset = "minimal" THEN AnswersLast(groups \ {"disk"}, answers)
              ELSE Answers("luks", answers)

AskLuks ==
    /\ At("luks")
    /\ \/ Answers("data_disks", payload)
       \/ Answers("passphrase", [payload EXCEPT !.luks.preset = "partial"])
       \/ Answers("data_disks", [payload EXCEPT !.luks.preset = "partial", !.luks.file = TRUE])

RetryLimit == 3

AskPassphrase ==
    /\ At("passphrase")
    /\ \/ Answers("data_disks", [payload EXCEPT !.luks.passphrase = TRUE])
       \/ /\ tries + 1 < RetryLimit /\ tries' = tries + 1
          /\ UNCHANGED <<stage, groups, payload, sets, bundle, outcome>>
       \/ /\ tries + 1 = RetryLimit /\ Ends("usage")
          /\ UNCHANGED bundle

AskDataDisk ==
    /\ At("data_disks") /\ Len(payload.data_disks) < MaxDisks
    /\ \E d \in DiskAnswers :
          Answers("data_disks", [payload EXCEPT !.data_disks = Append(@, d)])

EndDataDisks ==
    /\ At("data_disks")
    /\ IF payload.data_disks # <<>> /\ payload.target = Null
       THEN Ends("usage") /\ UNCHANGED bundle
       ELSE AnswersLast(groups \ {"disk"}, payload)

(* A static interface is asked for every address.                          *)
AskNetwork ==
    /\ At("network")
    /\ \E bootproto \in {"dhcp", "static"} :
          AnswersLast(groups \ {"network"},
              [payload EXCEPT !.interface = [bootproto |-> bootproto,
                                             address   |-> bootproto = "static"]])

AskOverrides ==
    /\ At("overrides")
    /\ \E on \in BOOLEAN : AnswersLast({}, [payload EXCEPT !.updates.enable = on])

-----------------------------------------------------------------------------
(***************************************************************************)
(* Rendering reads the passphrase file, which may be missing or empty; the *)
(* error is not caught.  `new' has replaced host.yaml by then.             *)
(***************************************************************************)
Renders(c, present) == c.luks.preset # "none" /\ c.luks.file => present

ValidateAnswers ==
    /\ At("validate")
    /\ IF Accepts(payload) THEN Answers("initial", payload)
                           ELSE Ends("crash") /\ UNCHANGED bundle

(* write_initial, and build_bundle after it.                               *)
WriteInitial ==
    /\ At("initial")
    /\ file' = Dump(Config(payload)) /\ source' = payload
    /\ edited' = {} /\ budget' = 0 /\ UNCHANGED made
    /\ \E present \in BOOLEAN :
          IF Renders(Config(payload), present)
          THEN /\ stage' = "tailoring.xml"
               /\ UNCHANGED <<groups, tries, payload, sets, outcome>>
          ELSE Ends("crash")

(***************************************************************************)
(* ks-gen gen, in place: all is rendered before anything is written.  A    *)
(* --set changes the loaded document, and with it the file that is written *)
(* back.                                                                   *)
(***************************************************************************)
Command == At("shell") /\ file # Nothing

Generate(doc, changed, present) ==
    /\ UNCHANGED <<groups, tries, bundle>>
    /\ IF Accepts(doc) /\ Renders(Config(doc), present)
       THEN /\ stage' = "tailoring.xml" /\ payload' = doc /\ sets' = changed
            /\ outcome' = "none"
       ELSE /\ outcome' = IF Accepts(doc) THEN "crash" ELSE ExitOf(doc)
            /\ UNCHANGED <<stage, payload, sets>>

Gen == Command /\ \E present \in BOOLEAN : Generate(file, {}, present)

Scalars == {"distro", "policy", "packages", "preset", "source", "nts"}

ApplySet(doc, f, v) == [doc EXCEPT ![f] = v]

GenSet ==
    /\ Command /\ budget > 0
    /\ \E f \in Scalars : \E v \in Values(f) : Generate(ApplySet(file, f, v), {f}, TRUE)

(***************************************************************************)
(* write_bundle, a file at a time; a kickstart that fails the lint (exit 7)*)
(* has been written like any other.                                        *)
(***************************************************************************)
Render(name, next) ==
    /\ At(name) /\ stage' = next
    /\ made' = [made EXCEPT ![name] = Config(payload)]
    /\ UNCHANGED <<groups, tries, payload, sets, file, source, edited, budget, outcome>>

WriteTailoring == Render("tailoring.xml", "host.yaml")

\* A mutant of WrittenBack: gen leaves an override out of host.yaml.
AsLoaded(doc, loaded) == Dump(Config(loaded))

WrittenBack(doc, loaded) == Dump(Config(doc))

WriteYaml ==
    /\ At("host.yaml") /\ stage' = "exceptions.md"
    /\ file' = WrittenBack(payload, file)
    /\ source' = [f \in Fields |-> IF f \in sets THEN payload[f] ELSE source[f]]
    /\ edited' = edited \cup sets /\ budget' = budget - Cardinality(sets) /\ sets' = {}
    /\ UNCHANGED <<groups, tries, payload, made, outcome>>

WriteExceptions == Render("exceptions.md", "ks.cfg")

WriteKickstart ==
    /\ At("ks.cfg")
    /\ made' = [made EXCEPT !["ks.cfg"] = Config(payload)]
    /\ Ends("written")
    /\ UNCHANGED <<file, source, edited, budget>>

(* Full disk, or kill: the file at hand is as it was, or cut short.        *)
WriteFails ==
    /\ stage \in Writing
    /\ \/ budget > 0 /\ budget' = budget - 1
       \/ budget = 0 /\ edited = {} /\ UNCHANGED budget
    /\ \/ UNCHANGED <<file, source, made, edited>>
       \/ /\ stage \in Rendered
          /\ made' = [made EXCEPT ![stage] = Nothing]
          /\ UNCHANGED <<file, source, edited>>
       \/ /\ stage \notin Rendered
          /\ file' = Nothing /\ UNCHANGED <<source, made, edited>>
    /\ Ends("crash")

-----------------------------------------------------------------------------
(* The operator's editor, external.                                        *)
Edits(f, new) ==
    /\ Command /\ budget > 0
    /\ file' = new[1] /\ source' = new[2]
    /\ edited' = edited \cup {f} /\ budget' = budget - 1
    /\ outcome' = "none" /\ UNCHANGED <<wizard, made>>

Edit ==
    \E f \in Fields : \E v \in Values(f) :
        Edits(f, <<[file EXCEPT ![f] = v], [source EXCEPT ![f] = v]>>)

(* The wipe key of the first data disk, its identifiers left alone.        *)
EditWipe ==
    /\ Command /\ file.data_disks # <<>>
    /\ LET Flip(doc) == [doc EXCEPT !.data_disks[1].wipe = ~@]
       IN  Edits("data_disks", <<Flip(file), Flip(source)>>)

(* A file that was cut short is put back from the operator's own copy.     *)
Restore ==
    /\ At("shell") /\ file = Nothing /\ source # Nothing
    /\ file' = source /\ outcome' = "none"
    /\ UNCHANGED <<wizard, source, made, edited, budget>>

Next ==
    \/ Restore \/ StartNew \/ GiveUp \/ AskSudo \/ AskKeys \/ AskPolicy \/ PortIsNoNumber
    \/ AskGroups \/ AskDisk \/ AskLuks \/ AskPassphrase \/ AskDataDisk
    \/ EndDataDisks \/ AskNetwork \/ AskOverrides \/ ValidateAnswers
    \/ WriteInitial \/ Gen \/ GenSet \/ WriteTailoring \/ WriteYaml
    \/ WriteExceptions \/ WriteKickstart \/ WriteFails \/ Edit \/ EditWipe

Spec == Init /\ [][Next]_vars

-----------------------------------------------------------------------------
(***************************************************************************)
(* The state has the shape the actions expect, and a config that reached   *)
(* the renderer has nothing left to fill in (config.py's validators).      *)
(***************************************************************************)
TypeOK ==
    /\ stage \in {"shell", "core", "keys", "policy", "groups", "disk", "luks",
                  "passphrase", "data_disks", "network", "overrides", "validate"}
                 \cup Writing
    /\ groups \subseteq {"disk", "network", "overrides"} /\ tries \in 0..(RetryLimit - 1)
    /\ DOMAIN payload = Fields /\ edited \subseteq Fields /\ sets \subseteq Fields
    /\ budget \in 0..MaxEdits /\ DOMAIN made = Rendered
    /\ file # Nothing => DOMAIN file = Fields /\ DOMAIN source = Fields
    /\ \A f \in Rendered : LET c == made[f] IN
          c # Nothing =>
             /\ Null \notin {c.scap, c.baseos, c.appstream, c.at_standard, c.lean_required}
             /\ c.preset # Null \/ c.layout # <<>>
    /\ outcome \in {"written", "none", "usage", "crash", "config_invalid", "rule_conflict"}

(***************************************************************************)
(* The exit code vouches for the bundle: when the last `new' or `gen' says *)
(* that it wrote one, and nobody has edited since, host.yaml loads to the  *)
(* config that all three other files were rendered from (#134), whatever   *)
(* was cut short, refused or left half-written before.  Of a command that  *)
(* fails nothing is claimed: it may leave files of two configurations.     *)
(***************************************************************************)
BundleIsOneConfig ==
    outcome = "written" =>
        /\ Accepts(file)
        /\ \A f \in Rendered : Effective(made[f]) = Effective(Config(file))

(***************************************************************************)
(* Writing defaults and derived values back never changes what a later     *)
(* edit means: a file that was generated in place in between loads to the  *)
(* config the same edits of the operator's own file give (#84, #134).  The *)
(* fields whose derived values are spelled out next to them may then be    *)
(* refused; the package preset alone may be followed silently by the lists *)
(* of the preset before it.                                                *)
(***************************************************************************)
SpelledOut == {"distro", "scap", "preset", "layout", "data_disks", "packages"}

EditsMeanTheSame ==
    file # Nothing /\ Accepts(source) =>
        /\ edited \cap SpelledOut = {} => Accepts(file)
        /\ Accepts(file) /\ "packages" \notin edited =>
              Effective(Config(file)) = Effective(Config(source))
=============================================================================
