----------------------------- MODULE DeployProofs -----------------------------
(***************************************************************************)
(* Theorems about Deploy, for any configurations, bundles left over, edits,*)
(* faults and orders of the rules that respect their dependencies: every   *)
(* invariant the runs check.  First what one configuration's tailoring     *)
(* does (Policy), then the inductive invariant, then the theorems.         *)
(***************************************************************************)
EXTENDS Deploy, SequenceTheorems, WellFoundedInduction, TLAPS

-----------------------------------------------------------------------------
(***************************************************************************)
(* A tailoring, op by op.                                                  *)
(***************************************************************************)
\* The last of the two groups that names an id decides.
LEMMA MaxOfTwo ==
    ASSUME NEW S \in SUBSET {1, 2}
    PROVE  /\ 2 \in S => Max(S) = 2
           /\ S = {1} => Max(S) = 1
<1>1. 2 \in S => Max(S) = 2
  <2> SUFFICES ASSUME 2 \in S PROVE Max(S) = 2
    OBVIOUS
  <2>1. \A y \in S : 2 >= y
    OBVIOUS
  <2>2. \A x \in S : (\A y \in S : x >= y) => x = 2
    OBVIOUS
  <2> QED BY <2>1, <2>2 DEF Max
<1>2. S = {1} => Max(S) = 1
  BY DEF Max
<1> QED BY <1>1, <1>2

\* The value a configuration can set on an id.
ValueOf(c, x) ==
    CASE x = "crypto_policy" -> PolicyTarget(c)
      [] x = "unlock_time"   -> c.unlock_time
      [] x = "disk_action"   -> c.disk_action
      [] OTHER               -> c.max_log_action

(* The op a rule may put on an id.                                         *)
FormOf(c, o) ==
    \/ \E x : o = Disable(x)
    \/ \E x : o = SetValue(x, ValueOf(c, x))
    \/ o = Select("usbguard") /\ c.usbguard

\* Every op of a rule has one of these forms.
LEMMA RuleForms ==
    ASSUME NEW c, NEW r, NEW o \in RuleOf(c, r).ops
    PROVE  FormOf(c, o)
<1>1. CASE r = "crypto_policy"
  <2>1. \/ o \in DisableAll(TailoredWhenNotStig(c.distro))
        \/ o = SetValue("crypto_policy", PolicyTarget(c))
    BY <1>1 DEF RuleOf, CryptoPolicyRule, RuleObject
  <2>2. ValueOf(c, "crypto_policy") = PolicyTarget(c)
    BY DEF ValueOf
  <2> QED BY <2>1, <2>2 DEF FormOf, DisableAll
<1>2. CASE r = "auditd_actions"
  <2> DEFINE settings == Settings(c.distro)
             failing  == {s \in settings : FailsCheck(c, s)}
             values   == {SetValue(s.rule, Chosen(c, s)) : s \in settings \ failing}
  <2>1. RuleOf(c, r).ops = values \cup DisableAll({s.rule : s \in failing})
    BY <1>2 DEF RuleOf, AuditdActionsRule, RuleObject
  <2>2. \A s \in settings : Chosen(c, s) = ValueOf(c, s.rule)
    BY DEF Settings, Alma8Settings, Alma9Settings, Setting, Chosen, ValueOf
  <2>3. \/ \E x : o = Disable(x)
        \/ \E s \in settings : o = SetValue(s.rule, Chosen(c, s))
    BY <2>1 DEF DisableAll
  <2> HIDE DEF settings
  <2> QED BY <2>2, <2>3 DEF FormOf
<1>3. CASE r = "time_servers"
  BY <1>3 DEF RuleOf, TimeServersRule, RuleObject, DisableAll, FormOf
<1>4. CASE r = "faillock_safety"
  <2>1. ValueOf(c, "unlock_time") = c.unlock_time
    BY DEF ValueOf
  <2>2. o = SetValue("unlock_time", c.unlock_time) \/ \E x : o = Disable(x)
    BY <1>4 DEF RuleOf, FaillockSafetyRule, RuleObject, DisableAll
  <2> QED BY <2>1, <2>2 DEF FormOf
<1>5. CASE r = "usbguard"
  BY <1>5 DEF RuleOf, UsbguardRule, RuleObject, FormOf
<1>6. CASE r = "banner_text"
  BY <1>6 DEF RuleOf, BannerTextRule, RuleObject, FormOf
<1>7. CASE r \notin {"crypto_policy", "auditd_actions", "time_servers",
                     "faillock_safety", "usbguard", "banner_text"}
  BY <1>7 DEF RuleOf, Plain, SkelInitFilesRule, RngdEntropyRule, RuleObject
<1> QED BY <1>1, <1>2, <1>3, <1>4, <1>5, <1>6, <1>7

\* And so every op of the first group.
LEMMA OpsForms ==
    ASSUME NEW c, NEW o \in RuleOps(c)
    PROVE  FormOf(c, o)
<1>1. PICK r \in Rules : o \in RuleOf(c, r).ops
  BY DEF RuleOps, Applicable
<1> QED BY <1>1, RuleForms

(* An op disables an id exactly where the rule declares the failure.       *)
LEMMA RuleDisables ==
    ASSUME NEW c, NEW r, NEW x
    PROVE  Disable(x) \in RuleOf(c, r).ops <=> x \in RuleOf(c, r).waives
<1>1. CASE r = "crypto_policy"
  BY <1>1 DEF RuleOf, CryptoPolicyRule, RuleObject, DisableAll, Disable, SetValue, Op
<1>2. CASE r = "auditd_actions"
  <2> DEFINE settings == Settings(c.distro)
             failing  == {s \in settings : FailsCheck(c, s)}
             disabled == {s.rule : s \in failing}
             values   == {SetValue(s.rule, Chosen(c, s)) : s \in settings \ failing}
  <2>1. RuleOf(c, r).ops = values \cup DisableAll(disabled) /\ RuleOf(c, r).waives = disabled
    BY <1>2 DEF RuleOf, AuditdActionsRule, RuleObject
  <2>2. Disable(x) \notin values
    BY DEF Disable, SetValue, Op
  <2> HIDE DEF values, disabled
  <2>3. Disable(x) \in DisableAll(disabled) <=> x \in disabled
    BY DEF DisableAll, Disable, Op
  <2> QED BY <2>1, <2>2, <2>3
<1>3. CASE r = "time_servers"
  BY <1>3 DEF RuleOf, TimeServersRule, RuleObject, DisableAll, Disable, Op
<1>4. CASE r = "faillock_safety"
  BY <1>4 DEF RuleOf, FaillockSafetyRule, RuleObject, DisableAll, Disable, SetValue, Op
<1>5. CASE r = "usbguard"
  BY <1>5 DEF RuleOf, UsbguardRule, RuleObject, Select, Disable, Op
<1>6. CASE r = "banner_text"
  BY <1>6 DEF RuleOf, BannerTextRule, RuleObject, Disable, Op
<1>7. CASE r \notin {"crypto_policy", "auditd_actions", "time_servers",
                     "faillock_safety", "usbguard", "banner_text"}
  BY <1>7 DEF RuleOf, Plain, SkelInitFilesRule, RngdEntropyRule, RuleObject
<1> QED BY <1>1, <1>2, <1>3, <1>4, <1>5, <1>6, <1>7

\* What the first group disables is what the rules declare may fail.
LEMMA OpsDisable ==
    ASSUME NEW c, NEW x
    PROVE  Disable(x) \in RuleOps(c) <=> x \in UNION {o.waives : o \in Applicable(c)}
BY RuleDisables DEF RuleOps, Applicable

\* usbguard is selected or disabled, never both: no other rule knows it.
LEMMA UsbguardChoice ==
    ASSUME NEW c
    PROVE  /\ c.usbguard => /\ Select("usbguard") \in RuleOps(c)
                            /\ Disable("usbguard") \notin RuleOps(c)
           /\ ~c.usbguard => Disable("usbguard") \in RuleOps(c)
<1>1. UsbguardRule(c) \in Applicable(c)
  <2>1. RuleOf(c, "usbguard") = UsbguardRule(c) /\ UsbguardRule(c).applies
    BY DEF RuleOf, UsbguardRule, RuleObject
  <2> QED BY <2>1 DEF Applicable, Rules
<1>2. c.usbguard => \A r : "usbguard" \notin RuleOf(c, r).waives
  <2> SUFFICES ASSUME c.usbguard, NEW r PROVE "usbguard" \notin RuleOf(c, r).waives
    OBVIOUS
  <2>1. CASE r = "auditd_actions"
    BY <2>1 DEF RuleOf, AuditdActionsRule, RuleObject, Settings, Alma8Settings,
                Alma9Settings, Setting
  <2>2. CASE r \in {"crypto_policy", "time_servers", "faillock_safety"}
    BY <2>2 DEF RuleOf, CryptoPolicyRule, TimeServersRule, FaillockSafetyRule, RuleObject,
                TailoredWhenNotStig, FipsOnlyCommon, NtsRule
  <2>3. CASE r \notin {"auditd_actions", "crypto_policy", "time_servers", "faillock_safety"}
    BY <2>3 DEF RuleOf, UsbguardRule, BannerTextRule, Plain, SkelInitFilesRule,
                RngdEntropyRule, RuleObject
  <2> QED BY <2>1, <2>2, <2>3
<1>3. c.usbguard => Disable("usbguard") \notin RuleOps(c)
  BY <1>2, RuleDisables DEF RuleOps, Applicable
<1>4. UsbguardRule(c).ops = IF c.usbguard THEN {Select("usbguard")} ELSE {Disable("usbguard")}
  BY DEF UsbguardRule, RuleObject
<1> QED BY <1>1, <1>3, <1>4 DEF RuleOps

\* The fields of an op.
LEMMA OpFields ==
    ASSUME NEW x, NEW v
    PROVE  /\ Disable(x).action = "disable" /\ Disable(x).rule_id = x
           /\ Select(x).action = "select" /\ Select(x).rule_id = x
           /\ SetValue(x, v).action = "set_value" /\ SetValue(x, v).rule_id = x
           /\ SetValue(x, v).value = v
BY DEF Disable, Select, SetValue, Op

\* A tailoring selects what it selects or the profile does, and nothing disables.
LEMMA SelectedByTailoring ==
    ASSUME NEW c, NEW profile
    PROVE  SelectedIn(Tailoring(c), profile) =
             {x \in StigRules :
                /\ Disable(x) \notin RuleOps(c) \cup ExceptionOps(c)
                /\ Select(x) \in RuleOps(c) \/ x \in profile}
<1> SUFFICES ASSUME NEW x \in StigRules
             PROVE  (IF ChoiceGroups(Tailoring(c), x) = {} THEN x \in profile
                     ELSE Select(x) \in Tailoring(c)[Max(ChoiceGroups(Tailoring(c), x))])
                      <=> /\ Disable(x) \notin RuleOps(c) \cup ExceptionOps(c)
                          /\ Select(x) \in RuleOps(c) \/ x \in profile
  BY DEF SelectedIn
<1> DEFINE G == ChoiceGroups(Tailoring(c), x)
<1>1. /\ Tailoring(c)[1] = RuleOps(c) /\ Tailoring(c)[2] = ExceptionOps(c)
      /\ DOMAIN Tailoring(c) = {1, 2}
  BY DEF Tailoring
<1>2. G \in SUBSET {1, 2}
  BY <1>1 DEF ChoiceGroups
<1>3. \A o \in ExceptionOps(c) : \E y : o = Disable(y)
  BY DEF ExceptionOps, DisableAll
<1>4. 2 \in G <=> Disable(x) \in ExceptionOps(c)
  BY <1>1, <1>3, OpFields DEF ChoiceGroups, IsChoice
<1>5. Select(x) \notin ExceptionOps(c)
  BY <1>3, OpFields
<1>6. \A o \in RuleOps(c) : IsChoice(o) /\ o.rule_id = x => o \in {Disable(x), Select(x)}
  BY OpsForms, OpFields DEF FormOf, IsChoice
<1>7. 1 \in G <=> Disable(x) \in RuleOps(c) \/ Select(x) \in RuleOps(c)
  BY <1>1, <1>6, OpFields DEF ChoiceGroups, IsChoice
<1>8. Select(x) \in RuleOps(c) => Disable(x) \notin RuleOps(c)
  <2> SUFFICES ASSUME Select(x) \in RuleOps(c) PROVE Disable(x) \notin RuleOps(c)
    OBVIOUS
  <2>1. FormOf(c, Select(x))
    BY OpsForms
  <2>2. x = "usbguard" /\ c.usbguard
    BY <2>1, OpFields DEF FormOf
  <2> QED BY <2>2, UsbguardChoice
<1> HIDE DEF G
<1>9. CASE 2 \in G
  BY <1>1, <1>2, <1>4, <1>5, <1>9, MaxOfTwo DEF G
<1>10. CASE G = {1}
  BY <1>1, <1>4, <1>7, <1>8, <1>10, MaxOfTwo DEF G
<1>11. CASE G = {}
  BY <1>4, <1>7, <1>11 DEF G
<1> QED BY <1>2, <1>9, <1>10, <1>11

\* A value is the configuration's where some rule sets one.
LEMMA ValuesByTailoring ==
    ASSUME NEW c, NEW x, NEW d
    PROVE  /\ (\E v : SetValue(x, v) \in RuleOps(c)) =>
                 /\ SetValue(x, ValueOf(c, x)) \in RuleOps(c)
                 /\ ValueIn(Tailoring(c), x, d) = ValueOf(c, x)
           /\ (\A v : SetValue(x, v) \notin RuleOps(c)) =>
                 ValueIn(Tailoring(c), x, d) = d
<1> DEFINE G == ValueGroups(Tailoring(c), x)
<1>1. /\ Tailoring(c)[1] = RuleOps(c) /\ Tailoring(c)[2] = ExceptionOps(c)
      /\ DOMAIN Tailoring(c) = {1, 2}
  BY DEF Tailoring
<1>2. \A o \in ExceptionOps(c) : IsChoice(o)
  BY OpFields DEF ExceptionOps, DisableAll, IsChoice
<1>3. \A o \in RuleOps(c) : ~IsChoice(o) /\ o.rule_id = x => o = SetValue(x, ValueOf(c, x))
  BY OpsForms, OpFields DEF FormOf, IsChoice
<1>4. \A v : ~IsChoice(SetValue(x, v)) /\ SetValue(x, v).rule_id = x
  BY OpFields DEF IsChoice
<1>5. G \in SUBSET {1, 2} /\ 2 \notin G
  BY <1>1, <1>2 DEF ValueGroups
<1>6. 1 \in G <=> \E v : SetValue(x, v) \in RuleOps(c)
  BY <1>1, <1>3, <1>4 DEF ValueGroups
<1> HIDE DEF G
<1>7. CASE \E v : SetValue(x, v) \in RuleOps(c)
  <2>1. Max(G) = 1 /\ G # {}
    BY <1>5, <1>6, <1>7, MaxOfTwo
  <2>2. SetValue(x, ValueOf(c, x)) \in RuleOps(c)
    BY <1>3, <1>4, <1>7
  <2>3. (CHOOSE o \in RuleOps(c) : ~IsChoice(o) /\ o.rule_id = x) = SetValue(x, ValueOf(c, x))
    BY <1>3, <1>4, <2>2
  <2>4. ValueIn(Tailoring(c), x, d) = SetValue(x, ValueOf(c, x)).value
    BY <1>1, <2>1, <2>3 DEF ValueIn, G
  <2> QED BY <1>7, <2>2, <2>4, OpFields
<1>8. CASE \A v : SetValue(x, v) \notin RuleOps(c)
  BY <1>5, <1>6, <1>8 DEF ValueIn, G
<1> QED BY <1>7, <1>8

\* The keys compare_tailorings sees.
LEMMA KeysOfTailoring ==
    ASSUME NEW c, NEW x
    PROVE  /\ <<"disable", x>> \in Keys(Tailoring(c)) <=>
                 Disable(x) \in RuleOps(c) \cup ExceptionOps(c)
           /\ <<"select", x>> \in Keys(Tailoring(c)) <=> Select(x) \in RuleOps(c)
           /\ <<"set_value", x>> \in Keys(Tailoring(c)) <=>
                 \E v : SetValue(x, v) \in RuleOps(c)
<1>1. AllOps(Tailoring(c)) = RuleOps(c) \cup ExceptionOps(c)
  BY DEF AllOps, ToSet, Tailoring
<1>2. \A o \in ExceptionOps(c) : \E y : o = Disable(y)
  BY DEF ExceptionOps, DisableAll
<1>3. \A o \in RuleOps(c) \cup ExceptionOps(c) : 
         /\ o.action = "disable" => o = Disable(o.rule_id)
         /\ o.action = "select" => o = Select(o.rule_id) /\ o \in RuleOps(c)
         /\ o.action = "set_value" => o \in RuleOps(c) /\ o = SetValue(o.rule_id, ValueOf(c, o.rule_id))
  BY <1>2, OpsForms, OpFields DEF FormOf
<1>4. \A k : k \in Keys(Tailoring(c)) <=>
             \E o \in RuleOps(c) \cup ExceptionOps(c) : k = <<o.action, o.rule_id>>
  BY <1>1 DEF Keys, Key
<1> QED BY <1>3, <1>4, OpFields

\* Two tailorings that show no drift do the same to every profile.
LEMMA NoDriftSameEffect ==
    ASSUME NEW c, NEW d, ~HasDrift(Tailoring(c), Tailoring(d))
    PROVE  Effect(Tailoring(c)) = Effect(Tailoring(d))
<1>1. Keys(Tailoring(c)) = Keys(Tailoring(d))
  BY DEF HasDrift
<1>2. \A profile : SelectedIn(Tailoring(c), profile) = SelectedIn(Tailoring(d), profile)
  <2> TAKE profile
  <2>1. \A x : Disable(x) \in RuleOps(c) \cup ExceptionOps(c) <=>
               Disable(x) \in RuleOps(d) \cup ExceptionOps(d)
    BY <1>1, KeysOfTailoring
  <2>2. \A x : Select(x) \in RuleOps(c) <=> Select(x) \in RuleOps(d)
    BY <1>1, KeysOfTailoring
  <2> QED BY <2>1, <2>2, SelectedByTailoring
<1>3. \A x : ValueIn(Tailoring(c), x, "") = ValueIn(Tailoring(d), x, "")
  <2> TAKE x
  <2>1. (\E v : SetValue(x, v) \in RuleOps(c)) <=> (\E v : SetValue(x, v) \in RuleOps(d))
    BY <1>1, KeysOfTailoring
  <2>2. CASE \E v : SetValue(x, v) \in RuleOps(c)
    <3>1. SetValue(x, ValueOf(c, x)) \in RuleOps(c) /\ SetValue(x, ValueOf(d, x)) \in RuleOps(d)
      BY <2>1, <2>2, ValuesByTailoring
    <3>2. RuleOps(c) \subseteq AllOps(Tailoring(c)) /\ RuleOps(d) \subseteq AllOps(Tailoring(d))
      BY DEF AllOps, ToSet, Tailoring
    <3>3. Key(SetValue(x, ValueOf(c, x))) = Key(SetValue(x, ValueOf(d, x)))
      BY OpFields DEF Key
    <3>4. SetValue(x, ValueOf(c, x)).value = SetValue(x, ValueOf(d, x)).value
      BY <3>1, <3>2, <3>3, OpFields DEF HasDrift
    <3>5. ValueOf(c, x) = ValueOf(d, x)
      BY <3>4, OpFields
    <3> QED BY <2>1, <2>2, <3>5, ValuesByTailoring
  <2>3. CASE \A v : SetValue(x, v) \notin RuleOps(c)
    BY <2>1, <2>3, ValuesByTailoring
  <2> QED BY <2>2, <2>3
<1>4. [x \in StigRules |-> ValueIn(Tailoring(c), x, "")]
        = [x \in StigRules |-> ValueIn(Tailoring(d), x, "")]
  BY <1>3
<1>5. /\ SelectedIn(Tailoring(c), StigRules) = SelectedIn(Tailoring(d), StigRules)
      /\ SelectedIn(Tailoring(c), {}) = SelectedIn(Tailoring(d), {})
  BY <1>2
<1> QED BY <1>4, <1>5, Zenon DEF Effect

\* Every id the rules disable, and when.
LEMMA WaivesOf ==
    ASSUME NEW c, NEW x
    PROVE  Disable(x) \in RuleOps(c) <=>
             \/ ~KernelFips(c) /\ x \in TailoredWhenNotStig(c.distro)
             \/ \E s \in Settings(c.distro) : FailsCheck(c, s) /\ x = s.rule
             \/ ~c.nts /\ x \in NtsRule(c.distro) \ c.waived
             \/ c.faillock /\ ~c.even_deny_root /\ x = "deny_root"
             \/ ~c.usbguard /\ x = "usbguard"
             \/ x = "banner"
<1> DEFINE W(r) == Applies(c, r) /\ x \in RuleOf(c, r).waives
<1>1. Disable(x) \in RuleOps(c) <=> \E r \in Rules : W(r)
  BY OpsDisable DEF Applicable, Applies
<1>2. W("crypto_policy") <=> ~KernelFips(c) /\ x \in TailoredWhenNotStig(c.distro)
  BY DEF Applies, RuleOf, CryptoPolicyRule, RuleObject
<1>3. W("auditd_actions") <=> \E s \in Settings(c.distro) : FailsCheck(c, s) /\ x = s.rule
  BY DEF Applies, RuleOf, AuditdActionsRule, RuleObject
<1>4. W("time_servers") <=> ~c.nts /\ x \in NtsRule(c.distro) \ c.waived
  BY DEF Applies, RuleOf, TimeServersRule, RuleObject
<1>5. W("faillock_safety") <=> c.faillock /\ ~c.even_deny_root /\ x = "deny_root"
  BY DEF Applies, RuleOf, FaillockSafetyRule, RuleObject
<1>6. W("usbguard") <=> ~c.usbguard /\ x = "usbguard"
  BY DEF Applies, RuleOf, UsbguardRule, RuleObject
<1>7. W("banner_text") <=> x = "banner"
  BY DEF Applies, RuleOf, BannerTextRule, RuleObject
<1>8. \A r : W(r) => r \in {"crypto_policy", "auditd_actions", "time_servers",
                            "faillock_safety", "usbguard", "banner_text"}
  BY DEF RuleOf, Plain, SkelInitFilesRule, RngdEntropyRule, RuleObject
<1> HIDE DEF W
<1>9. {"crypto_policy", "auditd_actions", "time_servers",
       "faillock_safety", "usbguard", "banner_text"} \subseteq Rules
  BY DEF Rules
<1>10. (\E r \in Rules : W(r)) <=>
          \/ W("crypto_policy") \/ W("auditd_actions") \/ W("time_servers")
          \/ W("faillock_safety") \/ W("usbguard") \/ W("banner_text")
  BY <1>8, <1>9
<1> QED BY <1>1, <1>2, <1>3, <1>4, <1>5, <1>6, <1>7, <1>10

\* Every value the rules set, and when.
LEMMA ValuesOf ==
    ASSUME NEW c, NEW x, NEW v
    PROVE  SetValue(x, v) \in RuleOps(c) <=>
             \/ ~KernelFips(c) /\ x = "crypto_policy" /\ v = PolicyTarget(c)
             \/ \E s \in Settings(c.distro) :
                   ~FailsCheck(c, s) /\ x = s.rule /\ v = Chosen(c, s)
             \/ c.faillock /\ x = "unlock_time" /\ v = c.unlock_time
<1> DEFINE V(r) == Applies(c, r) /\ SetValue(x, v) \in RuleOf(c, r).ops
<1>1. SetValue(x, v) \in RuleOps(c) <=> \E r \in Rules : V(r)
  BY DEF RuleOps, Applicable, Applies
<1>2. \A ids : SetValue(x, v) \notin DisableAll(ids)
  BY OpFields DEF DisableAll
<1>3. \A y, w : SetValue(x, v) = SetValue(y, w) <=> x = y /\ v = w
  BY DEF SetValue, Op
<1>4. V("crypto_policy") <=> ~KernelFips(c) /\ x = "crypto_policy" /\ v = PolicyTarget(c)
  BY <1>2, <1>3 DEF Applies, RuleOf, CryptoPolicyRule, RuleObject
<1>5. V("auditd_actions") <=> \E s \in Settings(c.distro) :
                                 ~FailsCheck(c, s) /\ x = s.rule /\ v = Chosen(c, s)
  <2> DEFINE settings == Settings(c.distro)
             failing  == {s \in settings : FailsCheck(c, s)}
             values   == {SetValue(s.rule, Chosen(c, s)) : s \in settings \ failing}
  <2>1. /\ RuleOf(c, "auditd_actions").ops = values \cup DisableAll({s.rule : s \in failing})
        /\ Applies(c, "auditd_actions")
    BY DEF Applies, RuleOf, AuditdActionsRule, RuleObject
  <2>2. V("auditd_actions") <=> SetValue(x, v) \in values
    BY <1>2, <2>1
  <2> HIDE DEF V
  <2> QED BY <1>3, <2>2
<1>6. V("faillock_safety") <=> c.faillock /\ x = "unlock_time" /\ v = c.unlock_time
  BY <1>2, <1>3 DEF Applies, RuleOf, FaillockSafetyRule, RuleObject
<1>7. ~V("time_servers") /\ ~V("usbguard") /\ ~V("banner_text")
  BY <1>2, OpFields DEF RuleOf, TimeServersRule, UsbguardRule, BannerTextRule, RuleObject
<1>8. \A r : V(r) => r \in {"crypto_policy", "auditd_actions", "time_servers",
                            "faillock_safety", "usbguard", "banner_text"}
  BY DEF RuleOf, Plain, SkelInitFilesRule, RngdEntropyRule, RuleObject
<1> HIDE DEF V
<1>9. {"crypto_policy", "auditd_actions", "faillock_safety"} \subseteq Rules
  BY DEF Rules
<1>10. (\E r \in Rules : V(r)) <=>
          V("crypto_policy") \/ V("auditd_actions") \/ V("faillock_safety")
  BY <1>7, <1>8, <1>9
<1> QED BY <1>1, <1>4, <1>5, <1>6, <1>10

\* The two auditd settings.
LEMMA SettingRules ==
    ASSUME NEW c, NEW s \in Settings(c.distro)
    PROVE  s.rule \in {"disk_action", "max_log_action"}
BY DEF Settings, Alma8Settings, Alma9Settings, Setting

\* The crypto_policy rule applies to every configuration.
LEMMA CryptoPolicyApplies == ASSUME NEW c PROVE Applies(c, "crypto_policy")
BY DEF Applies, RuleOf, CryptoPolicyRule, RuleObject

\* A STIG configuration keeps the profile's crypto policy, unless it waives the rule.
LEMMA FipsPolicyTailored ==
    ASSUME NEW c, KernelFips(c), NEW content, NEW d
    PROVE  /\ ValueIn(Tailoring(c), "crypto_policy", d) = d
           /\ "crypto_policy" \notin c.waived =>
                 "crypto_policy" \in SelectedIn(Tailoring(c), Profile(c.distro, content))
           /\ RefinedValue(c.distro, content, "crypto_policy") \in FipsPolicies
<1>1. \A v : SetValue("crypto_policy", v) \notin RuleOps(c)
  BY ValuesOf, SettingRules
<1>2. Disable("crypto_policy") \notin RuleOps(c)
  BY WaivesOf, SettingRules DEF NtsRule
<1>3. Disable("crypto_policy") \in ExceptionOps(c) => "crypto_policy" \in c.waived
  BY OpFields DEF ExceptionOps, DisableAll
<1>4. "crypto_policy" \in Profile(c.distro, content) /\ "crypto_policy" \in StigRules
  BY DEF Profile, StigRules
<1>5. RefinedValue(c.distro, content, "crypto_policy") \in FipsPolicies
  BY DEF RefinedValue, FipsPolicies
<1> QED BY <1>1, <1>2, <1>3, <1>4, <1>5, ValuesByTailoring, SelectedByTailoring

-----------------------------------------------------------------------------
(***************************************************************************)
(* The inductive invariant.  The bundle's files are run.cfg once written   *)
(* (Written), the host carries what the bundle said (Carried), has what    *)
(* the blocks need (Supplied) and what oscap left (OscapLeft), and keeps   *)
(* what each block made (Settled); an install that stopped had its reason  *)
(* (Ended), and verify's verdict is of the host as it is (Judged).         *)
(***************************************************************************)
HostFields ==
    {"distro", "tailoring", "content", "scanned", "pkgs", "users", "loose", "expiring",
     "ageing", "keys", "skel_tight", "kargs", "dracut_fips", "fips_kernel", "crypto",
     "host_keys", "sshd_port", "open", "labelled", "rngd", "strong_rng",
     "even_deny_root", "unlock_time", "disk_action", "max_log_action", "chrony",
     "banner", "usbguard"}

Installed  == phase \in {"fetch", "upgrade", "oscap", "post", "reboot", "up", "verified"}
PastOscap  == phase \in {"post", "reboot", "up", "verified"}
PastReboot == phase \in {"up", "verified"}

Todos == {<<"tailoring.xml", "host.yaml", "exceptions.md", "ks.cfg">>,
          <<"host.yaml", "exceptions.md", "ks.cfg">>, <<"exceptions.md", "ks.cfg">>,
          <<"ks.cfg">>, <<>>}

Shape ==
    /\ run \in Scenarios /\ DOMAIN dir = Files /\ DOMAIN host = HostFields
    /\ todo \in Todos
    /\ phase \in {"gen", "refused", "write", "fetch", "upgrade", "oscap", "post",
                  "reboot", "up", "aborted", "verified"}
    /\ blocks \subseteq Rules /\ (blocks # {} => phase \in {"post", "aborted"})
    /\ phase = "post" => blocks \subseteq ShippedBlocks

(* What is no longer to be written has been, and ids are known by then.    *)
Written ==
    /\ \A f \in Files \ {"host.yaml"} : (\A i \in DOMAIN todo : todo[i] # f) => dir[f] = run.cfg
    /\ phase \notin {"gen", "refused"} => UnknownIds(run.cfg, KnownTo(run)) = {}
    /\ phase \notin {"gen", "refused", "write"} /\ run.fault # "gen" => todo = <<>>

(* What the host was installed with.                                       *)
Carried ==
    Installed =>
        /\ host.distro = Ks.distro /\ host.content \in {"floor", "pin"}
        /\ phase # "fetch" => host.tailoring = Tailoring(dir["tailoring.xml"])

MediaPackages(c) ==
    ({"dnf-automatic", "policycoreutils"} \cup
       (IF Applies(c, "rngd_entropy") THEN {"rng-tools"} ELSE {})) \ c.excluded

Supplied ==
    Installed =>
        /\ MediaPackages(Ks) \subseteq host.pkgs
        /\ run.fault # "user" => "admin" \in host.users
        /\ 22 \in host.open /\ 22 \in host.labelled
        /\ ~KernelFips(Ks) => "fips" \notin host.kargs

(* What oscap did, if it ran: of what it fixed, the blocks leave this.     *)
Kept(x)  == x \in SelectedIn(host.tailoring, Profile(host.distro, host.scanned))
Value(x) == ValueIn(host.tailoring, x, RefinedValue(host.distro, host.scanned, x))

Unscanned == /\ host.scanned = "none" /\ ~host.strong_rng

Repaired ==
    /\ Kept("usbguard") => host.usbguard
    /\ Kept("init_files") => host.loose = {}
    /\ Kept("deny_root") /\ ~Ks.faillock => host.even_deny_root
    /\ Kept("unlock_time") /\ ~Ks.faillock => host.unlock_time = Value("unlock_time")
    /\ Kept("crypto_policy") /\ KernelFips(Ks) /\ run.fault # "gen" =>
          host.crypto = Value("crypto_policy")

OscapLeft ==
    /\ phase \in {"fetch", "upgrade", "oscap"} => Unscanned
    /\ phase \in {"gen", "write", "fetch", "upgrade", "oscap"} => baseline = R!NoScan
    /\ PastOscap =>
          /\ host.scanned \in {"none", "floor", "pin"}
          /\ run.fault # "oscap" => host.scanned # "none"
          /\ host.strong_rng => host.distro = "alma8"
          /\ "aide" \in DOMAIN baseline => baseline["aide"] = "fail"
          /\ host.scanned # "none" => Repaired

(* What each block that has run set, and no later one touched.             *)
HasRun(r) == r \in ShippedBlocks /\ r \notin blocks

Settled ==
    PastOscap =>
        /\ HasRun("skel_init_files") => host.skel_tight = (run.fault # "skel")
        /\ HasRun("admin_user_and_keys") => "admin" \in host.users /\ host.keys
        /\ HasRun("auditd_actions") => /\ host.disk_action = Ks.disk_action
                                       /\ host.max_log_action = Ks.max_log_action
        /\ HasRun("crypto_policy") =>
              /\ host.host_keys
              /\ IF KernelFips(Ks) THEN /\ {"fips", "boot"} \subseteq host.kargs
                                        /\ host.dracut_fips /\ host.crypto \in FipsPolicies
                 ELSE host.crypto = PolicyTarget(Ks)
        /\ HasRun("faillock_safety") => host.unlock_time = Ks.unlock_time
        /\ HasRun("rngd_entropy") => host.rngd
        /\ HasRun("ssh_keep_open") => /\ Labels(Ks) => Ks.port \in host.labelled
                                      /\ Ks.firewalld_port => Ks.port \in host.open
        /\ HasRun("ssh_config_apply") => host.sshd_port = Ks.port
        /\ HasRun("time_servers") => host.chrony = ChronyDirectives(Ks)

Ended ==
    /\ phase \in {"reboot", "up", "verified"} => host.expiring = {}
    /\ PastReboot => host.fips_kernel = ("fips" \in host.kargs)
    /\ phase = "aborted" => run.fault \notin {"none", "skel", "user"} \/ SelfDefeating(Ks)

Judged ==
    phase = "verified" =>
        verdict = [rows  |-> R!BuildReport(Scan(host), baseline,
                                           ExpectedFailures(dir["host.yaml"])),
                   drift |-> HasDrift(Tailoring(dir["host.yaml"]), host.tailoring)]

(* The accounts and reports TypeOK speaks of.                              *)
Accounts ==
    /\ host.expiring \cup host.loose \subseteq host.users
    /\ host.users \subseteq {"admin", "svc"}
    /\ host.fips_kernel => PastReboot
    /\ DOMAIN baseline \subseteq StigRules /\ DOMAIN verdict.rows \subseteq StigRules

DInv == /\ Shape /\ Written /\ Carried /\ Supplied /\ OscapLeft
        /\ Settled /\ Ended /\ Judged /\ Accounts

-----------------------------------------------------------------------------
(***************************************************************************)
(* The %post blocks.  A block that ran to its end left alone all of the    *)
(* host but the settings it writes; of those, this is what it made of them.*)
(***************************************************************************)
PostStep ==
    \/ PostSkelInitFiles \/ PostAdminUserAndKeys \/ PostAuditdActions
    \/ PostBannerText \/ PostContainerHost \/ PostCryptoPolicy
    \/ PostDataDisksPreserve \/ PostFaillockSafety \/ PostPackagePurge
    \/ PostRngdEntropy \/ PostSshKeepOpen \/ PostSshConfigApply
    \/ PostTimeServers \/ PostUnattendedUpdates \/ PostOther

Writes(r) ==
    CASE r = "skel_init_files"     -> {"skel_tight"}
      [] r = "admin_user_and_keys" -> {"users", "loose", "expiring", "keys"}
      [] r = "auditd_actions"      -> {"disk_action", "max_log_action"}
      [] r = "banner_text"         -> {"banner"}
      [] r = "container_host"      -> {"users"}
      [] r = "crypto_policy"       -> {"dracut_fips", "kargs", "crypto", "host_keys"}
      [] r = "faillock_safety"     -> {"unlock_time", "even_deny_root"}
      [] r = "package_purge"       -> {"pkgs"}
      [] r = "rngd_entropy"        -> {"rngd"}
      [] r = "ssh_keep_open"       -> {"labelled", "open"}
      [] r = "ssh_config_apply"    -> {"sshd_port"}
      [] r = "time_servers"        -> {"chrony"}
      [] OTHER                     -> {}

Framed(fs) ==
    /\ DOMAIN host' = HostFields
    /\ \A f \in HostFields \ fs : host'[f] = host[f]

Finished(r) ==
    /\ Turn(r) /\ r \in Rules /\ blocks' = blocks \ {r} /\ Framed(Writes(r))
    /\ UNCHANGED <<run, dir, todo, phase, baseline, verdict>>

Wrote(r) ==
    /\ r = "skel_init_files" => host'.skel_tight = (run.fault # "skel")
    /\ r = "admin_user_and_keys" =>
          LET made == {"admin"} \ host.users
          IN  /\ host'.users = host.users \cup made
              /\ host'.loose = host.loose \cup (IF host.skel_tight THEN {} ELSE made)
              /\ host'.expiring \subseteq host.expiring \cup made
              /\ host'.keys
    /\ r = "auditd_actions" => /\ host'.disk_action = Ks.disk_action
                               /\ host'.max_log_action = Ks.max_log_action
    /\ r = "container_host" => host'.users = host.users \cup {"svc"}
    /\ r = "crypto_policy" =>
          /\ FipsPolicyHeld /\ host'.host_keys
          /\ KernelFips(Ks) => /\ host'.kargs = host.kargs \cup {"fips", "boot"}
                               /\ host'.dracut_fips /\ host'.crypto = host.crypto
          /\ ~KernelFips(Ks) => host'.kargs = host.kargs /\ host'.crypto = PolicyTarget(Ks)
    /\ r = "faillock_safety" => host'.unlock_time = Ks.unlock_time
    /\ r = "package_purge" => host'.pkgs = host.pkgs \ Ks.excluded
    /\ r = "rngd_entropy" => host'.rngd
    /\ r = "ssh_keep_open" =>
          /\ host'.labelled = host.labelled \cup (IF Labels(Ks) THEN {Ks.port} ELSE {})
          /\ host'.open = host.open \cup (IF Ks.firewalld_port THEN {Ks.port} ELSE {})
    /\ r = "ssh_config_apply" => host'.sshd_port = Ks.port
    /\ r = "time_servers" => host'.chrony = ChronyDirectives(Ks)

(* Why a block aborts the install.                                         *)
Stopped(r) ==
    /\ Turn(r) /\ Abort
    /\ \/ r = "container_host" /\ "policycoreutils" \notin host.pkgs
       \/ r = "crypto_policy" /\ ~(FipsBootReady /\ FipsPolicyHeld)
       \/ r = "data_disks_preserve" /\ run.fault = "mount"
       \/ r = "rngd_entropy" /\ "rng-tools" \notin host.pkgs
       \/ r = "ssh_keep_open" /\ Labels(Ks) /\ "policycoreutils" \notin host.pkgs
       \/ r = "ssh_config_apply" /\ ~host.host_keys
       \/ r = "unattended_updates" /\ "dnf-automatic" \notin host.pkgs

\* A block stops the install for a reason, or ends having written its settings.
LEMMA BlockEffects ==
    ASSUME DOMAIN host = HostFields, PostStep
    PROVE  \E r : Stopped(r) \/ (Finished(r) /\ Wrote(r))
<1>1. CASE PostSkelInitFiles
  <2>1. Finished("skel_init_files") /\ Wrote("skel_init_files")
    BY <1>1 DEF PostSkelInitFiles, Turn, Sets, Finished, Framed, Writes, Wrote, HostFields, Rules
  <2> QED BY <2>1
<1>2. CASE PostAdminUserAndKeys
  <2>1. Finished("admin_user_and_keys") /\ Wrote("admin_user_and_keys")
    BY <1>2 DEF PostAdminUserAndKeys, Turn, Sets, Finished, Framed, Writes, Wrote, HostFields, Rules
  <2> QED BY <2>1
<1>3. CASE PostAuditdActions
  <2>1. Finished("auditd_actions") /\ Wrote("auditd_actions")
    BY <1>3 DEF PostAuditdActions, Turn, Sets, Finished, Framed, Writes, Wrote, HostFields, Rules
  <2> QED BY <2>1
<1>4. CASE PostBannerText
  <2>1. Finished("banner_text") /\ Wrote("banner_text")
    BY <1>4 DEF PostBannerText, Turn, Sets, Finished, Framed, Writes, Wrote, HostFields, Rules
  <2> QED BY <2>1
<1>5. CASE PostContainerHost
  <2>1. CASE "policycoreutils" \in host.pkgs
    <3>1. Finished("container_host") /\ Wrote("container_host")
      BY <1>5, <2>1 DEF PostContainerHost, Turn, Sets, Finished, Framed, Writes, Wrote, HostFields, Rules
    <3> QED BY <3>1
  <2>2. CASE "policycoreutils" \notin host.pkgs
    BY <1>5, <2>2 DEF PostContainerHost, Stopped
  <2> QED BY <2>1, <2>2
<1>6. CASE PostCryptoPolicy
  <2>1. CASE FipsBootReady /\ FipsPolicyHeld
    <3>1. Finished("crypto_policy")
      BY <1>6, <2>1 DEF PostCryptoPolicy, Turn, Sets, Finished, Framed, Writes, HostFields, Rules
    <3> DEFINE h == [host EXCEPT
                       !.dracut_fips = @ \/ KernelFips(Ks),
                       !.kargs       = @ \cup (IF KernelFips(Ks) THEN {"fips", "boot"} ELSE {}),
                       !.crypto      = IF KernelFips(Ks) THEN @ ELSE PolicyTarget(Ks),
                       !.host_keys   = TRUE]
    <3>2. host' = h
      BY <1>6, <2>1 DEF PostCryptoPolicy, Sets
    <3>3. /\ h.host_keys /\ h.dracut_fips = (host.dracut_fips \/ KernelFips(Ks))
          /\ h.kargs = host.kargs \cup (IF KernelFips(Ks) THEN {"fips", "boot"} ELSE {})
          /\ h.crypto = IF KernelFips(Ks) THEN host.crypto ELSE PolicyTarget(Ks)
      BY DEF HostFields
    <3> HIDE DEF h
    <3>4. Wrote("crypto_policy")
      BY <2>1, <3>2, <3>3 DEF Wrote
    <3> QED BY <3>1, <3>4
  <2>2. CASE ~(FipsBootReady /\ FipsPolicyHeld)
    BY <1>6, <2>2 DEF PostCryptoPolicy, Stopped
  <2> QED BY <2>1, <2>2
<1>7. CASE PostDataDisksPreserve
  <2>1. CASE run.fault = "mount"
    BY <1>7, <2>1 DEF PostDataDisksPreserve, Stopped
  <2>2. CASE run.fault # "mount"
    <3>1. Finished("data_disks_preserve") /\ Wrote("data_disks_preserve")
      BY <1>7, <2>2 DEF PostDataDisksPreserve, Turn, Sets, Finished, Framed, Writes, Wrote, Rules
    <3> QED BY <3>1
  <2> QED BY <2>1, <2>2
<1>8. CASE PostFaillockSafety
  <2>1. Finished("faillock_safety") /\ Wrote("faillock_safety")
    BY <1>8 DEF PostFaillockSafety, Turn, Sets, Finished, Framed, Writes, Wrote, HostFields, Rules
  <2> QED BY <2>1
<1>9. CASE PostPackagePurge
  <2>1. Finished("package_purge") /\ Wrote("package_purge")
    BY <1>9 DEF PostPackagePurge, Turn, Sets, Finished, Framed, Writes, Wrote, HostFields, Rules
  <2> QED BY <2>1
<1>10. CASE PostRngdEntropy
  <2>1. CASE "rng-tools" \in host.pkgs
    <3>1. Finished("rngd_entropy") /\ Wrote("rngd_entropy")
      BY <1>10, <2>1 DEF PostRngdEntropy, Turn, Sets, Finished, Framed, Writes, Wrote, HostFields, Rules
    <3> QED BY <3>1
  <2>2. CASE "rng-tools" \notin host.pkgs
    BY <1>10, <2>2 DEF PostRngdEntropy, Stopped
  <2> QED BY <2>1, <2>2
<1>11. CASE PostSshKeepOpen
  <2>1. CASE Labels(Ks) /\ "policycoreutils" \notin host.pkgs
    BY <1>11, <2>1 DEF PostSshKeepOpen, Stopped
  <2>2. CASE ~(Labels(Ks) /\ "policycoreutils" \notin host.pkgs)
    <3>1. Finished("ssh_keep_open") /\ Wrote("ssh_keep_open")
      BY <1>11, <2>2 DEF PostSshKeepOpen, Turn, Sets, Finished, Framed, Writes, Wrote, HostFields, Rules
    <3> QED BY <3>1
  <2> QED BY <2>1, <2>2
<1>12. CASE PostSshConfigApply
  <2>1. CASE host.host_keys
    <3>1. Finished("ssh_config_apply") /\ Wrote("ssh_config_apply")
      BY <1>12, <2>1 DEF PostSshConfigApply, Turn, Sets, Finished, Framed, Writes, Wrote, HostFields, Rules
    <3> QED BY <3>1
  <2>2. CASE ~host.host_keys
    BY <1>12, <2>2 DEF PostSshConfigApply, Stopped
  <2> QED BY <2>1, <2>2
<1>13. CASE PostTimeServers
  <2>1. Finished("time_servers") /\ Wrote("time_servers")
    BY <1>13 DEF PostTimeServers, Turn, Sets, Finished, Framed, Writes, Wrote, HostFields, Rules
  <2> QED BY <2>1
<1>14. CASE PostUnattendedUpdates
  <2>1. CASE "dnf-automatic" \in host.pkgs
    <3>1. Finished("unattended_updates") /\ Wrote("unattended_updates")
      BY <1>14, <2>1 DEF PostUnattendedUpdates, Turn, Sets, Finished, Framed, Writes, Wrote, Rules
    <3> QED BY <3>1
  <2>2. CASE "dnf-automatic" \notin host.pkgs
    BY <1>14, <2>2 DEF PostUnattendedUpdates, Stopped
  <2> QED BY <2>1, <2>2
<1>15. CASE PostOther
  <2>1. PICK r \in {"dod_root_ca", "kernel_module_blacklist", "usbguard"} : Turn(r)
    BY <1>15 DEF PostOther
  <2>2. Finished(r) /\ Wrote(r)
    BY <1>15, <2>1 DEF PostOther, Turn, Sets, Finished, Framed, Writes, Wrote, Rules
  <2> QED BY <2>2
<1> QED BY <1>1, <1>2, <1>3, <1>4, <1>5, <1>6, <1>7, <1>8, <1>9, <1>10, <1>11,
           <1>12, <1>13, <1>14, <1>15 DEF PostStep

-----------------------------------------------------------------------------
\* A non-empty set of naturals has a least element.
LEMMA MinOfSome ==
    ASSUME NEW S \in SUBSET Nat, S # {}
    PROVE  Min(S) \in S /\ \A y \in S : Min(S) <= y
<1>1. PICK m \in S : \A y \in S : <<y, m>> \notin OpToRel(<, Nat)
  BY WFMin, NatLessThanWellFounded, Zenon
<1>2. \A y \in S : ~(y < m)
  BY <1>1 DEF OpToRel
<1>3. m \in Nat /\ \A y \in S : y \in Nat
  OBVIOUS
<1>4. \A y \in S : m =< y
  BY <1>2, <1>3
<1> QED BY <1>4 DEF Min

\* A block runs when it is there to run and what its rule depends on is not.
LEMMA TurnInOrder ==
    ASSUME Shape, NEW r, Turn(r)
    PROVE  r \in blocks /\ \A d \in DependsOn[r] : d \notin blocks
<1> DEFINE S == {i \in DOMAIN run.order : run.order[i] \in blocks}
<1>1. IsOrder(run.order)
  BY ScenarioAssumption DEF Shape
<1>2. run.order \in Seq(Rules) /\ DOMAIN run.order \subseteq Nat
  BY <1>1 DEF IsOrder
<1>3. S # {}
  BY <1>1 DEF IsOrder, ToSet, Shape, Turn
<1>4. Min(S) \in S /\ \A i \in S : Min(S) <= i
  BY <1>2, <1>3, MinOfSome
<1>5. r = run.order[Min(S)]
  BY DEF Turn, Current
<1> HIDE DEF S
<1>6. SUFFICES ASSUME NEW d \in DependsOn[r], d \in blocks PROVE FALSE
  BY <1>4, <1>5 DEF S
<1>7. PICK j \in DOMAIN run.order : run.order[j] = d
  BY <1>1, <1>6 DEF IsOrder, ToSet, Shape
<1>8. j < Min(S)
  BY <1>1, <1>4, <1>5, <1>6, <1>7 DEF IsOrder, S
<1>9. j \in S
  BY <1>6, <1>7 DEF S
<1>10. Min(S) \in Nat /\ j \in Nat
  BY <1>2, <1>4, <1>7 DEF S
<1>11. Min(S) <= j
  BY <1>4, <1>9
<1> QED BY <1>8, <1>10, <1>11

\* A block that ran keeps the invariant.
LEMMA FinishedKeeps ==
    ASSUME DInv, NEW r, Finished(r), Wrote(r)
    PROVE  DInv'
<1>1. r \in blocks /\ \A d \in DependsOn[r] : d \notin blocks
  BY TurnInOrder DEF DInv, Finished
<1>2. phase = "post" /\ phase' = "post" /\ PastOscap /\ Installed
  BY DEF Finished, Turn, PastOscap, Installed
<1>3. Ks' = Ks /\ ShippedBlocks' = ShippedBlocks
  BY DEF Finished, ShippedBlocks, Ks
<1>4. r \in ShippedBlocks
  BY <1>1, <1>2 DEF DInv, Shape
<1>5. Shape'
  BY <1>2, <1>3 DEF DInv, Shape, Finished, Framed
<1>6. Written'
  BY DEF DInv, Written, Finished, KnownTo
<1>7. Carried'
  BY DEF DInv, Carried, Finished, Framed, Writes, HostFields, Installed, Ks
<1>8. Supplied'
  BY <1>2, <1>3 DEF DInv, Supplied, Finished, Wrote, Framed, Writes, HostFields, MediaPackages
<1>9. Accounts'
  BY <1>2, <1>3 DEF DInv, Accounts, Finished, Wrote, Framed, Writes, HostFields, PastReboot
<1>10. Ended' /\ Judged'
  BY <1>2 DEF DInv, Ended, Judged, PastReboot
<1>11. Settled'
  <2>1. \A q : HasRun(q)' <=> HasRun(q) \/ q = r
    BY <1>1, <1>3, <1>4 DEF HasRun, Finished
  <2>2. \A f \in HostFields \ Writes(r) : host'[f] = host[f]
    BY DEF Finished, Framed
  <2>3. run' = run
    BY DEF Finished
  <2>4. PastOscap'
    BY <1>2 DEF PastOscap
  <2> QED
    BY <1>2, <1>3, <2>1, <2>2, <2>3, <2>4 
       DEF DInv, Settled, Wrote, Writes, HostFields, FipsPolicyHeld
<1>12. OscapLeft'
  <2>1. /\ host'.tailoring = host.tailoring /\ host'.distro = host.distro
        /\ host'.scanned = host.scanned /\ host'.strong_rng = host.strong_rng
        /\ host'.usbguard = host.usbguard
    BY DEF Finished, Framed, Writes, HostFields
  <2>2. run' = run /\ baseline' = baseline
    BY DEF Finished
  <2>3. SUFFICES ASSUME host.scanned # "none", Repaired PROVE Repaired'
    BY <1>2, <2>1, <2>2 DEF DInv, OscapLeft
  <2>4. Kept("init_files")' => host'.loose = {}
    <3> SUFFICES ASSUME host.loose = {} PROVE host'.loose = {}
      BY <2>1, <2>3 DEF Repaired, Kept
    <3>1. CASE r = "admin_user_and_keys"
      <4>1. "skel_init_files" \in ShippedBlocks
        BY DEF ShippedBlocks, Rules, Applies, RuleOf, SkelInitFilesRule, RuleObject
      <4>2. host.skel_tight = (run.fault # "skel")
        BY <1>1, <1>2, <3>1, <4>1 DEF DInv, Settled, HasRun, DependsOn, Rules
      <4>3. run.fault # "user" => "admin" \in host.users
        BY <1>2 DEF DInv, Supplied
      <4> QED BY <3>1, <4>2, <4>3 DEF Wrote
    <3>2. CASE r # "admin_user_and_keys"
      BY <3>2 DEF Finished, Framed, Writes, HostFields
    <3> QED BY <3>1, <3>2
  <2>5. Ks.faillock \/ r # "faillock_safety"
    BY <1>4 DEF ShippedBlocks, Applies, RuleOf, FaillockSafetyRule, RuleObject
  <2>6. ~Ks.faillock => /\ host'.even_deny_root = host.even_deny_root
                        /\ host'.unlock_time = host.unlock_time
    BY <2>5 DEF Finished, Framed, Writes, HostFields
  <2>7. KernelFips(Ks) => host'.crypto = host.crypto
    BY DEF Finished, Framed, Writes, HostFields, Wrote
  <2>8. \A x : Kept(x)' <=> Kept(x)
    BY <2>1 DEF Kept
  <2>9. \A x : Value(x)' = Value(x)
    BY <2>1 DEF Value
  <2> QED BY <1>3, <2>1, <2>2, <2>3, <2>4, <2>6, <2>7, <2>8, <2>9 DEF Repaired
<1> QED BY <1>5, <1>6, <1>7, <1>8, <1>9, <1>10, <1>11, <1>12 DEF DInv

\* A block that aborts had its reason.
LEMMA StoppedKeeps ==
    ASSUME DInv, NEW r, Stopped(r)
    PROVE  DInv'
<1>1. r \in blocks /\ \A d \in DependsOn[r] : d \notin blocks
  BY TurnInOrder DEF DInv, Stopped
<1>2. phase = "post" /\ PastOscap /\ Installed
  BY DEF Stopped, Turn, PastOscap, Installed
<1>3. /\ phase' = "aborted" /\ ~PastOscap' /\ ~Installed' /\ ~PastReboot'
      /\ UNCHANGED <<run, dir, todo, blocks, host, baseline, verdict>>
  BY DEF Stopped, Abort, PastOscap, PastReboot, Installed
<1>4. r \in ShippedBlocks
  BY <1>1, <1>2 DEF DInv, Shape
<1>5. (run.fault \notin {"none", "skel", "user"} \/ SelfDefeating(Ks))'
  <2> SUFFICES ASSUME run.fault \in {"none", "skel", "user"} PROVE SelfDefeating(Ks)
    BY <1>3 DEF Ks
  <2>1. MediaPackages(Ks) \subseteq host.pkgs
    BY <1>2 DEF DInv, Supplied
  <2>2. CASE r = "container_host"
    BY <1>4, <2>1, <2>2 DEF Stopped, MediaPackages, ShippedBlocks, Applies, RuleOf, Plain,
       RuleObject, SelfDefeating
  <2>3. CASE r = "crypto_policy"
    <3>1. KernelFips(Ks) /\ host.crypto \notin FipsPolicies
      BY <2>3 DEF Stopped, FipsBootReady, FipsPolicyHeld
    <3>2. ~Kept("crypto_policy") \/ Value("crypto_policy") \notin FipsPolicies
      BY <1>2, <3>1 DEF DInv, OscapLeft, Repaired
    <3>3. todo = <<>> /\ UnknownIds(run.cfg, KnownTo(run)) = {}
      BY <1>2 DEF DInv, Written
    <3>4. Ks = run.cfg /\ dir["tailoring.xml"] = run.cfg
      BY <3>3 DEF DInv, Written, Ks, Files
    <3>5. host.tailoring = Tailoring(Ks) /\ host.distro = Ks.distro
      BY <1>2, <3>4 DEF DInv, Carried
    <3>6. host.scanned \in {"floor", "pin"}
      BY <1>2 DEF DInv, OscapLeft
    <3>7. "crypto_policy" \in Ks.waived
      BY <3>1, <3>2, <3>5, <3>6, FipsPolicyTailored DEF Kept, Value
    <3> QED BY <3>1, <3>7 DEF SelfDefeating
  <2>4. CASE r = "rngd_entropy"
    <3>1. "rng-tools" \notin Ks.excluded
      BY <1>4, <2>4 DEF ShippedBlocks, Applies, RuleOf, RngdEntropyRule, Plain, RuleObject
    <3>2. Applies(Ks, "rngd_entropy")
      BY <1>4, <2>4 DEF ShippedBlocks
    <3> QED BY <2>1, <2>4, <3>1, <3>2 DEF Stopped, MediaPackages
  <2>5. CASE r = "ssh_keep_open"
    BY <2>1, <2>5 DEF Stopped, MediaPackages, SelfDefeating
  <2>6. CASE r = "ssh_config_apply"
    <3>1. "crypto_policy" \notin blocks /\ "crypto_policy" \in ShippedBlocks
      BY <1>1, <2>6, CryptoPolicyApplies DEF DependsOn, Rules, ShippedBlocks
    <3>2. host.host_keys
      BY <1>2, <3>1 DEF DInv, Settled, HasRun
    <3> QED BY <2>6, <3>2 DEF Stopped
  <2>7. CASE r = "unattended_updates"
    BY <1>4, <2>1, <2>7 DEF Stopped, MediaPackages, ShippedBlocks, Applies, RuleOf, Plain,
       RuleObject, SelfDefeating
  <2> QED BY <2>2, <2>3, <2>4, <2>5, <2>6, <2>7 DEF Stopped
<1>6. Shape'
  BY <1>3 DEF DInv, Shape, ShippedBlocks, Ks
<1>7. Written'
  BY <1>2, <1>3 DEF DInv, Written, KnownTo
<1>8. Carried' /\ Supplied' /\ Settled' /\ Judged'
  BY <1>3 DEF Carried, Supplied, Settled, Judged
<1>9. OscapLeft'
  BY <1>3 DEF OscapLeft
<1>10. Ended'
  BY <1>3, <1>5 DEF Ended
<1>11. Accounts'
  BY <1>2, <1>3 DEF DInv, Accounts, PastReboot
<1> QED BY <1>6, <1>7, <1>8, <1>9, <1>10, <1>11 DEF DInv

-----------------------------------------------------------------------------
(***************************************************************************)
(* The other steps.                                                        *)
(***************************************************************************)
\* write_bundle's list is one of file names.
LEMMA TodosAreSeqs == ASSUME NEW s \in Todos PROVE s \in Seq(Files)
<1>1. /\ "tailoring.xml" \in Files /\ "host.yaml" \in Files
      /\ "exceptions.md" \in Files /\ "ks.cfg" \in Files
  BY DEF Files
<1>2. <<"tailoring.xml", "host.yaml", "exceptions.md", "ks.cfg">> \in Seq(Files)
  BY <1>1
<1>3. <<"host.yaml", "exceptions.md", "ks.cfg">> \in Seq(Files)
  BY <1>1
<1>4. <<"exceptions.md", "ks.cfg">> \in Seq(Files)
  BY <1>1
<1>5. <<"ks.cfg">> \in Seq(Files) /\ << >> \in Seq(Files)
  BY <1>1
<1> QED BY <1>2, <1>3, <1>4, <1>5 DEF Todos

\* What write_bundle still has to write after one more file.
LEMMA TodoTail ==
    ASSUME NEW s \in Todos, s # <<>>
    PROVE  /\ Tail(s) \in Todos
           /\ \A f : (\A i \in DOMAIN Tail(s) : Tail(s)[i] # f) =>
                       f = Head(s) \/ \A i \in DOMAIN s : s[i] # f
<1>1. Tail(s) \in Todos
  <2>1. CASE s = <<"tailoring.xml", "host.yaml", "exceptions.md", "ks.cfg">>
    <3>1. Tail(s) = <<"host.yaml", "exceptions.md", "ks.cfg">>
      BY <2>1
    <3> QED BY <3>1 DEF Todos
  <2>2. CASE s = <<"host.yaml", "exceptions.md", "ks.cfg">>
    <3>1. Tail(s) = <<"exceptions.md", "ks.cfg">>
      BY <2>2
    <3> QED BY <3>1 DEF Todos
  <2>3. CASE s = <<"exceptions.md", "ks.cfg">>
    <3>1. Tail(s) = <<"ks.cfg">>
      BY <2>3
    <3> QED BY <3>1 DEF Todos
  <2>4. CASE s = <<"ks.cfg">>
    <3>1. Tail(s) = << >>
      BY <2>4
    <3> QED BY <3>1 DEF Todos
  <2> QED BY <2>1, <2>2, <2>3, <2>4 DEF Todos
<1>2. s \in Seq(Files)
  BY TodosAreSeqs
<1>3. ASSUME NEW f, \A i \in DOMAIN Tail(s) : Tail(s)[i] # f, NEW i \in DOMAIN s, f # Head(s)
      PROVE  s[i] # f
  <2>1. CASE i = 1
    BY <1>2, <1>3, <2>1
  <2>2. CASE i # 1
    <3>1. i - 1 \in DOMAIN Tail(s) /\ Tail(s)[i - 1] = s[i]
      BY <1>2, <1>3, <2>2
    <3> QED BY <1>3, <3>1
  <2> QED BY <2>1, <2>2
<1> QED BY <1>1, <1>3

\* gen's checks, and write_bundle.
LEMMA GenKeeps ==
    ASSUME DInv, GenRefuses \/ GenAccepts \/ WriteFile
    PROVE  DInv'
<1>1. /\ UNCHANGED <<run, blocks, host, baseline, verdict>>
      /\ phase \in {"gen", "write"} /\ phase' \in {"refused", "write"} 
      /\ DOMAIN dir' = Files
  BY DEF GenRefuses, GenAccepts, WriteFile, DInv, Shape
<1>2. /\ ~PastOscap' /\ ~Installed' /\ ~PastReboot' /\ ~PastReboot
      /\ phase' \notin {"fetch", "upgrade", "oscap", "reboot", "verified", "aborted", "post"}
  BY <1>1 DEF PastOscap, PastReboot, Installed
<1>3. Shape'
  BY <1>1, TodoTail DEF GenRefuses, GenAccepts, WriteFile, DInv, Shape
<1>4. Written'
  <2>1. CASE GenRefuses \/ GenAccepts
    BY <2>1 DEF GenRefuses, GenAccepts, DInv, Written, KnownTo
  <2>2. CASE WriteFile
    <3>1. /\ phase = "write" /\ phase' = "write" /\ run' = run
          /\ dir' = [dir EXCEPT ![Head(todo)] = run.cfg] /\ todo' = Tail(todo)
          /\ todo # <<>> /\ DOMAIN dir = Files
      BY <2>2 DEF WriteFile, DInv, Shape
    <3>2. \A f : (\A i \in DOMAIN todo' : todo'[i] # f) =>
                    f = Head(todo) \/ \A i \in DOMAIN todo : todo[i] # f
      BY <3>1, TodoTail DEF DInv, Shape
    <3>3. \A f \in Files : dir'[f] = IF f = Head(todo) THEN run.cfg ELSE dir[f]
      BY <3>1
    <3>4. \A f \in Files \ {"host.yaml"} :
             (\A i \in DOMAIN todo' : todo'[i] # f) => dir'[f] = run.cfg
      BY <3>1, <3>2, <3>3 DEF DInv, Written
    <3> QED BY <3>1, <3>4 DEF DInv, Written, KnownTo
  <2> QED BY <2>1, <2>2
<1>5. Carried' /\ Supplied' /\ OscapLeft' /\ Settled' /\ Judged' /\ Ended'
  BY <1>1, <1>2 DEF DInv, Carried, Supplied, OscapLeft, Settled, Judged, Ended
<1>6. Accounts'
  BY <1>1, <1>2 DEF DInv, Accounts
<1> QED BY <1>3, <1>4, <1>5, <1>6 DEF DInv

\* A host fresh from its install.
LEMMA FreshFields ==
    ASSUME NEW c, NEW b
    PROVE  /\ DOMAIN FreshHost(c, b) = HostFields
           /\ FreshHost(c, b).distro = c.distro /\ FreshHost(c, b).content = "floor"
           /\ FreshHost(c, b).pkgs = MediaPackages(c)
           /\ FreshHost(c, b).users = (IF b THEN {"admin"} ELSE {})
           /\ FreshHost(c, b).loose = (IF b THEN {"admin"} ELSE {})
           /\ FreshHost(c, b).expiring = {} /\ FreshHost(c, b).open = {22}
           /\ FreshHost(c, b).labelled = {22} /\ ~FreshHost(c, b).fips_kernel
           /\ FreshHost(c, b).kargs = (IF KernelFips(c) THEN {"fips"} ELSE {})
           /\ FreshHost(c, b).scanned = "none" /\ ~FreshHost(c, b).strong_rng
<1>1. DOMAIN FreshHost(c, b) = HostFields
  BY DEF FreshHost, HostFields
<1> QED BY <1>1 DEF FreshHost, MediaPackages

\* Anaconda starts from what is in the directory.
LEMMA InstallKeeps ==
    ASSUME DInv, Install
    PROVE  DInv'
<1>1. /\ phase = "write" /\ phase' = "fetch" /\ host' = FreshHost(Ks, run.fault # "user")
      /\ UNCHANGED <<run, dir, todo, blocks, baseline, verdict>>
      /\ run.fault # "gen" => todo = <<>>
  BY DEF Install
<1>2. ~PastOscap' /\ ~PastReboot' /\ Ks' = Ks
  BY <1>1 DEF PastOscap, PastReboot, Ks
<1>3. Shape'
  BY <1>1, FreshFields DEF DInv, Shape
<1>4. Written'
  BY <1>1 DEF DInv, Written, KnownTo
<1>5. Carried'
  BY <1>1, <1>2, FreshFields DEF Carried
<1>9. Supplied'
  BY <1>1, <1>2, FreshFields DEF Supplied
<1>6. OscapLeft'
  BY <1>1, <1>2, FreshFields DEF DInv, OscapLeft, Unscanned
<1>7. Settled' /\ Judged' /\ Ended'
  BY <1>1, <1>2 DEF Settled, Judged, Ended
<1>8. Accounts'
  BY <1>1, FreshFields DEF DInv, Accounts
<1> QED BY <1>3, <1>4, <1>5, <1>6, <1>7, <1>8, <1>9 DEF DInv

\* Before the blocks: a section that aborts.
LEMMA AbortKeeps ==
    ASSUME DInv, Abort, phase \in {"fetch", "oscap"}, 
           run.fault \notin {"none", "skel", "user"}
    PROVE  DInv'
<1>1. /\ phase' = "aborted" /\ ~PastOscap' /\ ~Installed' /\ ~PastReboot'
      /\ UNCHANGED <<run, dir, todo, blocks, host, baseline, verdict>>
  BY DEF Abort, PastOscap, PastReboot, Installed
<1>2. Shape' /\ Written'
  BY <1>1 DEF DInv, Shape, Written, KnownTo
<1>3. Carried' /\ Supplied' /\ OscapLeft' /\ Settled' /\ Judged' /\ Ended'
  BY <1>1 DEF Carried, Supplied, OscapLeft, Settled, Judged, Ended
<1>4. Accounts'
  BY <1>1 DEF DInv, Accounts, PastReboot
<1> QED BY <1>2, <1>3, <1>4 DEF DInv

\* The tailoring is fetched and the content upgraded, or not.
LEMMA FetchKeeps ==
    ASSUME DInv, FetchTailoring \/ UpgradeContent
    PROVE  DInv'
<1>1. CASE FetchTailoring /\ run.fault = "fetch"
  BY <1>1, AbortKeeps DEF FetchTailoring
<1>2. CASE (FetchTailoring /\ run.fault # "fetch") \/ UpgradeContent
  <2>1. /\ UNCHANGED <<run, dir, todo, blocks, baseline, verdict>>
        /\ phase \in {"fetch", "upgrade"} /\ phase' \in {"upgrade", "oscap"}
        /\ DOMAIN host' = HostFields
        /\ \A f \in HostFields \ {"tailoring", "content"} : host'[f] = host[f]
    BY <1>2 DEF FetchTailoring, UpgradeContent, DInv, Shape, HostFields
  <2>2. /\ ~PastOscap' /\ ~PastReboot /\ ~PastReboot' /\ Installed /\ Ks' = Ks
    BY <2>1 DEF PastOscap, PastReboot, Installed, Ks
  <2>3. Shape' /\ Written'
    BY <2>1 DEF DInv, Shape, Written, KnownTo
  <2>4. Carried'
    <3>1. CASE FetchTailoring /\ run.fault # "fetch"
      BY <2>1, <2>2, <3>1 DEF FetchTailoring, DInv, Shape, Carried, HostFields
    <3>2. CASE UpgradeContent
      BY <2>1, <2>2, <3>2 DEF UpgradeContent, DInv, Shape, Carried, HostFields
    <3> QED BY <1>2, <3>1, <3>2
  <2>5. Supplied'
    BY <2>1, <2>2 DEF DInv, Supplied, HostFields
  <2>6. OscapLeft'
    BY <2>1, <2>2 DEF DInv, OscapLeft, Unscanned, HostFields
  <2>7. Settled' /\ Judged' /\ Ended'
    BY <2>1, <2>2 DEF Settled, Judged, Ended
  <2>8. Accounts'
    BY <2>1, <2>2 DEF DInv, Accounts, HostFields
  <2> QED BY <2>3, <2>4, <2>5, <2>6, <2>7, <2>8 DEF DInv
<1> QED BY <1>1, <1>2

\* What oscap changes.
LEMMA FixedFields ==
    ASSUME NEW h, NEW b, DOMAIN h = HostFields
    PROVE  /\ DOMAIN Fixed(h, b) = HostFields
           /\ \A f \in {"distro", "tailoring", "content", "pkgs", "users", "expiring", "open",
                        "labelled", "kargs", "fips_kernel"} : Fixed(h, b)[f] = h[f]
           /\ Fixed(h, b).scanned = h.content
           /\ Fixed(h, b).strong_rng = (h.distro = "alma8")
           /\ Fixed(h, b).crypto = (IF b THEN "FIPS:STIG"
                                    ELSE IF "crypto_policy" \in SelectedOn(h)
                                    THEN Wanted(h, "crypto_policy") ELSE h.crypto)
           /\ "usbguard" \in SelectedOn(h) => Fixed(h, b).usbguard
           /\ "deny_root" \in SelectedOn(h) => Fixed(h, b).even_deny_root
           /\ "unlock_time" \in SelectedOn(h) =>
                 Fixed(h, b).unlock_time = Wanted(h, "unlock_time")
           /\ Fixed(h, b).loose = IF "init_files" \in SelectedOn(h) THEN {} ELSE h.loose
BY DEF Fixed, HostFields

\* Nothing repairs aide.
LEMMA AideFails ==
    ASSUME NEW h, "aide" \in DOMAIN Scan(h)
    PROVE  Scan(h)["aide"] = "fail"
BY DEF Scan, Result, Satisfies, ChronyRules

\* oscap remediates, or fails and is swallowed.
LEMMA RemediateKeeps ==
    ASSUME DInv, Remediate
    PROVE  DInv'
<1>1. CASE run.fault = "mismatch"
  BY <1>1, AbortKeeps DEF Remediate
<1>2. CASE run.fault # "mismatch"
  <2>1. /\ phase = "oscap" /\ phase' = "post" /\ blocks' = ShippedBlocks
        /\ UNCHANGED <<run, dir, todo, verdict>>
    BY <1>2 DEF Remediate
  <2>2. /\ Installed /\ PastOscap' /\ Ks' = Ks /\ ShippedBlocks' = ShippedBlocks
        /\ ~PastReboot /\ ~PastReboot'
    BY <2>1 DEF Installed, PastOscap, PastReboot, Ks, ShippedBlocks
  <2>3. ShippedBlocks \subseteq Rules
    BY DEF ShippedBlocks
  <2>4. Written' /\ Settled' /\ Judged' /\ Ended'
    BY <2>1, <2>2 DEF DInv, Written, KnownTo, Settled, HasRun, Judged, Ended
  <2>5. CASE run.fault = "oscap"
    <3>1. UNCHANGED <<host, baseline>>
      BY <1>2, <2>5 DEF Remediate
    <3>2. Shape'
      BY <2>1, <2>2, <2>3, <3>1 DEF DInv, Shape
    <3>3. Carried' /\ Supplied'
      BY <2>1, <2>2, <3>1 DEF DInv, Carried, Supplied
    <3>4. Accounts'
      BY <2>1, <2>2, <3>1 DEF DInv, Accounts
    <3>5. baseline = R!NoScan
      BY <2>1 DEF DInv, OscapLeft, Unscanned
    <3>6. OscapLeft'
      BY <2>1, <2>2, <2>5, <3>1, <3>5 DEF DInv, OscapLeft, Unscanned, R!NoScan
    <3> QED BY <2>4, <3>2, <3>3, <3>4, <3>6 DEF DInv
  <2>6. CASE run.fault # "oscap"
    <3>1. PICK b \in (IF host.content = "pin" /\ host.distro # "alma10" THEN BOOLEAN ELSE {FALSE}) :
             host' = Fixed(host, b) /\ baseline' = Scan(host')
      BY <1>2, <2>6 DEF Remediate
    <3>2. DOMAIN host' = HostFields
          /\ \A f \in {"distro", "tailoring", "content", "pkgs", "users", "expiring", "open",
                       "labelled", "kargs", "fips_kernel"} : host'[f] = host[f]
      BY <3>1, FixedFields DEF DInv, Shape
    <3>3. Shape'
      BY <2>1, <2>2, <2>3, <3>2 DEF DInv, Shape
    <3>4. Carried' /\ Supplied'
      BY <2>1, <2>2, <3>2 DEF DInv, Carried, Supplied
    <3>5. SelectedOn(host') \subseteq StigRules
      BY DEF SelectedOn, SelectedIn
    <3>6. host'.loose \subseteq host.loose
      BY <3>1, FixedFields DEF DInv, Shape
    <3>7. Accounts'
      BY <2>1, <2>2, <3>1, <3>2, <3>5, <3>6 DEF DInv, Accounts, Scan
    <3>8. /\ host'.scanned = host.content /\ host.content \in {"floor", "pin"}
          /\ host'.strong_rng => host'.distro = "alma8"
      <4>1. host'.scanned = host.content /\ host'.strong_rng = (host.distro = "alma8")
        BY <3>1, FixedFields DEF DInv, Shape
      <4> QED BY <2>2, <3>2, <4>1 DEF DInv, Carried
    <3>9. "aide" \in DOMAIN baseline' => baseline'["aide"] = "fail"
      BY <3>1, AideFails
    <3>10. \A x : Kept(x)' <=> x \in SelectedOn(host)
      BY <3>2, <3>8 DEF Kept, SelectedOn
    <3>11. \A x : Value(x)' = Wanted(host, x)
      BY <3>2, <3>8 DEF Value, Wanted
    <3>12. Kept("crypto_policy")' /\ KernelFips(Ks) /\ run.fault # "gen" =>
              host'.crypto = Value("crypto_policy")'
      <4> SUFFICES ASSUME Kept("crypto_policy")', KernelFips(Ks), run.fault # "gen"
                   PROVE  host'.crypto = Wanted(host, "crypto_policy")
        BY <3>11
      <4>1. CASE ~b
        BY <3>1, <3>10, <4>1, FixedFields DEF DInv, Shape
      <4>2. CASE b
        <5>1. host.content = "pin" /\ host.distro # "alma10" /\ host'.crypto = "FIPS:STIG"
          BY <3>1, <4>2, FixedFields DEF DInv, Shape
        <5>2. host.tailoring = Tailoring(Ks)
          <6>1. todo = <<>>
            BY <2>1 DEF DInv, Written
          <6>2. Ks = dir["tailoring.xml"]
            BY <6>1 DEF DInv, Written, Ks, Files
          <6> QED BY <2>1, <2>2, <6>2 DEF DInv, Carried
        <5>3. Wanted(host, "crypto_policy")
                = RefinedValue(host.distro, host.content, "crypto_policy")
          BY <5>2, FipsPolicyTailored DEF Wanted
        <5> QED BY <5>1, <5>3 DEF RefinedValue
      <4> QED BY <3>1, <4>1, <4>2
    <3>13. Repaired'
      <4>1. Kept("usbguard")' => host'.usbguard
        BY <3>1, <3>10, FixedFields DEF DInv, Shape
      <4>2. Kept("init_files")' => host'.loose = {}
        BY <3>1, <3>10, FixedFields DEF DInv, Shape
      <4>3. Kept("deny_root")' => host'.even_deny_root
        BY <3>1, <3>10, FixedFields DEF DInv, Shape
      <4>4. Kept("unlock_time")' => host'.unlock_time = Value("unlock_time")'
        BY <3>1, <3>10, <3>11, FixedFields DEF DInv, Shape
      <4> QED BY <2>1, <2>2, <3>12, <4>1, <4>2, <4>3, <4>4 DEF Repaired
    <3>14. OscapLeft'
      BY <2>1, <2>2, <3>8, <3>9, <3>13 DEF OscapLeft
    <3> QED BY <2>4, <3>3, <3>4, <3>7, <3>14 DEF DInv
  <2> QED BY <2>5, <2>6
<1> QED BY <1>1, <1>2

\* The ageing section touches nothing but the expiries.
LEMMA ClearAgeingKeeps ==
    ASSUME DInv, ClearAgeing
    PROVE  DInv'
<1>1. /\ phase = "post" /\ blocks = {} /\ phase' = "reboot"
      /\ UNCHANGED <<run, dir, todo, blocks, baseline, verdict>>
      /\ DOMAIN host' = HostFields /\ host'.expiring = {}
      /\ \A f \in HostFields \ {"expiring"} : host'[f] = host[f]
  BY DEF ClearAgeing, DInv, Shape, HostFields
<1>2. /\ PastOscap /\ PastOscap' /\ Installed /\ ~PastReboot /\ ~PastReboot'
      /\ Ks' = Ks /\ ShippedBlocks' = ShippedBlocks
  BY <1>1 DEF PastOscap, PastReboot, Installed, Ks, ShippedBlocks
<1>3. Shape' /\ Written' /\ Ended' /\ Judged'
  BY <1>1, <1>2 DEF DInv, Shape, Written, KnownTo, Ended, Judged
<1>4. Carried' /\ Supplied'
  BY <1>1, <1>2 DEF DInv, Carried, Supplied, HostFields
<1>5. (\A x : Kept(x)' <=> Kept(x)) /\ (\A x : Value(x)' = Value(x))
  BY <1>1 DEF Kept, Value, HostFields
<1>6. OscapLeft'
  BY <1>1, <1>2, <1>5 DEF DInv, OscapLeft, Repaired, HostFields
<1>7. Settled'
  BY <1>1, <1>2 DEF DInv, Settled, HasRun, HostFields
<1>8. Accounts'
  BY <1>1, <1>2 DEF DInv, Accounts, HostFields
<1> QED BY <1>3, <1>4, <1>6, <1>7, <1>8 DEF DInv

\* The command line of a host that reaches its reboot lets it boot.
LEMMA CommandLine ==
    ASSUME DInv, phase = "reboot"
    PROVE  IF KernelFips(Ks) THEN {"fips", "boot"} \subseteq host.kargs
                             ELSE "fips" \notin host.kargs
<1>1. HasRun("crypto_policy")
  BY CryptoPolicyApplies DEF HasRun, ShippedBlocks, Rules, DInv, Shape
<1> QED BY <1>1 DEF DInv, Settled, Supplied, PastOscap, Installed

\* The reboot reads the command line.
LEMMA BootKeeps ==
    ASSUME DInv, Boot
    PROVE  DInv'
<1>1. /\ phase = "reboot" /\ phase' = "up"
      /\ UNCHANGED <<run, dir, todo, blocks, baseline, verdict>>
      /\ DOMAIN host' = HostFields /\ host'.fips_kernel = ("fips" \in host.kargs)
      /\ \A f \in HostFields \ {"fips_kernel"} : host'[f] = host[f]
  BY CommandLine DEF Boot, DInv, Shape, HostFields
<1>2. /\ PastOscap /\ PastOscap' /\ Installed /\ PastReboot'
      /\ Ks' = Ks /\ ShippedBlocks' = ShippedBlocks
  BY <1>1 DEF PastOscap, PastReboot, Installed, Ks, ShippedBlocks
<1>3. Shape' /\ Written' /\ Ended' /\ Judged'
  BY <1>1, <1>2 DEF DInv, Shape, Written, KnownTo, Ended, Judged, HostFields
<1>4. Carried' /\ Supplied'
  BY <1>1, <1>2 DEF DInv, Carried, Supplied, HostFields
<1>5. (\A x : Kept(x)' <=> Kept(x)) /\ (\A x : Value(x)' = Value(x))
  BY <1>1 DEF Kept, Value, HostFields
<1>6. OscapLeft'
  BY <1>1, <1>2, <1>5 DEF DInv, OscapLeft, Repaired, HostFields
<1>7. Settled'
  BY <1>1, <1>2 DEF DInv, Settled, HasRun, HostFields
<1>8. Accounts'
  BY <1>1, <1>2 DEF DInv, Accounts, HostFields
<1> QED BY <1>3, <1>4, <1>6, <1>7, <1>8 DEF DInv

\* What oscap did was done with the content of then.
LEMMA TimerUpgradeKeeps ==
    ASSUME DInv, TimerUpgrade
    PROVE  DInv'
<1>1. /\ phase = "up" /\ phase' = "up" /\ host'.content = "pin"
      /\ UNCHANGED <<run, dir, todo, blocks, baseline, verdict>>
      /\ DOMAIN host' = HostFields
      /\ \A f \in HostFields \ {"content"} : host'[f] = host[f]
  BY DEF TimerUpgrade, DInv, Shape, HostFields
<1>2. /\ PastOscap /\ PastOscap' /\ Installed /\ PastReboot /\ PastReboot'
      /\ Ks' = Ks /\ ShippedBlocks' = ShippedBlocks
  BY <1>1 DEF PastOscap, PastReboot, Installed, Ks, ShippedBlocks
<1>3. Shape' /\ Written' /\ Ended' /\ Judged'
  BY <1>1, <1>2 DEF DInv, Shape, Written, KnownTo, Ended, Judged, HostFields
<1>4. Carried' /\ Supplied'
  BY <1>1, <1>2 DEF DInv, Carried, Supplied, HostFields
<1>5. (\A x : Kept(x)' <=> Kept(x)) /\ (\A x : Value(x)' = Value(x))
  BY <1>1 DEF Kept, Value, HostFields
<1>6. OscapLeft'
  BY <1>1, <1>2, <1>5 DEF DInv, OscapLeft, Repaired, HostFields
<1>7. Settled'
  BY <1>1, <1>2 DEF DInv, Settled, HasRun, HostFields
<1>8. Accounts'
  BY <1>1, <1>2 DEF DInv, Accounts, HostFields
<1> QED BY <1>3, <1>4, <1>6, <1>7, <1>8 DEF DInv

\* Nothing but host.yaml is edited, and verify only judges.
LEMMA EditKeeps ==
    ASSUME DInv, Edit \/ Verify \/ UNCHANGED vars
    PROVE  DInv'
<1>1. /\ UNCHANGED <<run, todo, blocks, host, baseline>> /\ DOMAIN dir' = Files
      /\ \A f \in Files \ {"host.yaml"} : dir'[f] = dir[f]
      /\ \/ phase' = phase
         \/ phase = "up" /\ phase' = "verified"
  BY DEF Edit, Verify, vars, DInv, Shape
<1>2. Ks' = Ks /\ dir'["tailoring.xml"] = dir["tailoring.xml"]
  BY <1>1 DEF Ks, Files
<1>3. /\ PastOscap' = PastOscap /\ Installed' = Installed /\ PastReboot' = PastReboot
      /\ ShippedBlocks' = ShippedBlocks
  BY <1>1, <1>2 DEF PastOscap, Installed, PastReboot, ShippedBlocks
<1>4. Shape' /\ Written'
  BY <1>1, <1>2, <1>3 DEF DInv, Shape, Written, KnownTo
<1>5. Carried' /\ Supplied'
  BY <1>1, <1>2, <1>3 DEF DInv, Carried, Supplied, PastReboot
<1>6. (\A x : Kept(x)' <=> Kept(x)) /\ (\A x : Value(x)' = Value(x))
  BY <1>1 DEF Kept, Value
<1>7. OscapLeft'
  BY <1>1, <1>2, <1>3, <1>6 DEF DInv, OscapLeft, Repaired, Unscanned
<1>8. Settled'
  BY <1>1, <1>2, <1>3 DEF DInv, Settled, HasRun
<1>9. Ended'
  BY <1>1, <1>2, <1>3 DEF DInv, Ended
<1>10. CASE Verify
  <2>1. Judged'
    BY <1>1, <1>10 DEF Verify, Judged
  <2>2. DOMAIN verdict'.rows \subseteq StigRules
    BY <1>10 DEF Verify, R!BuildReport, Scan, SelectedOn, SelectedIn
  <2>3. Accounts'
    BY <1>1, <1>3, <2>2 DEF DInv, Accounts
  <2> QED BY <1>4, <1>5, <1>7, <1>8, <1>9, <2>1, <2>3 DEF DInv
<1>11. CASE Edit \/ UNCHANGED vars
  <2>1. Judged'
    BY <1>11 DEF Edit, vars, DInv, Judged
  <2>2. Accounts'
    BY <1>1, <1>3, <1>11 DEF Edit, vars, DInv, Accounts
  <2> QED BY <1>4, <1>5, <1>7, <1>8, <1>9, <2>1, <2>2 DEF DInv
<1> QED BY <1>10, <1>11

\* Each step keeps the invariant.
LEMMA NextKeeps == DInv /\ [Next]_vars => DInv'
<1> SUFFICES ASSUME DInv, [Next]_vars PROVE DInv'
  OBVIOUS
<1>1. CASE PostStep
  <2>1. PICK r : Stopped(r) \/ (Finished(r) /\ Wrote(r))
    BY <1>1, BlockEffects DEF DInv, Shape
  <2> QED BY <2>1, StoppedKeeps, FinishedKeeps
<1>2. CASE ~PostStep
  BY <1>2, GenKeeps, InstallKeeps, FetchKeeps, RemediateKeeps, ClearAgeingKeeps, BootKeeps,
     TimerUpgradeKeeps, EditKeeps DEF Next, PostStep
<1> QED BY <1>1, <1>2

\* It holds before gen runs.
LEMMA InitHolds == Init => DInv
<1> SUFFICES ASSUME Init PROVE DInv
  OBVIOUS
<1>1. ~PastOscap /\ ~Installed /\ ~PastReboot
  BY DEF Init, PastOscap, Installed, PastReboot
<1>2. Shape
  BY FreshFields DEF Init, Shape, Todos
<1>3. Written
  <2>1. \A f \in Files : \E i \in DOMAIN todo : todo[i] = f
    <3>1. DOMAIN todo = 1..4 /\ todo[1] = "tailoring.xml" /\ todo[2] = "host.yaml"
          /\ todo[3] = "exceptions.md" /\ todo[4] = "ks.cfg"
      BY DEF Init
    <3> QED BY <3>1 DEF Files
  <2> QED BY <2>1 DEF Init, Written
<1>4. Carried /\ Supplied /\ OscapLeft /\ Settled /\ Ended /\ Judged
  BY <1>1 DEF Init, Carried, Supplied, OscapLeft, Settled, Ended, Judged
<1>5. Accounts
  BY <1>1, FreshFields DEF Init, Accounts, NoVerdict, R!NoScan
<1> QED BY <1>2, <1>3, <1>4, <1>5 DEF DInv

(***************************************************************************)
(* The invariant holds throughout: of the bundle, the host and the         *)
(* verdict, in every order of the blocks that respects DEPENDS_ON,         *)
(* whatever fails.                                                         *)
(***************************************************************************)
THEOREM DeployInvariant == Spec => []DInv
BY InitHolds, NextKeeps, PTL DEF Spec

-----------------------------------------------------------------------------
\* The suffixes of write_bundle's list.
LEMMA TodosAreSuffixes ==
    ASSUME NEW s \in Todos
    PROVE  IsSuffix(s, <<"tailoring.xml", "host.yaml", "exceptions.md", "ks.cfg">>)
<1> DEFINE all == <<"tailoring.xml", "host.yaml", "exceptions.md", "ks.cfg">>
<1>1. /\ Len(s) \in 0..4 /\ Len(all) = 4
      /\ \A i \in 1..Len(s) : s[i] = all[i + 4 - Len(s)]
  <2>1. CASE s = all
    BY <2>1
  <2>2. CASE s = <<"host.yaml", "exceptions.md", "ks.cfg">>
    BY <2>2
  <2>3. CASE s = <<"exceptions.md", "ks.cfg">>
    BY <2>3
  <2>4. CASE s = <<"ks.cfg">>
    BY <2>4
  <2>5. CASE s = << >>
    BY <2>5
  <2> QED BY <2>1, <2>2, <2>3, <2>4, <2>5 DEF Todos
<1> HIDE DEF all
<1>2. /\ Len(Reverse(s)) = Len(s) /\ Len(Reverse(all)) = 4
      /\ \A i \in 1..Len(s) : Reverse(s)[i] = s[Len(s) - i + 1]
      /\ \A i \in 1..4 : Reverse(all)[i] = all[4 - i + 1]
  BY <1>1 DEF Reverse
<1>3. \A i \in 1..Len(s) : Reverse(s)[i] = Reverse(all)[i]
  <2> SUFFICES ASSUME NEW i \in 1..Len(s) PROVE Reverse(s)[i] = Reverse(all)[i]
    OBVIOUS
  <2>1. Len(s) - i + 1 \in 1..Len(s) /\ i \in 1..4
    BY <1>1
  <2>2. s[Len(s) - i + 1] = all[Len(s) - i + 1 + 4 - Len(s)]
    BY <1>1, <2>1
  <2>3. Len(s) - i + 1 + 4 - Len(s) = 4 - i + 1
    BY <1>1
  <2> QED BY <1>2, <2>1, <2>2, <2>3
<1>4. SubSeq(Reverse(s), 1, Len(s)) = SubSeq(Reverse(all), 1, Len(s))
  <2>1. s \in Seq(Files) /\ all \in Seq(Files)
    BY TodosAreSeqs DEF Todos, all
  <2>2. Reverse(s) \in Seq(Files) /\ Reverse(all) \in Seq(Files)
    BY <2>1 DEF Reverse
  <2>3. \A i \in 1..Len(s) : Reverse(s)[i] \in Files /\ Reverse(all)[i] \in Files
    <3> TAKE i \in 1..Len(s)
    <3>1. i \in 1..4
      <4>1. Len(s) \in Nat /\ Len(s) <= 4
        BY <1>1
      <4> QED BY <4>1
    <3>2. 1..Len(Reverse(s)) = 1..Len(s) /\ 1..Len(Reverse(all)) = 1..4
      BY <1>2
    <3>3. i \in 1..Len(Reverse(s)) /\ i \in 1..Len(Reverse(all))
      BY <3>1, <3>2, Zenon
    <3> QED BY <2>2, <3>3, ElementOfSeq
  <2> DEFINE p == SubSeq(Reverse(s), 1, Len(s))
             q == SubSeq(Reverse(all), 1, Len(s))
  <2>4. /\ p \in Seq(Files) /\ Len(p) = Len(s)
        /\ \A i \in 1..Len(s) : p[i] = Reverse(s)[i]
    BY <1>1, <2>3, SubSeqProperties
  <2>5. /\ q \in Seq(Files) /\ Len(q) = Len(s)
        /\ \A i \in 1..Len(s) : q[i] = Reverse(all)[i]
    BY <1>1, <2>3, SubSeqProperties
  <2> HIDE DEF p, q
  <2>6. p = q
    BY <1>3, <2>4, <2>5, SeqEqual
  <2> QED BY <2>6 DEF p, q
<1>5. IsPrefix(Reverse(s), Reverse(all))
  <2>1. Len(s) <= 4
    BY <1>1
  <2> QED BY <1>2, <1>4, <2>1, Zenon DEF IsPrefix
<1> QED BY <1>5 DEF IsSuffix, all

(***************************************************************************)
(* Type correctness: the files go out in write_bundle's order, blocks are  *)
(* left only in %post, and only a finished install has booted.             *)
(***************************************************************************)
THEOREM DeployTyped == Spec => []TypeOK
<1>1. DInv => TypeOK
  <2> SUFFICES ASSUME DInv PROVE TypeOK
    OBVIOUS
  <2>1. run.fault \in Faults /\ ToSet(run.order) = Rules
    BY ScenarioAssumption DEF DInv, Shape, IsOrder
  <2>2. IsSuffix(todo, <<"tailoring.xml", "host.yaml", "exceptions.md", "ks.cfg">>)
    BY TodosAreSuffixes DEF DInv, Shape
  <2> QED BY <2>1, <2>2 DEF DInv, Shape, Accounts, PastReboot, TypeOK
<1> QED BY <1>1, DeployInvariant, PTL

(***************************************************************************)
(* A STIG host that boots has kernel FIPS and a FIPS policy, whatever the  *)
(* configuration, whichever bundle lay there before, wherever gen was cut  *)
(* and whatever failed in %post (crypto_policy's %post, --erroronfail).    *)
(***************************************************************************)
THEOREM StigFailsClosed == Spec => []FailClosed
<1>1. DInv => FailClosed
  <2> SUFFICES ASSUME DInv, PastReboot, KernelFips(Ks)
               PROVE  /\ host.fips_kernel /\ "boot" \in host.kargs
                      /\ host.crypto \in FipsPolicies
    BY DEF FailClosed, PastReboot
  <2>1. HasRun("crypto_policy") /\ PastOscap
    BY CryptoPolicyApplies DEF HasRun, ShippedBlocks, Rules, DInv, Shape, PastReboot, PastOscap
  <2> QED BY <2>1 DEF DInv, Settled, Ended
<1> QED BY <1>1, DeployInvariant, PTL

(***************************************************************************)
(* Whatever configuration host.yaml holds by now, if its tailoring would   *)
(* select other rules or set other values than the installed one, in any   *)
(* profile, compare_tailorings reports drift.                              *)
(***************************************************************************)
THEOREM DriftIsAlwaysSeen == Spec => []DriftIsSeen
<1>1. DInv => DriftIsSeen
  <2> SUFFICES ASSUME DInv, phase = "verified", ~verdict.drift
               PROVE  Effect(Tailoring(dir["host.yaml"])) = Effect(host.tailoring)
    BY DEF DriftIsSeen
  <2>1. host.tailoring = Tailoring(dir["tailoring.xml"])
    BY DEF DInv, Carried, Installed
  <2>2. ~HasDrift(Tailoring(dir["host.yaml"]), host.tailoring)
    BY DEF DInv, Judged
  <2> QED BY <2>1, <2>2, NoDriftSameEffect
<1> QED BY <1>1, DeployInvariant, PTL

\* A booted host has had every block its configuration ships.
LEMMA BootedBlocks ==
    ASSUME DInv, PastReboot, NEW r \in Rules, Applies(Ks, r)
    PROVE  HasRun(r)
BY DEF HasRun, ShippedBlocks, DInv, Shape, PastReboot

\* These blocks are in every kickstart.
LEMMA AlwaysApply ==
    ASSUME NEW c, NEW r \in {"admin_user_and_keys", "crypto_policy", "ssh_config_apply",
                             "time_servers", "auditd_actions", "skel_init_files"}
    PROVE  Applies(c, r) /\ r \in Rules
BY DEF Applies, RuleOf, Plain, CryptoPolicyRule, TimeServersRule, AuditdActionsRule,
       SkelInitFilesRule, RuleObject, Rules

(***************************************************************************)
(* No install locks its operator out: only a fault or a configuration that *)
(* defeats itself aborts it, no boot gets stuck, and a booted host has an  *)
(* admin with a key, sshd on the configured, open and labelled port, no    *)
(* expiring account and a fed entropy pool.                                *)
(***************************************************************************)
THEOREM NobodyLockedOut == Spec => []Reachable
<1>1. DInv => Reachable
  <2> SUFFICES ASSUME DInv PROVE Reachable
    OBVIOUS
  <2>1. phase # "stuck"
    BY DEF DInv, Shape
  <2>2. phase = "aborted" => run.fault \notin {"none", "skel", "user"} \/ SelfDefeating(Ks)
    BY DEF DInv, Ended
  <2>3. ASSUME PastReboot
        PROVE  /\ "admin" \in host.users /\ host.keys /\ host.expiring = {}
               /\ host.sshd_port = Ks.port /\ Opened(Ks)
               /\ host.strong_rng => host.rngd \/ "rng-tools" \in Ks.excluded
    <3>1. PastOscap /\ Installed /\ phase \in {"up", "verified"}
      BY <2>3 DEF PastReboot, PastOscap, Installed
    <3>2. "admin" \in host.users /\ host.keys /\ host.sshd_port = Ks.port
      BY <2>3, <3>1, BootedBlocks, AlwaysApply DEF DInv, Settled
    <3>3. host.expiring = {}
      BY <3>1 DEF DInv, Ended
    <3>4. Opened(Ks)
      <4>1. Ks.firewalld_port \/ Ks.selinux_port => HasRun("ssh_keep_open")
        <5>1. RuleOf(Ks, "ssh_keep_open").applies = (Ks.firewalld_port \/ Ks.selinux_port)
          BY DEF RuleOf, Plain, RuleObject
        <5> QED BY <2>3, <5>1, BootedBlocks DEF Rules, Applies
      <4>2. Ks.firewalld_port => Ks.port \in host.open
        BY <3>1, <4>1 DEF DInv, Settled
      <4>3. Ks.selinux_port /\ Ks.port # 22 => Ks.port \in host.labelled
        BY <3>1, <4>1 DEF DInv, Settled, Labels
      <4>4. 22 \in host.open /\ 22 \in host.labelled
        BY <3>1 DEF DInv, Supplied
      <4> QED BY <3>2, <4>2, <4>3, <4>4 DEF Opened
    <3>5. ASSUME host.strong_rng, "rng-tools" \notin Ks.excluded PROVE host.rngd
      <4>1. Ks.distro = "alma8"
        BY <3>1, <3>5 DEF DInv, OscapLeft, Carried
      <4>2. Applies(Ks, "rngd_entropy") /\ "rngd_entropy" \in Rules
        BY <3>5, <4>1 DEF Applies, RuleOf, RngdEntropyRule, RuleObject, Rules
      <4> QED BY <2>3, <3>1, <4>2, BootedBlocks DEF DInv, Settled
    <3> QED BY <3>2, <3>3, <3>4, <3>5
  <2> QED BY <2>1, <2>2, <2>3 DEF Reachable, PastReboot
<1> QED BY <1>1, DeployInvariant, PTL

\* Unless gen was cut, all of the bundle is of one configuration, whose ids are known.
LEMMA OneBundle ==
    ASSUME DInv, Installed, run.fault # "gen"
    PROVE  /\ Ks = run.cfg /\ dir["tailoring.xml"] = run.cfg
           /\ Ks.distro \in Distros /\ Ks.waived \subseteq KnownIds(Ks.distro)
<1>1. todo = <<>> /\ UnknownIds(run.cfg, KnownTo(run)) = {}
  BY DEF DInv, Written, Installed
<1>2. Ks = run.cfg /\ dir["tailoring.xml"] = run.cfg
  BY <1>1 DEF DInv, Written, Ks, Files
<1>3. run.cfg.distro \in Distros
  BY ScenarioAssumption DEF DInv, Shape
<1> QED BY <1>1, <1>2, <1>3 DEF UnknownIds, KnownTo

\* The expected failures are what the tailoring deselects of what a profile can select.
LEMMA WaiversDeselect ==
    ASSUME NEW c, c.distro \in Distros, c.waived \subseteq KnownIds(c.distro)
    PROVE  LET known == KnownIds(c.distro) \cup TailoredWhenNotStig(c.distro)
           IN  ExpectedFailures(c) = known \ SelectedIn(Tailoring(c), known)
<1> DEFINE known == KnownIds(c.distro) \cup TailoredWhenNotStig(c.distro)
<1>1. known \subseteq StigRules
  BY DEF KnownIds, Profile, TailoredWhenNotStig, FipsOnlyCommon, StigRules, ChronyRules
<1>2. \A x : Disable(x) \in ExceptionOps(c) <=> x \in c.waived
  BY OpFields DEF ExceptionOps, DisableAll
<1>3. \A x : Disable(x) \in RuleOps(c) => x \in known
  <2> SUFFICES ASSUME NEW x, Disable(x) \in RuleOps(c) PROVE x \in known
    OBVIOUS
  <2>1. CASE \E s \in Settings(c.distro) : FailsCheck(c, s) /\ x = s.rule
    BY <2>1 DEF Settings, Alma8Settings, Alma9Settings, Setting, KnownIds, Profile, Distros
  <2>2. CASE x \in NtsRule(c.distro)
    BY <2>2 DEF NtsRule, KnownIds, Profile
  <2>3. CASE x \in {"deny_root", "usbguard", "banner"} \cup TailoredWhenNotStig(c.distro)
    BY <2>3 DEF KnownIds, Profile
  <2> QED BY <2>1, <2>2, <2>3, WaivesOf
<1>4. ExpectedFailures(c) = {x \in known : Disable(x) \in RuleOps(c) \cup ExceptionOps(c)}
  <2> HIDE DEF known
  <2>1. \A x : x \in ExpectedFailures(c) <=> x \in c.waived \/ Disable(x) \in RuleOps(c)
    BY OpsDisable DEF ExpectedFailures
  <2>2. c.waived \subseteq known
    BY DEF known
  <2> QED BY <1>2, <1>3, <2>1, <2>2
<1> HIDE DEF known
<1>5. known \ SelectedIn(Tailoring(c), known)
        = {x \in known : Disable(x) \in RuleOps(c) \cup ExceptionOps(c)}
  BY <1>1, SelectedByTailoring
<1> QED BY <1>4, <1>5 DEF known

(***************************************************************************)
(* What exceptions.md and verify declare as expected failures is what the  *)
(* installed tailoring deselects, for every distro and configuration whose *)
(* ids gen accepted.                                                       *)
(***************************************************************************)
THEOREM WaiversDeployed == Spec => []WaiversAreReal
<1>1. DInv => WaiversAreReal
  <2> SUFFICES ASSUME DInv, PastReboot, run.fault # "gen" PROVE
        LET known == KnownIds(host.distro) \cup TailoredWhenNotStig(host.distro)
        IN  ExpectedFailures(Ks) = known \ SelectedIn(host.tailoring, known)
    BY DEF WaiversAreReal, PastReboot
  <2>1. Installed /\ phase # "fetch"
    BY DEF PastReboot, Installed
  <2>2. host.tailoring = Tailoring(Ks) /\ host.distro = Ks.distro
    BY <2>1, OneBundle DEF DInv, Carried
  <2> QED BY <2>1, <2>2, OneBundle, WaiversDeselect
<1> QED BY <1>1, DeployInvariant, PTL

-----------------------------------------------------------------------------
(***************************************************************************)
(* The promise: what the scan selects, and nobody declared, passes.        *)
(***************************************************************************)
\* The only rule that a tailoring selects.
LEMMA OnlyUsbguardSelected ==
    ASSUME NEW c, NEW x, Select(x) \in RuleOps(c)
    PROVE  x = "usbguard"
<1>1. FormOf(c, Select(x))
  BY OpsForms
<1> QED BY <1>1, OpFields DEF FormOf

\* What a tailoring wants of an auditd setting.
LEMMA SettingWanted ==
    ASSUME NEW c, NEW s \in Settings(c.distro), NEW d, Disable(s.rule) \notin RuleOps(c)
    PROVE  /\ ValueIn(Tailoring(c), s.rule, d) = Chosen(c, s)
           /\ s.reads \/ Chosen(c, s) \in s.accepts
<1>1. ~FailsCheck(c, s)
  BY WaivesOf
<1>2. SetValue(s.rule, Chosen(c, s)) \in RuleOps(c)
  BY <1>1, ValuesOf
<1>3. ValueOf(c, s.rule) = Chosen(c, s)
  BY SettingRules DEF ValueOf, Chosen
<1> QED BY <1>1, <1>2, <1>3, ValuesByTailoring DEF FailsCheck

\* What is enough for a check to pass.
LEMMA SatisfiesWhen ==
    ASSUME NEW h, NEW x
    PROVE  /\ x \in {"fips_common", "fips_booted"} /\ h.fips_kernel => Satisfies(h, x)
           /\ x = "fips_dracut" /\ h.dracut_fips => Satisfies(h, x)
           /\ x = "crypto_policy" /\ h.crypto = Wanted(h, x) => Satisfies(h, x)
           /\ x = "deny_root" /\ h.even_deny_root => Satisfies(h, x)
           /\ x = "unlock_time" /\ h.unlock_time = Wanted(h, x) => Satisfies(h, x)
           /\ x \in {"disk_action", "max_log_action"} /\
              (\E s \in Settings(h.distro) :
                 /\ s.rule = x
                 /\ IF s.reads THEN h[x] = Wanted(h, x) ELSE h[x] \in s.accepts)
                => Satisfies(h, x)
           /\ x \in ChronyRules \cup {"set_nts"} /\ x \in h.chrony => Satisfies(h, x)
           /\ x = "usbguard" /\ h.usbguard => Satisfies(h, x)
           /\ x = "init_files" /\ h.loose = {} => Satisfies(h, x)
<1>1. x \in {"fips_common", "fips_booted"} /\ h.fips_kernel => Satisfies(h, x)
  BY DEF Satisfies, ChronyRules
<1>2. x = "fips_dracut" /\ h.dracut_fips => Satisfies(h, x)
  BY DEF Satisfies, ChronyRules
<1>3. x = "crypto_policy" /\ h.crypto = Wanted(h, x) => Satisfies(h, x)
  BY DEF Satisfies, ChronyRules
<1>4. x = "deny_root" /\ h.even_deny_root => Satisfies(h, x)
  BY DEF Satisfies, ChronyRules
<1>5. x = "unlock_time" /\ h.unlock_time = Wanted(h, x) => Satisfies(h, x)
  BY DEF Satisfies, ChronyRules
<1>6. ASSUME x \in {"disk_action", "max_log_action"},
             \E s \in Settings(h.distro) :
                 /\ s.rule = x
                 /\ IF s.reads THEN h[x] = Wanted(h, x) ELSE h[x] \in s.accepts
      PROVE  Satisfies(h, x)
  BY <1>6 DEF Satisfies, ChronyRules
<1>7. x \in ChronyRules \cup {"set_nts"} /\ x \in h.chrony => Satisfies(h, x)
  BY DEF Satisfies, ChronyRules
<1>8. x = "usbguard" /\ h.usbguard => Satisfies(h, x)
  BY DEF Satisfies, ChronyRules
<1>9. x = "init_files" /\ h.loose = {} => Satisfies(h, x)
  BY DEF Satisfies, ChronyRules
<1> QED BY <1>1, <1>2, <1>3, <1>4, <1>5, <1>6, <1>7, <1>8, <1>9

\* A selected rule that no failure is declared for passes.
LEMMA UndeclaredPasses ==
    ASSUME DInv, Remediated, ~(Ks.faillock /\ Ks.even_deny_root),
           NEW x \in SelectedOn(host), x \notin ExpectedFailures(Ks), x # "aide", x # "rngd"
    PROVE  Satisfies(host, x)
<1>1. /\ phase = "verified" /\ PastReboot /\ PastOscap /\ Installed
      /\ run.fault # "gen" /\ host.scanned = host.content
  BY DEF Remediated, PastReboot, PastOscap, Installed
<1>2. /\ host.tailoring = Tailoring(Ks) /\ host.distro = Ks.distro
      /\ host.content \in {"floor", "pin"} /\ Ks.distro \in Distros
  BY <1>1, OneBundle DEF DInv, Carried
<1>3. Repaired
  BY <1>1, <1>2 DEF DInv, OscapLeft
<1>4. Kept(x) /\ Wanted(host, x) = Value(x)
  BY <1>1 DEF Kept, Value, SelectedOn, Wanted
<1>5. /\ Disable(x) \notin RuleOps(Ks) /\ x \notin Ks.waived
  BY OpsDisable DEF ExpectedFailures
<1>6. x \in StigRules /\ (x = "usbguard" \/ x \in Profile(Ks.distro, host.content))
  BY <1>2, SelectedByTailoring, OnlyUsbguardSelected DEF SelectedOn
<1>7. /\ HasRun("crypto_policy") /\ HasRun("time_servers") /\ HasRun("auditd_actions")
  BY <1>1, BootedBlocks, AlwaysApply
<1>8. CASE x \in {"fips_common", "fips_booted", "fips_dracut"}
  <2>1. KernelFips(Ks)
    <3>1. x \in TailoredWhenNotStig(Ks.distro)
      BY <1>6, <1>8 DEF Profile, ChronyRules, TailoredWhenNotStig, FipsOnlyCommon
    <3> QED BY <1>5, <3>1, WaivesOf
  <2>2. host.fips_kernel /\ host.dracut_fips
    BY <1>1, <1>7, <2>1 DEF DInv, Settled, Ended
  <2> QED BY <1>8, <2>2, SatisfiesWhen
<1>9. CASE x = "crypto_policy"
  <2>1. CASE KernelFips(Ks)
    BY <1>1, <1>3, <1>4, <1>9, <2>1, SatisfiesWhen DEF Repaired
  <2>2. CASE ~KernelFips(Ks)
    <3>1. host.crypto = PolicyTarget(Ks)
      BY <1>1, <1>7, <2>2 DEF DInv, Settled
    <3>2. SetValue("crypto_policy", PolicyTarget(Ks)) \in RuleOps(Ks)
      BY <2>2, ValuesOf
    <3>3. Wanted(host, x) = PolicyTarget(Ks)
      BY <1>2, <1>9, <3>2, ValuesByTailoring DEF Wanted, ValueOf
    <3> QED BY <1>9, <3>1, <3>3, SatisfiesWhen
  <2> QED BY <2>1, <2>2
<1>10. CASE x = "deny_root"
  <2>1. ~Ks.faillock
    BY <1>5, <1>10, WaivesOf
  <2> QED BY <1>3, <1>4, <1>10, <2>1, SatisfiesWhen DEF Repaired
<1>11. CASE x = "unlock_time"
  <2>1. CASE Ks.faillock
    <3>1. host.unlock_time = Ks.unlock_time
      <4>1. Applies(Ks, "faillock_safety") /\ "faillock_safety" \in Rules
        BY <2>1 DEF Applies, RuleOf, FaillockSafetyRule, RuleObject, Rules
      <4> QED BY <1>1, <4>1, BootedBlocks DEF DInv, Settled
    <3>2. SetValue("unlock_time", Ks.unlock_time) \in RuleOps(Ks)
      BY <2>1, ValuesOf
    <3>3. Wanted(host, x) = Ks.unlock_time
      BY <1>2, <1>11, <3>2, ValuesByTailoring DEF Wanted, ValueOf
    <3> QED BY <1>11, <3>1, <3>3, SatisfiesWhen
  <2>2. CASE ~Ks.faillock
    BY <1>3, <1>4, <1>11, <2>2, SatisfiesWhen DEF Repaired
  <2> QED BY <2>1, <2>2
<1>12. CASE x \in {"disk_action", "max_log_action"}
  <2>1. PICK s \in Settings(Ks.distro) : s.rule = x
    BY <1>2, <1>6, <1>12 DEF Profile, ChronyRules, Distros, Settings, Alma8Settings,
       Alma9Settings, Setting
  <2>2. host[x] = Chosen(Ks, s)
    BY <1>1, <1>7, <1>12, <2>1 DEF DInv, Settled, Chosen
  <2>3. Wanted(host, x) = Chosen(Ks, s) /\ (s.reads \/ Chosen(Ks, s) \in s.accepts)
    BY <1>2, <1>5, <2>1, SettingWanted DEF Wanted
  <2>4. \E t \in Settings(host.distro) :
           t.rule = x /\ IF t.reads THEN host[x] = Wanted(host, x) ELSE host[x] \in t.accepts
    BY <1>2, <2>1, <2>2, <2>3
  <2> QED BY <1>12, <2>4, SatisfiesWhen
<1>13. CASE x \in ChronyRules \cup {"set_nts"}
  <2>1. host.chrony = ChronyDirectives(Ks)
    BY <1>1, <1>7 DEF DInv, Settled
  <2>2. x = "set_nts" => Ks.nts
    <3> SUFFICES ASSUME x = "set_nts" PROVE Ks.nts
      OBVIOUS
    <3>1. x \in NtsRule(Ks.distro) \ Ks.waived
      BY <1>5, <1>6 DEF Profile, ChronyRules, NtsRule
    <3> QED BY <1>5, <3>1, WaivesOf
  <2>3. x \in host.chrony
    BY <1>5, <1>13, <2>1, <2>2 DEF ChronyDirectives, ChronyRules
  <2> QED BY <1>13, <2>3, SatisfiesWhen
<1>14. CASE x \in {"usbguard", "init_files"}
  BY <1>3, <1>4, <1>14, SatisfiesWhen DEF Repaired
<1>15. x # "banner"
  BY <1>5, WaivesOf
<1> QED BY <1>6, <1>8, <1>9, <1>10, <1>11, <1>12, <1>13, <1>14, <1>15 DEF StigRules

\* Nobody answers for aide.
LEMMA AideIsNobodys ==
    ASSUME NEW c PROVE "aide" \notin ManagedRules(c)
<1>1. \A r : "aide" \notin RuleOf(c, r).affected
  <2> TAKE r
  <2>1. CASE r = "auditd_actions"
    BY <2>1, SettingRules DEF RuleOf, AuditdActionsRule, RuleObject
  <2>2. CASE r # "auditd_actions"
    BY <2>2 DEF RuleOf, CryptoPolicyRule, TimeServersRule, FaillockSafetyRule, UsbguardRule,
       BannerTextRule, SkelInitFilesRule, RngdEntropyRule, Plain, RuleObject, ChronyRules,
       TailoredWhenNotStig, FipsOnlyCommon, NtsRule
  <2> QED BY <2>1, <2>2
<1> QED BY <1>1 DEF ManagedRules, Applicable

\* A result that is no failure is clean, declared or not.
LEMMA CleanResult ==
    ASSUME NEW r \in {"pass", "notapplicable"}, NEW i, NEW e
    PROVE  R!Categorize(r, i, e) = "clean"
BY DEF R!Categorize, R!CleanCurrentStates, R!IncompleteStates

(***************************************************************************)
(* The promise of managed_rule_ids: a host installed from one bundle and   *)
(* scanned with the content it was remediated with passes every rule that  *)
(* ks-gen claims to enforce, and regresses in none, for every              *)
(* configuration without faillock's even_deny_root.                        *)
(***************************************************************************)
THEOREM PromiseIsKept == Spec => []PromiseKept
<1>1. DInv => PromiseKept
  <2> SUFFICES ASSUME DInv, Remediated, ~(Ks.faillock /\ Ks.even_deny_root)
               PROVE  /\ NoFailing(verdict.rows, ManagedRules(Ks))
                      /\ \A x \in DOMAIN verdict.rows : verdict.rows[x].category # "regression"
    BY DEF PromiseKept
  <2> DEFINE expected == ExpectedFailures(Ks)
             Category(x) == R!Categorize(Result(host, x), R!InstallState(baseline, x), x \in expected)
  <2>1. dir["host.yaml"] = Ks
    BY OneBundle DEF Remediated, Installed
  <2>2. /\ DOMAIN verdict.rows = SelectedOn(host)
        /\ \A x \in SelectedOn(host) : verdict.rows[x].category = Category(x)
    BY <2>1 DEF DInv, Judged, Remediated, R!BuildReport, Scan
  <2>3. ASSUME NEW x \in SelectedOn(host), x # "aide" \/ x \in expected
        PROVE  Category(x) \in {"clean", "expected_fail"}
    <3>1. CASE x \in expected
      <4>1. Result(host, x) \in {"pass", "fail", "notapplicable"}
        BY DEF Result
      <4> QED BY <3>1, <4>1 DEF R!Categorize, R!CleanCurrentStates, R!IncompleteStates
    <3>2. CASE x \notin expected
      <4>1. Result(host, x) \in {"pass", "notapplicable"}
        BY <2>3, <3>2, UndeclaredPasses DEF Result
      <4> QED BY <4>1, CleanResult
    <3> QED BY <3>1, <3>2
  <2>4. "aide" \in SelectedOn(host) => Category("aide") \in {"new_fail", "expected_fail"}
    <3>1. Result(host, "aide") = "fail"
      BY DEF Result, Satisfies, ChronyRules
    <3>2. R!InstallState(baseline, "aide") \in {"fail", "none"}
      BY DEF R!InstallState, R!NoResult, DInv, OscapLeft, PastOscap, Remediated
    <3> QED BY <3>1, <3>2 DEF R!Categorize, R!CleanCurrentStates, R!IncompleteStates
  <2> HIDE DEF Category, expected
  <2>5. NoFailing(verdict.rows, ManagedRules(Ks))
    BY <2>2, <2>3, AideIsNobodys DEF NoFailing, R!FailingCategory
  <2> QED BY <2>2, <2>3, <2>4, <2>5
<1> QED BY <1>1, DeployInvariant, PTL
=============================================================================
