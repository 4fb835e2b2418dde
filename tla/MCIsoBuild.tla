----------------------------- MODULE MCIsoBuild -----------------------------
(* Small instances of IsoBuild for TLC.                                      *)
EXTENDS IsoBuild

L(f, n)  == [form |-> f, name |-> n]
AL9      == L("alma", "9-8")
AL10     == L("alma", "10-2")
Custom   == L("other", "WEB01")
Spaced   == L("spaced", "WEB 01")
MCLabel  == {NoLabel, AL9, AL10, L("ksal", "9-8"), L("ksal", "10-2"), Custom, Spaced, Marker}
            \cup {Loader(c) : c \in CfgName}

\* A vendor menu: install, then check the medium and install (the default)
Menu(c, l) ==
    LET e == [ours |-> FALSE, marker |-> NoLabel, loader |-> Loader(c),
              refs |-> [r \in RefName |-> IF r = "stage2" THEN l ELSE NoLabel]]
    IN  [root |-> IF c = "isolinux" THEN NoLabel ELSE l, entries |-> <<e, e>>, default |-> 2]
Medium(l, cs, esp) == [state |-> "whole", volid |-> l, esp |-> esp, ks |-> "none",
                       cfg |-> [c \in CfgName |-> IF c \in cs THEN Menu(c, l) ELSE NoConfig]]
NoEntries(iso, c) == [iso EXCEPT !.cfg[c].entries = <<>>]

El9   == Medium(AL9, {"isolinux", "efi", "esp"}, "file")
El10  == Medium(AL10, {"bios", "efi", "esp"}, "appended")

\* Both releases, and media that are refused for one reason each
MCShelf == [p \in Path |->
    CASE p = "el9"     -> El9
      [] p = "el10"    -> El10
      [] p = "remix"   -> Medium(Custom, {"efi"}, "none")
      [] p = "noefi"   -> Medium(AL9, {"isolinux"}, "none")
      [] p = "nomenu"  -> NoEntries(El10, "bios")
      [] p = "espmenu" -> NoEntries(El9, "esp")
      [] p = "espless" -> Medium(AL9, {"isolinux", "efi"}, "file")
      [] p = "twoesps" -> Medium(AL9, {"isolinux", "efi"}, "several")
      [] OTHER         -> Unusable("missing")]

Output   == {"out1", "out2"}
InPlace(c) == c.src = c.out
\* Flags and bad labels matter before the source is opened: one source suffices.
\* The first output is out1, and a rebuild of it goes to out2 or back, or onto
\* itself; one vendor medium may be overwritten by its own build as well.
MCChain  == {c \in [src : Path, out : {"el9"} \cup Output, volid : {NoLabel, Custom, Spaced},
                    net : {"auto", "yes", "no"}] :
    /\ c.net # "auto" \/ c.out = "el9" => c.src = "el9" /\ c.volid = NoLabel
    /\ c.volid = Spaced => c.src = "el9"
    /\ c.src \notin Output => c.out = "out1" \/ InPlace(c)}
=============================================================================
