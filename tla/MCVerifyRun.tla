----------------------------- MODULE MCVerifyRun -----------------------------
(* Small instances of VerifyRun for TLC.                                     *)
EXTENDS VerifyRun, TLC

CONSTANTS r1, r2, h1, x1, x2

\* The runs are interchangeable: same host, same set of command lines.
Symmetry == Permutations(Run)

MCOneHost == [r \in Run |-> h1]

\* --capture-baseline, --check-tailoring, --local with both a baseline and a
\* tailoring check, and a baseline that ends the run before it touches the host
Plain == [mode |-> "ssh", noDrift |-> FALSE, check |-> FALSE, baseline |-> "no",
          capture |-> "no"]
MCOptions == {[Plain EXCEPT !.noDrift = TRUE, !.capture = "ok"],
              [Plain EXCEPT !.check = TRUE],
              [Plain EXCEPT !.mode = "local", !.check = TRUE, !.baseline = "good"],
              [Plain EXCEPT !.baseline = "undecodable"]}
MCEvery   == Option

MCInstallScan  == [x \in Rule |-> "pass"]
MCBaselineScan == [x \in Rule |-> "fail"]
==============================================================================
