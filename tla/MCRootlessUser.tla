--------------------------- MODULE MCRootlessUser ---------------------------
(* Small instances of RootlessUser for TLC.                                  *)
EXTENDS RootlessUser, TLC

CONSTANTS alice, bob, k1, k2, r1, r2

Fresh == [fcontext |-> {}, account |-> {}, passwd |-> [u \in User |-> "locked"],
          aging |-> {}, loose |-> {}, present |-> SubFile,
          subids |-> [f \in SubFile |-> {}],
          store |-> {}, appdata |-> {}, linger |-> {},
          keys |-> [u \in User |-> [lines |-> {}, open |-> NoKey, joined |-> {}, owner |-> "absent"]],
          units |-> [u \in User |-> [n \in 1 .. 3 |-> "absent"]]]

\* bob exists already: with no range; with a range in one file, and a password;
\* without /etc/subuid
Bare      == [Fresh EXCEPT !.account = {bob}, !.aging = {bob}, !.loose = {bob}]
Half      == [Bare EXCEPT !.subids["subgid"] = {[user |-> bob, start |-> 2, len |-> 1]},
                          !.passwd[bob] = "hash"]
Missing   == [Bare EXCEPT !.present = {"subgid"}]

A(u, k, l, q) == [user |-> u, key |-> k, linger |-> l, quadlet |-> q]
MCHosts   == {Fresh, Bare, Half, Missing}
MCArgs    == {A(alice, NoKey, TRUE, FALSE), A(bob, k1, FALSE, FALSE), A(bob, NoKey, FALSE, TRUE)}
Runs      == Permutations(Run)
=============================================================================
