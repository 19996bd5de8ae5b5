---------------------------- MODULE ObjectSyncMC ----------------------------
(* Instances of ObjectSync for TLC. *)
EXTENDS ObjectSync

App == [name |-> <<"app">>, ns |-> <<"default">>]
RootCA == [name |-> <<"kube", "root", "ca.crt">>, ns |-> <<"default">>]

\* Two objects whose names meet on the host: a-x-b in c, and a in b-x-c.
ClashKeys == {[name |-> <<"a", "x", "b">>, ns |-> <<"c">>],
              [name |-> <<"a">>, ns |-> <<"b", "x", "c">>]}

\* An object with a host name of its own beside two that share theirs.
MCKeys == ClashKeys \cup {App, RootCA}
MCSystemKeys == {RootCA}
NoKeys == {}
=============================================================================
