------------------------------ MODULE MCDaemon ------------------------------
(* Instances of Daemon for TLC. *)
EXTENDS Daemon

Entry(name, flags, mask) == [kind |-> "access", name |-> name, flags |-> flags, mask |-> mask]
Include(f) == [kind |-> "include", file |-> f]
Say(kind, value) == [kind |-> kind, value |-> value]

\* Everything in two files; one file without the entry; files that include each other.
Split == "main" :> <<Include("extra"), Entry("root", "A", "m1")>> @@ "extra" :> <<Say("splitserv", "yes")>>
Single == "main" :> <<Say("settings", "no"), Say("splitserv", "unset")>> @@ "extra" :> <<>>
Looped == "main" :> <<Include("extra"), Say("splitserv", "yes")>> @@ "extra" :> <<Include("main"), Entry("root", "o", "m2")>>

AllDisks == {Split, Single, Looped}

\* m1 is the address of the users, m2 names a nick and an ident.
TheMatches == "m1" :> (Users \X Nicks \X Idents) @@ "m2" :> (Users \X {"n2"} \X {"i2"})

AllScopes == {
    [moves |-> {"users", "access"}, disks |-> {Split}, masks |-> {"m1", "m2"}],
    [moves |-> {"access", "save"}, disks |-> {Split, Single}, masks |-> {"m2"}],
    [moves |-> {"access", "save", "exempts"}, disks |-> {Split}, masks |-> {"m1"}],
    [moves |-> {"splits", "save"}, disks |-> {Split, Single}, masks |-> {}],
    [moves |-> {}, disks |-> AllDisks, masks |-> {}]}

=============================================================================
