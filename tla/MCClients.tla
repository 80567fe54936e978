----------------------------- MODULE MCClients -----------------------------
(* One user with wYLDS, an administrator, and two files for one epoch: one  *)
(* with a single line and one that lists the user twice.                    *)
EXTENDS Clients, TLC

MCOwnerOf == [a \in TokenAccounts |-> IF a \in {"p1", "w1"} THEN "u1" ELSE VaultAuthority]

MCFunding == [a \in WyldsAccounts |-> IF a = "w1" THEN 2 ELSE 0]

MCFiles == {<<"u1", 2>> :> 1, <<"u1", 2>> :> 2}

MCRoots == {Root(file, e) : file \in MCFiles, e \in Indexes}

NoAdministrators == {<<>>}
OneAdministrator == {<<"x">>}
OneOrTwoAdministrators == {<<"x">>, <<"x", "x">>}
=============================================================================
