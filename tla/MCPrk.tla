------------------------------- MODULE MCPrk -------------------------------
EXTENDS Prk, TLC

Ask(op, name, url, to, force, project) ==
    [op |-> op, name |-> name, url |-> url, to |-> to, force |-> force, project |-> project]
Plain(op, name, url) == Ask(op, name, url, None, FALSE, None)

MCHostNames ==
    [u \in Url |-> IF u = "acme.example" THEN <<"acme", "acme-2">> ELSE <<"globex", "globex-2">>]
MCDeployed == [u \in Url |-> IF u = "acme.example" THEN "i1" ELSE "i2"]
OnlyFirst == [allow |-> {"i1"}, tie |-> None, local |-> None, localProfile |-> None]

Played(menu, terminals, commands, faults, outside) ==
    [menu |-> menu, terminals |-> terminals, commands |-> commands, faults |-> faults, outside |-> outside]

RenameAway == Ask("rename", "default", None, "acme", FALSE, None)
RenameBack == Ask("rename", "acme", None, "default", FALSE, None)
Reuse == Ask("add", "default", "globex.example", None, TRUE, None)
AddAcme == Plain("add", "acme", "acme.example")
InProject == Ask("run", None, None, None, FALSE, OnlyFirst)
Writes == Ask("run", None, None, None, TRUE, None)
LoginThere == Plain("login", "acme", "globex.example")

\* Names and what they mean.
NameMenu ==
    {RenameAway, RenameBack, Reuse, Plain("add", "default", "globex.example"),
     Plain("forget", "default", None), Plain("remove", "acme", None),
     Plain("login", None, "globex.example"), Plain("run", None, "acme.example")}

\* A stored session that is renewed, replaced, revoked and cleared.
SessionMenu ==
    {Plain("run", "default", None), Plain("login", "default", None), Plain("logout", None, None),
     Plain("remove", "default", None)}

\* Two servers and profiles that are chosen in every way.
ServerMenu ==
    {Plain("login", None, "acme.example"), LoginThere, InProject, Writes, AddAcme,
     Plain("use", "acme", None), Plain("logoutAll", None, None)}

MCMenu ==
    [names |-> NameMenu, sessions |-> SessionMenu, servers |-> ServerMenu,
     locks |-> {RenameAway, Plain("use", "default", None), Plain("run", "default", None)}]

MCScenes ==
    {Played("names", 2, 3, 0, 0), Played("names", 1, 4, 0, 0), Played("locks", 2, 4, 1, 0),
     Played("sessions", 2, 3, 1, 0), Played("servers", 2, 2, 0, 1), Played("servers", 1, 3, 0, 1)}

Terminals == Permutations(Proc)
=============================================================================
