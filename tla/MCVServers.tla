----------------------------- MODULE MCVServers -----------------------------
(* Values of the constants of VServers for TLC: interface names of which   *)
(* one begins with another, and plans of an administrator that keep to the *)
(* rules or break one each.                                                *)
EXTENDS VServers

DevNames == {"eth1", "eth10", "eth2"}
NameStarts == {<<d, d>> : d \in DevNames} \cup {<<"eth10", "eth1">>}

Networks == {"n", "m", "p"}    \* the client is in the first two
Addresses == {"c", "before"}
CoversC == [n \in Networks |-> IF n = "p" THEN {} ELSE {"c"}]
BeforeAll == [n \in Networks |-> "before"]

Server1(net, dev) == [name |-> "A", id |-> 1, net |-> net, dev |-> dev]
Server2(net, dev) == [name |-> "B", id |-> 2, net |-> net, dev |-> dev]
Empty == [name |-> NoName, id |-> 1, net |-> NoNet, dev |-> NoDev]

Kept(configs) ==
    [configs |-> configs, clients |-> {"c"}, copies |-> FALSE, classdir |-> TRUE,
     logfile |-> TRUE, reliable |-> TRUE, polls |-> FALSE]

SharedDev == Kept({Server1("n", "eth1"), Server2("n", "eth1"),
                   Server1("m", "eth2")})
OwnDevs == Kept({Server1("n", "eth1"), Server2("n", "eth2")})
NumberMoves == Kept({Server1("n", "eth1"),
                     [Server1("n", "eth1") EXCEPT !.id = 2],
                     [Server2("n", "eth1") EXCEPT !.id = 1]})
DevMoves == Kept({Server1("n", "eth1"), Server1("n", "eth2")})
DevPrefix == Kept({Server1("n", "eth1"), Server2("n", "eth10")})
Copies == [Kept({Server1("n", "eth1"), Server1("m", "eth1")})
              EXCEPT !.copies = TRUE]
NoClassDir == [Kept({Server1("n", "eth1")}) EXCEPT !.classdir = FALSE]
NoLogFile == [Kept({Server1("n", "eth1")}) EXCEPT !.logfile = FALSE]
Polling == [Kept({Server1("n", "eth1"), Server1("m", "eth1")})
               EXCEPT !.polls = TRUE]
NetMoves == Kept({Server1("n", "eth1"), Server1("p", "eth1")})
Unreliable == [NetMoves EXCEPT !.reliable = FALSE]
Incomplete == Kept({Server1("n", "eth1"), Server1(NoNet, "eth1"), Empty})
NoInterface == Kept({Server1("n", "eth1"), Server2("n", NoDev)})

AllPlans == {SharedDev, OwnDevs, NumberMoves, DevMoves, DevPrefix, Copies,
             NoClassDir, NoLogFile, Polling, NetMoves, Unreliable,
             Incomplete, NoInterface}
=============================================================================
