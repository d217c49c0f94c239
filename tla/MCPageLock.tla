------------------------------ MODULE MCPageLock ------------------------------
(* PageLock with two clients, their pages and an old page. *)
EXTENDS PageLock

CONSTANTS c1, c2, r1, old1

MCClients  == {c1, c2}
MCReaders  == {r1}
MCOldPages == {old1}
TwoSlots   == {1, 2}

\* The clients are alike: what one of them asks for, the other does not have to.
TwoClients ==
    {<<c1, "put", c2>>, <<c1, "update", c2>>, <<c1, "update", old1>>}
        \cup {<<c2, "put", c1>>, <<c2, "remove", c2>>, <<c2, "update", old1>>}
        \cup {<<r1, "get", c2>>, <<r1, "get", old1>>}
=============================================================================
