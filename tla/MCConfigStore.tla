--------------------------- MODULE MCConfigStore ---------------------------
(* Two routes to start from; edits by index, so that a concurrent delete    *)
(* shifts what the others mean.                                             *)
EXTENDS ConfigStore, TLC

R(a) == [backends |-> <<a>>]
Doc(rs, n, lv) == [routes |-> rs, tenants |-> <<>>, limit |-> n, level |-> lv]

MCStart == Doc(<<R("a"), R("b")>>, 1, "good")
MCOther == Doc(<<R("c")>>, 2, "good")
MCBad == Doc(<<R("d")>>, 3, "bad")
MCWeak == Doc(<<R("e")>>, 3, "weak")

MCEdits == {
    [kind |-> "createRoute", route |-> R("n")],
    [kind |-> "createRoute", route |-> [backends |-> <<>>]],
    [kind |-> "updateRoute", idx |-> 2, route |-> R("u")],
    [kind |-> "deleteRoute", idx |-> 1],
    [kind |-> "addBackend", idx |-> 2, addr |-> "x"],
    [kind |-> "removeBackend", idx |-> 1, addr |-> "a"],
    [kind |-> "rateLimit", limit |-> 5],
    [kind |-> "createTenant", id |-> "t", rps |-> 0],
    [kind |-> "updateTenant", id |-> "t", rps |-> 5],
    [kind |-> "deleteTenant", id |-> "t"],
    [kind |-> "config", doc |-> MCWeak]}

MCFiles == {MCStart, MCOther, MCBad, NoFile}
MCEtcd == {MCOther, MCBad}

\* Dashboard requests are interchangeable.
Interchangeable == Permutations(Handlers)
=============================================================================
