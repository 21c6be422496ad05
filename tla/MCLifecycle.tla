---------------------------- MODULE MCLifecycle ----------------------------
(* Two tables, one within the other, and the hooks of main: the watcher,    *)
(* the listener, the gateway and StopAll.                                   *)
EXTENDS Lifecycle

MCTables == {{"b1"}, {"b1", "b2"}}

MCHooks == <<"watcher", "listener", "gateway", "StopAll">>
=============================================================================
