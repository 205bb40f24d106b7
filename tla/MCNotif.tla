------------------------------ MODULE MCNotif ------------------------------
(***************************************************************************)
(* One job, one server process, three registrations, two addresses.        *)
(***************************************************************************)
EXTENDS Notif

CONSTANTS d1, d2, p1

Sc == [faults |-> 0, changes |-> 0, ticks |-> 0, slow |-> 0, restarts |-> 0, late |-> 0,
       purges |-> 0, idles |-> 0, ctl_fails |-> 0, crashes |-> 0, reloads |-> 0, exits |-> 0, cleanup |-> FALSE, calm |-> FALSE,
       lossless |-> TRUE, moves |-> FALSE, shortens |-> FALSE, miscounts |-> FALSE, tool |-> FALSE, warm |-> FALSE,
       script |-> <<>>, ids |-> <<>>, types |-> <<>>]

MCCanRead == {<<"harvester", "j1">>, <<"alice", "j1">>}
MCAddresses == <<d1, d2>>

Cold == [Sc EXCEPT !.types = <<"STATUS", "JDL">>, !.ids = <<1, 2, 3>>]
Warm == [Cold EXCEPT !.ids = <<3>>, !.warm = TRUE]
Old == [Warm EXCEPT !.types = <<"OLD">>]
Status == [Warm EXCEPT !.types = <<"STATUS">>]
Tool == [Sc EXCEPT !.tool = TRUE]

New(valid, flags) ==
    [Rq("New", 1, "alice", d1, valid) EXCEPT !.states = {1, 2}, !.jobs = {"j1"}, !.flags = flags]
On(op, user, dest) == Rq(op, 1, user, dest, 0)
Replaced == [On("Change", "alice", None) EXCEPT !.states = {2}, !.jobs = {"j1"}]

\* The making of registrations, changes, and errors in both.
Script1 == <<New(0, {"BOOTSTRAP"}), Replaced, On("Refresh", "alice", None), On("Drop", "root", None)>>
Script2 == <<[New(0, {}) EXCEPT !.dest = "malformed"], [New(0, {}) EXCEPT !.user = "nobody"],
             On("Bind", "alice", d2), [New(0, {}) EXCEPT !.index = "j1", !.jobs = {"j2"}],
             On("Change", "harvester", None), On("Bind", "alice", "malformed"),
             On("Bind", "alice", d2)>>
Script3 == <<New(3, {"TERMINAL"}), On("Refresh", "alice", None)>>
Script4 == <<New(3, {"BOOTSTRAP"}), On("Drop", "alice", None)>>
\* A message with the shortest validity expires between two others.
RefreshTo(valid) == [On("Refresh", "alice", None) EXCEPT !.valid = valid]
Script5 == <<New(6, {}), RefreshTo(6), RefreshTo(2), RefreshTo(6)>>

\* What expires while the thread ends.
Script6 == <<New(3, {})>>

MCScenarios ==
    {\* a first start
     [Cold EXCEPT !.changes = 1, !.ticks = 1], [Cold EXCEPT !.slow = 1, !.changes = 1],
     [Cold EXCEPT !.faults = 1, !.changes = 1],
     \* refreshing, with calls that fail
     [Warm EXCEPT !.ticks = 2, !.slow = 1],
     [Old EXCEPT !.changes = 1, !.ticks = 2], [Old EXCEPT !.ticks = 4, !.slow = 1],
     \* restarts of the inter-logger and of the harvester, which comes back at
     \* another address
     [Old EXCEPT !.changes = 2, !.restarts = 1, !.slow = 1],
     [Warm EXCEPT !.changes = 1, !.reloads = 1, !.calm = TRUE, !.moves = TRUE],
     [Old EXCEPT !.changes = 2, !.reloads = 1, !.calm = TRUE, !.moves = TRUE],
     [Old EXCEPT !.changes = 1, !.reloads = 1, !.calm = TRUE, !.moves = TRUE, !.slow = 1],
     [Old EXCEPT !.changes = 1, !.reloads = 1, !.calm = TRUE, !.moves = TRUE, !.ticks = 2],
     [Warm EXCEPT !.crashes = 1, !.moves = TRUE, !.calm = TRUE, !.changes = 1],
     [Old EXCEPT !.crashes = 1, !.moves = TRUE, !.calm = TRUE, !.changes = 2],
     [Status EXCEPT !.crashes = 1, !.moves = TRUE, !.calm = TRUE, !.changes = 1, !.ticks = 2],
     \* several changes and a purge, and threads that come and go
     [Warm EXCEPT !.changes = 2], [Old EXCEPT !.changes = 1, !.purges = 1, !.idles = 1],
     [Tool EXCEPT !.script = Script6, !.changes = 2, !.idles = 1, !.ticks = 2],
     [Tool EXCEPT !.script = Script6, !.changes = 2, !.ctl_fails = 1, !.miscounts = TRUE, !.ticks = 2],
     [Old EXCEPT !.changes = 2, !.ctl_fails = 1, !.miscounts = TRUE],
     \* notifications that are lost, and the end of the harvester
     [Old EXCEPT !.late = 1, !.changes = 2, !.faults = 1],
     [Old EXCEPT !.exits = 1, !.changes = 2],
     [Old EXCEPT !.reloads = 1, !.cleanup = TRUE, !.changes = 1],
     \* the tool
     [Tool EXCEPT !.script = Script1, !.changes = 1, !.faults = 1],
     [Tool EXCEPT !.script = Script2, !.changes = 1, !.moves = TRUE],
     [Tool EXCEPT !.script = Script3, !.changes = 2, !.ticks = 2],
     [Tool EXCEPT !.script = Script4, !.changes = 2, !.ticks = 1],
     [Tool EXCEPT !.script = Script5, !.shortens = TRUE, !.ticks = 1, !.restarts = 1]}
=============================================================================
