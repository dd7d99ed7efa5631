# RahuNAS in TLA+

RahuNAS is a network access server. Clients log in on a web page; the page asks
the daemon `rahunasd` to start a session; the daemon lets the client's packets
through the kernel, shapes them, remembers the session in a small database and
ends it when the client logs out, is silent for too long or has used up its time.

This directory models the daemon in TLA+: TLC checks the models on small
instances, TLAPS proves every invariant and action property of the runs for every instance.
C files without a directory are those of `src/` (`rahunasd.c` is the
daemon's main file).

## Inventory

| component | state | operations | interacts with |
|---|---|---|---|
| session table (`rh-task-memset.c`, `rh-task-ipset.c`, `rh-task-dbset.c`, `rh-task.c`) | member list, kernel address set, `dbset` rows | start, stop, restore, cleanup, as a list of tasks with no rollback | called by everything below, under `RHMtxLock` (mostly) |
| XML-RPC handlers (`rh-xmlrpc-server.c`) | none | `do_startsession`, `do_stopsession`, `do_getsessioninfo` | main thread, holds `RHMtxLock` |
| polling thread (`rahunasd.c`) | copy of the kernel set, position in the list | `polling`, `walk_through_set`, `expired_check` | walks the list *without* the lock, calls the web server, stops under the lock |
| bandwidth task (`rh-task-bandwidth.c`, `tools/rahunas-bandwidth.in`) | `slot_flags`, `slot_count`, `iface->init`; run file, tc classes and filters | `startsess`, `stopsess`, `init`, `cleanup`, wrapper script | inside the task list |
| watcher and signals (`rahunasd.c`) | child, failcount, handlers on thread stacks | `watch_child`, `rh_sighandler`, `rh_exit`, `rh_reload` | kills, restarts; handlers lock `RHMtxLock` |
| virtual servers, reload (`rh-server.c`, `rh-config.c`) | `vserver_list` with `init_flag`, interfaces with their users, ifb numbers, run files and sets of the firewall | register, reload, reset, remove, start, exit | runs the task list's init and cleanup |
| service classes (`rh-serviceclass.c`, `rh-task-serviceclass.c`) | class list, slots (only in `dbset`), kernel mapping | register, reload, start, stop | inside the task list |
| configuration reader (`lcfg/lcfg_static.c`, `rh-config.c`) | buffer, scanner, parser stack, path, values | read, parse, visit the settings | called at start and on every reload |
| accounting (`rh-xmlrpc-cmd.c`, `weblogin/`) | the RADIUS server's records | `stopacct`, `acctStart` | blocking calls without the lock |
| iptables task, XML-RPC transport, pages | none of their own | | |

What is hard here: two threads of which one walks a shared list unlocked; task
sequences whose failures are ignored; three copies of a session of which two
survive the process; signal handlers that do everything; resources dealt by a
random draw and reserved late; reloads that recognise things by name, by number
or by a prefix; a supervisor that must tell crashes from orderly exits; a
hand-written scanner over a small buffer.

What makes each component correct:

* session table: one member to an address; the kernel lets through the members
  and nobody else; what was greeted is served until stopped, across crashes;
* polling: every overdue session ends, and nobody else's does;
* bandwidth: a slot and a class belong to one member; a request always ends;
* watcher: a daemon that dies comes back, one that is stopped does not, and none
  is left behind;
* reload: a virtual server that did not change keeps its sessions; one that is
  gone leaves nothing behind; shared interfaces live as long as they are used;
* service classes: no slot and no address serves two sessions; member, row and
  kernel mapping agree;
* configuration reader: what it accepts is what the grammar derives, and a
  setting sets what it is called;
* accounting (not modelled): every accounting start gets one stop.

## Modules

| module | models |
|---|---|
| `SessionTable` | abstract promise: sessions served and sessions recorded, no threads, locks or tasks |
| `SessionDaemon` | the session table of one virtual server, main thread, polling thread, lock, death and restart; implements `SessionTable` |
| `Bandwidth` | bandwidth task and script on one interface |
| `Watcher` | watcher, signals, handlers, lock |
| `Interfaces` | operators on the table of interfaces and ifb numbers |
| `VServers` | the list of virtual servers, its reload and the tasks' init and cleanup; extends `Interfaces` |
| `ServiceClass` | the list of classes, slots, rows and the kernel's mapping |
| `Lcfg` | scanner, parser and values of a configuration file |
| `ConfigFile` | what the values set; extends `Lcfg` |
| `Lexemes` | what the characters of a file stand for: the tokens the scanner has to find; extends `Lcfg` |
| `Grammar` | the grammar of the tokens and the meaning it gives, with which parser and visitor are compared; extends `ConfigFile` and `Lexemes` |
| `MCSessionDaemon`, `MCBandwidth`, `MCVServers`, `MCServiceClass`, `MCConfigFile` | constants and symmetry for TLC |
| `SessionDaemonProofs`, `BandwidthProofs`, `WatcherProofs`, `VServersProofs`, `ServiceClassProofs`, `ConfigFileProofs`, `GrammarProofs` | theorems and proofs |
| `ListLemmas` | the least of a set of numbers, a list without an element or with others: facts the proofs about lists share |

### SessionDaemon

`members` is `v_map->members`, `kset` the kernel's set of the ipset module, `db`
the rows of `dbset`; `holder` is `RHMtxLock`; `pc` and `req` are where each
thread is and the `task_req` it carries. Each task is one step, so the polling
thread and a crash come between tasks:

* start: `RpcStart` (lookup and MEMSET, under the lock), `StartKernel` (IPSET),
  `StartDb` (DBSET, reply, unlock);
* stop: `RpcStop` or `PollStop` (lock, DBSET), `StopKernel`, `StopMem` (MEMSET, unlock);
* round: `Polling`, `PollSnapshot` (or `PollSnapshotFails`), `PollFirst`,
  `PollVisit` for each member, `PollReport` (the blocking call to the web
  server), `PollStop`, `PollDone`;
* life: `Crash`, `Shutdown`, `ShutdownUnread` (the kernel refuses to be read and
  no session is stopped), `Restart` (flush, replay of every row).

Addresses are the ids `iptoid` makes of them. An address out of range gets
`(uint32_t)-1`; the test `id < 0` that should refuse it never holds, so the
model has `BadId` as an id like the others that the kernel's set refuses.
The polling thread keeps `g_list_next` of the list while it does not hold the
lock. `PollVisitFreed` is the undefined behaviour of following it to a freed
node: the process dies, or reads anything and stops walking, or goes on with the
newer node that took the memory. `rank` orders the nodes as `idcmp` does: a new
node is compared while its id is still 0.

Abstracted: the tasks IPTABLES, SERVICECLASS and BANDWIDTH (they are in the other
modules), names, formatting, the parsing of the request. `do_getsessioninfo`
changes nothing. A shutdown is one step taken while the lock is free; what
happens when it is not is the subject of `Watcher`. `granted` is a history
variable: sessions greeted and not stopped since.

### Bandwidth

`Login`/`RestoreRow` begin a session; `AddSlot` and `AddFails` are the turns of
the search loop of `startsess`; `StopSess` runs `stopsess` and the tasks around
it; `Close`, `End`, `Boot` are the life of the process. `rh_task_cleanup` goes
through the tasks from the last to the first, so that `Close` (the cleanup of this
task) stops the shaping and frees the interface *before* IPSET stops the sessions;
their `bandwidth_del` then reads the names of the devices from freed memory, which
may still be the old ones, or name no device, or end the process (`DropSlot` while
`phase` is "closing", `End`). The script's run file, classes and filters outlive
the process. A script call that answers
`NOT COMPLETED` is `ScriptFails`; the script reports success for everything tc
refuses. The draw of a slot yields any free slot, 0 when the count says full;
`MaxSlotId + 1` can be drawn too. When nothing is free and the count is below
the maximum, no `AddSlot` is enabled: the loop of the code spins. The two tc
trees (down and up) are always changed together and are one here. The script is
modelled for `bandwidth_shape = yes`; with `no` it does nothing and reports
success. One interface, one virtual server; what the script does to a device that
freed memory happens to name is left out.

### Watcher

`watcher`, `child`, `failcount` and `status` are the loop of `watch_child`.
`frames` are the handlers on each thread's stack: a handler may interrupt a
thread anywhere, also inside `RHMtxLock` and inside another handler; `owner`
tells which frame took the lock. `DeliverEarly` is a signal before the daemon
serves: inherited handlers after `fork`, default action after `execvp`,
half-initialised state during `main`. `pid` says which process the watcher's
variable names: none yet ("zero"), its child, or a dead one. `fork()` and the
assignment of its result are two steps, `Fork` and `Store`. In the first turn `pid` is 0
between them, which is how the handler knows the daemon: a SIGTERM then ends the
watcher and leaves the child, a SIGHUP kills it. The C library's own locks
(`malloc`, `exit` in a handler) are left out. A run begins with the watcher at its
first fork.

### VServers and Interfaces

`list` is `vserver_list`, `tab` the pair of `interfaces_list` and `ifb_reserved`;
they die with the process. `nets` is the network of the kernel's set of each name
(`NoNet` where there is none), `sets` the addresses each lets through, `runfiles`
and `shaped` the files by which the firewall and the bandwidth script know what
they have set up, `rows` the `dbset` rows of all virtual servers; they outlive it.
`files` is the directory of configurations in the order of `readdir`: it may change
before every start and every SIGHUP. The variable `plan` says what kind of
administrator writes it, and what the surroundings may do.

* `Hangup` begins a reload; `register_vserver` reads one file and marks the
  virtual server of that number *or* name, or appends a new one; `ReadDone`;
* `ReloadUnmarked`, `ReloadNew`, `ReloadKept`, `ReloadReset` are the cases of one
  pass of the loop in `vserver_reload`; a reset cleans up, becomes `VS_INIT` and
  takes the loop's next pass;
* `CleanUnused` removes one virtual server no file named; `UnusedDone` ends;
* `Boot`, `InitOne`, `InitDone` start; `Terminate`, `ExitOne`, `ExitDone` end;
  `Crash` may come anywhere; `Login`, `Stop` are the sessions. Stops by the
  polling thread go on during a reload.

`rh_task_init` and `rh_task_cleanup` are the tasks in their order, for one
virtual server; each is one step, and so are the stops a cleanup makes.

* *Files.* A file without a section, a name, `clients` or `dev_internal` is read
  without an error (`NoName`, `NoNet`, `NoDev`); the NULL is compared when another
  file is read or the server is found again (`NameMissing`, `NetMissing`), or used
  when the tasks start, which ends the process.
* *Run files.* `start_config` returns at once when its run file is there, and does not
  make a set that exists: after a process that was cut short the old set stays, with
  the network of the old file (`Made`). `bandwidth_start` fails on a run file or
  a missing interface, and then `init` stays 0 (`ShapedBy`), so that no later cleanup
  stops the shaping (`ShapedAfter`).
* *Networks.* Addresses are those the plan's networks cover, and `Before`, the one an
  address outside of the set's network is taken for (`Known`). Rows that a moved network
  has left behind are restored as that one member.
* *The kernel* may fail to list its sets (`reliable` FALSE): then a cleanup stops
  nobody and the rows stay (`walked` FALSE), a start ends the process.
* *The polling thread* (`polls`) may be in a round when a signal comes: it follows a
  `v_map` that is NULL or freed, since nobody reads `polling_blocked` (`PollingFails`).

Freed memory and a set that does not exist give any outcome; a NULL pointer, also an
interface that is not found, ends the process (`at = "failed"`, from where it may
start again). The bandwidth task is on. `Interfaces` has the masks as the code makes
them: `1 << i` is an int, its shift wraps at the width of an int and its sign
fills the unsigned long; names match over the length of the name looked for.

### ServiceClass

`list` is `serviceclass_list`; `members`, `rows`, `to`, `from` are the class
fields of members, the rows of `dbset`, and the two kinds of entries of the
kernel's mapping (client to class address and back). A start of a session is one
step: `StartSess` draws a slot no row has (or 0, which the search gives after 29
tries), maps it, and saves the row; what fails in between falls back to no
class. A stop is one step: the address is computed again from the class of that
name as it is now. `register_serviceclass`, `serviceclass_reload`,
`serviceclass_unused_cleanup` are the reload; `startservice` flushes the mapping
and `Restore` replays a row with its slot. The key of a row has the MAC in it: after
a lost DELETE and a login with another card one address has two rows, and the replay of
the second begins its member anew, without class or slot, before the kernel refuses the
entries the first one has made. SQL may fail and the kernel may
refuse entries, by plan. A class whose file lacks `serviceclass_name` is taken, and ends
the process when a name is compared with its NULL (`NameMissing`, `Strays`). A draw from a
network of size 0 is a division by zero and ends it, too. Addresses have `Width` bits and
wrap; `NetSize` is the unsigned arithmetic of `rh-config.c`. One virtual server, one list of clients.

### Lcfg, ConfigFile, Lexemes and Grammar

A file is written lexeme by lexeme (`Write`), then read: `Fill` is
`lcfg_scanner_buffer_fill` (the buffer keeps an unread rest), the actions on
`fsm` are the states of `lcfg_scanner_token_read`, those on `stack` the states of
`lcfg_parser_parse`, with `path` and `values` as the parser collects them.
`Visit` is `rahunas_visitor` on one value, with the settings in the order
the code tries their prefixes.

What should come out is said without a state, from the text alone. `Tokens` of
`Lexemes` cuts the text into pieces, with no buffer and no automaton: a name ends
at the least position that has none of its characters, a comment at its first end.
`Derives` of `Grammar` says of three kinds of phrases (settings, items of a list, a
value) which spans of tokens they derive, and `Meaning` the values of well-formed
settings with the steps that lead to each; `Joined` puts dots between the steps.
They are recursive functions, over the positions of the text and the spans of its
tokens; the end of a value that something follows is a `CHOOSE` among the ends
that fit.

`WritesOn` is a constant operator that bounds what is written: the run gives it
`Promising` of `Grammar`, the texts that a few tokens can complete, so that it writes
well-formed files, their beginnings, and one wrong lexeme after them. The proofs
assume nothing of it, so that they hold for any file.

A character is a member of a small set; a run of letters no code looks into is
one character. The union `rahunas_config` is a record of the settings that were
set (`Over` puts newer fields over older ones), and a file has sections of one
kind. `HexValue` is `strtoul` on two characters: it skips a space, takes a sign and
stops at what is no digit.
Errors of `read()` and the tree of `get_value` (single look-ups of the tools)
are left out.

## Runs

| run | instance | shows |
|---|---|---|
| `session_safety` | 2 addresses and the bad id, 2 MACs, 3 logins, 1 end of the process, idle timeout 0, clock 0..1 | types, `UniqueClient`, `NoGhostAccess`, `KernelMirrorsMembers`, `GreetedAreServed`, refinement of `SessionTable` |
| `session_liveness` | 1 address and the bad id, 2 logins, time limit 0 or 1, idle timeout 1, clock 0..2, 1 end; any SQL statement may fail | `ExpiredSessionsEnd`, `IdleClientsEnd`; `NoGhostAccess` without a working database |
| `session_freed_node` (violation) | 2 addresses, no end | the walk reaches a freed node |
| `session_stale_round` (violation) | 1 address, 2 MACs | a fresh login is stopped for its predecessor's idleness |
| `session_backup_schema` (violation) | 1 address, failing statements | a crash loses sessions the backup should have kept |
| `bandwidth_slots` | 2 clients, limits 0..2, slots 1..3, 3 logins, 4 failed calls | `OwnSlot`, `OwnClass`, `CountCovers` |
| `bandwidth_exhausted` (violation) | 2 clients, 4 logins for 3 slots | the search for a slot never ends |
| `watcher_restarts` | from before the first fork; 2 signals of each kind, 3 crashes, giving up after 3 quick ends | `NoOrphan`, `DaemonComesBack`, `StopEndsOrSelfLocks` |
| `watcher_stop` (violation) | 1 signal of each kind, 1 crash | a SIGTERM is lost, or waits for ever |
| `vservers_reload` | 2 virtual servers, 3 interfaces (one name begins with another), 4 ifb numbers, int of 3 bits, 3 networks, 1 client and the address before, 2 files, 2 reloads, 1 end, 13 plans; 270 806 states | which sessions survive a reload, what a removal leaves, whose an interface is, that a reload ends, what ends the process |
| `serviceclass_slots` | 2 clients, 2 MACs (interchangeable), 2 classes, addresses of 4 bits, 2 files, 2 reloads, 1 end, 12 plans; 583 855 states | `SlotsApart`, `AddressesApart`, agreement of member, row and kernel, what ends the process |
| `config_files` | 8 plans, files of at most 6 lexemes, a buffer of 4 characters, list indices to the base of 3 | accepted are the well-formed files, values and settings are as written, every character is read once, crashes have two reasons, reading ends |

Why these bounds are enough.

*Sessions.* Three logins let one client leave, another take its
address, and a third be under way, which is the longest story a round of the
polling thread can get wrong (a judged client, its successor, and the node in
between); two addresses give the list an order and a next node; a clock of one
tick past the timeout separates idle from active, and a clock of two lets a
client become active again. *Bandwidth.* `MaxSlotId = 2` leaves three slots, so
three logins fill the table and the full-table answer 0 occurs. *Watcher.* It
gives up after 5 quick ends in the code and 3 here; only the comparison matters.

*Virtual servers.* Two reloads take a virtual server through every flag: added
and removed, reset and then kept, removed and back. One end of the process in
any phase leaves what the next start must cope with. Two servers share an
interface or not; of more, each meets the others only through the table. Four
ifb numbers with an int of three bits have the mask of the sign bit and one that
wraps. The plans keep all rules or break one each (a number that moves to another
name, an interface that changes alone, an interface name that begins another, a
backup copy of a file, no class directory, no log file, a file that lacks a name,
clients or an interface, a client outside of the new network, a kernel that does not
answer, a round of the polling thread under way), and every property names the rules
it needs. *Service classes.* A network of two bits has one slot to draw, so the
second client finds it taken; the others have many slots, none, no mask, no name, or
wrap past the last address; two MACs give an address two rows. *Configuration.* A
buffer of four is shorter than most lexemes, so its end falls everywhere in them; a list index of two digits needs a
fourth item at base 3, an eleventh at base 10.

Deadlock is checked in the session runs and in `bandwidth_slots`. It is not where
stopping is proper: a watcher that has exited, a file that has been read,
reloads, ends and logins used up in the runs of virtual servers and classes; nor
in `bandwidth_exhausted`, whose subject it is.

### Fairness

`SessionDaemon`: weak fairness of every step of both threads, since they are
threads of a running process whose lock is held for a bounded time (the script
and database calls return); weak fairness of the timer; strong fairness of the
copy of the kernel's set, which fails only when the set changes while it is
copied; the watcher restarts a process that crashed (`kset # {}` tells a crash
from an orderly exit). No fairness of clients, of the clock or of crashes.
`Bandwidth`: the search loop runs. `Watcher`: processes and threads run, a
handler that waits for a lock released again and again gets it, and the list of
virtual servers is finite. Its `WorkDone` says that whoever holds the lock outside of a
handler gives it back: with shaping on and all slots used up this is false, since the search of
`bandwidth_exhausted` spins with the lock held, and `StopEndsOrSelfLocks` is only claimed
where that does not happen. `VServers`: weak fairness of `Daemon`, the loops of
one running handler (or `main`); none of the clients, the administrator or the
polling thread. `ConfigFile`: a file that was opened is read on.

## Proofs

`SessionDaemonProofs` proves `Spec => []IInv` for every pool, set of MACs,
limits and bounds, from the named assumption on the constants. `UniqueClient`
and `NoGhostAccess` are not inductive: `IInv` adds `Locking` (who is between a
lock and an unlock, and that nobody is while the process is down), `Numbering`
(session numbers and ranks are not used twice) and `KernelFirst` (what the stop
in progress still has to do). One lemma each covers a step of the walk, the
death of the process and the beginning of a stop; `SafetyStep` has one case per
action.

What is recorded, in the same module, assumes `DbReliable`. `RInv` says, with the exceptions for
the request in progress: every row has a member with the same data, every member
a row, entries match members in MAC, every member inside the pool has an entry,
and the history is the rows. `KernelMirrorsMembers` and `GreetedAreServed` follow
at rest; `TableStep` maps every action to an action of `SessionTable` or to a
stutter, hence `DaemonImplementsTable`. Without the assumption these three are
false, as `session_backup_schema` shows for one of them.

`BandwidthProofs` proves `TypeOK`, `OwnSlot` and `OwnClass`: a slot in use, or
one whose deletion failed, has its flag set for the rest of the process, and a
ready interface has no class or filter of an unflagged slot, because an
interface is only ready when this process has set it up, and no longer once `Close` has
stopped the shaping. `CountCovers` needs
`Counted` beside it: everything counted was a login or the restore of one client's
row, so that `slot_count` cannot wrap while logins and clients are fewer than an
unsigned short counts; and it falls only when a slot that was in use is given up.

`WatcherProofs` proves `NoOrphan`: once a pid is stored, the watcher waits exactly as long
as it has a child (`WaitsForChild`), and only a serving child has handler frames. Its
`TypeOK` says how deep the handlers can stack, which needs `Stacks`: a handler masks its own signal on its
thread until it returns, so that with two signals a stack has at most two frames,
of different signals, each masked.

`VServersProofs` proves `TypeOK` and `IfbApart` for any plans, any number of
ifb devices and any int not wider than that. A lemma each says that appending,
marking and removing an entry keep the table in order; the one that carries the
rest is `ReserveFree`: the mask of a number is that of its remainder by the width
of an int, and the search meets the remainder first, so that a number found is
one whose own bit was free. So a wrapped mask can make numbers unavailable, but
never gives one out twice.

`ServiceClassProofs` proves `TypeOK`, `SlotsApart` and `AddressesApart` for any
clients, classes, networks, width of addresses and plans. `SlotsApart` needs only
that rows still to be restored are rows (`Waiting`): a slot that is drawn was
asked for, and a restored one has its row already. `AddressesApart` needs two
parts: `OneClient` (the kernel leads an address to one client) and `Led` (a
member's address is that of its slot in a class of its name, and leads to that
member). With names that keep their number and network (`NamesKept`) the address a stop computes is
the one the start used, so a stop takes away that entry and no other, even when
the class was removed and came back. The facts about powers of two that the
arithmetic needs and the provers lack are in `ServiceClassAssumption`, which TLC
evaluates.

The module goes on from there with three invariants, each of which uses the ones
before. (Their namesakes for virtual servers are below.)

* `ListInv` is about a reload as a whole. While files are read, the classes not
  marked `DONE` are exactly those of the files read so far (`Marking`); after the
  pass that swaps the marks, the `DONE` ones are those of the directory and the
  others are `NONE` (`FromFiles`). The class removed is the first of that number:
  it is the one meant only because numbers name classes (`NumbersApart`). This
  gives `ConfiguredAreServed`.
* `KernelInv`: if nothing is removed from the directory and names keep their
  network, every class in the list is one of the directory (`Kept`) and none is
  ever unused; so the class of a member is there, with its slot (`Placed`), when
  the member is stopped, and the stop deletes the two entries the start added. Whatever
  the database does, whoever is in a class has both entries (`Served`); with SQL that
  works an address has one row, whose member is not on before it is restored
  (`SessionOrder`), so that no entry is left over (`Translated`). This gives
  `KernelServesMembers`.
* `RowsInv`: with SQL that works, every row is of no class or has its place in the
  directory (`RowsPlaced`) and no two lead to one address, also of different
  classes (`RowsApart`). So a restored session is never refused by the kernel and
  gets its slot back, in whatever order the rows are restored; between restarts
  sessions and rows are the same (`SameRows`). This gives `RowsMatchMembers`.

`FailsForAReason` is proved there too: a step that fails has met a class without a name or
a draw from no slots, and the number of slots to draw from is 0 only
for the two lengths of a prefix it names, which is why the assumption says what
the powers of two are up to the width of an address.

The module goes on with what the runs check of virtual servers beyond
types and numbers. All of it rests on the rules the administrator keeps, which
every property names; without `Orderly` (a name keeps its number, no file twice)
nothing follows, as a server is then looked up by the one or by the other.

* `ListInv` says what `vserver_list` is at every point of a start, a reload and an
  exit: no two servers of one name, the settings read last against those in use
  for each flag (`Marks`), the flags that can be there before and after the
  position of the loop (`Fits`), and the files read so far against the servers
  they named (`Named`). This gives `ConfiguredAreServed`.
* The invariants that follow look at the servers that are up (`Up`) and no longer
  at the list: `UpSteps` shows that every step of the daemon is, for them, one of
  ten (`UpStep`: a server begins or fails to, goes on in new settings or fails to,
  ends or is cut short in it; a session joins or leaves; nothing changes; all is over). It is proved once
  and used by each.
* `PlacedInv`, for complete files: each server that is up has its run file and its set,
  which lets through the members inside of its network; where sets can be read the rows
  are the members, or would be restored as them. This gives `ServedInThreePlaces`, but
  for the network of the file.
* `CountedInv`: every entry of the table of interfaces counts the servers that use
  its name and belongs to the plan, each server has its entry with its ifb device, no bit
  below the sign is reserved without an entry, and an entry marked as started (with a
  kernel that answers, every one) has its run file. So what is released is what was taken,
  and, since fewer names than bits leave one free, no search fails.
* `Untouched`, with no process cut short: the sets are those of servers up, with the network
  of their files, every entry is marked, and the pairs shaped are those of entries. With
  `Exited` (only a SIGTERM leads to an exit) it gives the rest of `ServedInThreePlaces` and
  of `InterfacesCounted`. `FailsForAReason` follows from `ListInv`, `CountedInv`,
  `PlacedInv` and `Untouched`: each way to fail contradicts one of them.
* `ReloadKeepsSessions` and `RemovedLeaveNothing` are action properties, which
  follow step by step from `ListInv`, the second also from `PlacedInv`.

`DevsDiffer` (no name of an interface begins another) is needed in
`FailsForAReason`: with A on `eth1`, B on `eth10` and C on `eth1`, the removal of A
may count down the entry of B, which `strncmp` finds first
(`remove_interface`, `rh-config.c:536`), and the next reload of B ends the daemon.
TLC finds it when the condition is dropped.

`ConfigFileProofs` is for any file, any alphabet and any size of the buffer.

* Its inductive invariant is `Types`, `Window` (where the scanner is in the buffer,
  and the buffer in the file), `ReadThrough` (when a file counts as read, all of it
  was), `Automaton` (which elements can be on the parser's stack, and in which
  state) and `Visited`. `TypeCorrect` and `FileIsReadWhole` follow; the latter
  is that no filling of the buffer loses, repeats or swaps a character.
* `PathsAreAsDeep` and `VisitorIsSafe` say of the parser what `CrashesForAReason`
  says of files: as long as no list has more than ten items, `path` has one part
  for every open element, hence every value inside a section has a dot in its key,
  which is what `rahunas_visitor` relies on. They need `Words` (what the scanner
  gives as a name has no dot) and two facts of recursively defined functions: an
  index under ten is written with one digit, and `PATH_POP` takes away one. The
  hypothesis on lists is the state of the parser, not of the file, and is what the
  code lacks: an index of ten has two digits of which one is taken away.
* Whether a recursive function has the value its definition gives is itself to be
  proved. `RecursionExists` does, for functions that call themselves on a smaller
  number, from least elements only; `PlacesOne` and `NumberOne` are instances.

`GrammarProofs` proves the four properties that compare a configuration file with
its grammar, for any file, any alphabet and any size of the buffer: what the
scanner, the parser and the visitor make of a text step by step is what the
definitions of `Lexemes` and `Grammar` say of it as a whole.

* The definitions are recursive functions, and that these have the values
  their definitions give is proved first: `SolutionExists` for functions that call
  themselves on arguments of a smaller measure (the characters to go, the length
  of a span), from least elements only, `MeasureInduction` for what holds of all
  arguments. `RestsIs`, `TokensIs`, `DerivesIs`, `MeansIs`, `ItemsIs` and `JoinedIs`
  are instances.
* *Scanner.* `Ahead` says what is still to be found from a position on, in a state of
  the automaton, with the word so far: the rest of a name or a string, then the
  tokens of what follows. `CharScans` shows that a character read keeps it, or
  finds its first token, one lemma for each state; `EndScans` is the end of the file.
* *Parser.* `Completes` says that the tokens left are, element by element down the
  stack, the rest of each. `TurnCompletes` is the heart of it: the tokens left
  complete the stack before a turn of `lcfg_parser_parse` if and only if those after
  the first complete the stack it leaves, and no tokens do where it rejects one. It
  needs of the grammar that a value ends where its own brackets do.
* *Both.* `Course` puts them together: until the answer, some number of tokens were
  handled, then come the current and the prepared one, and ahead are the others
  (`FirstBeyond`). With `Types` and `Window`, by which the character at hand is the next
  of the text wherever a buffer ended, this gives `AcceptsTheGrammar`.
* *Values.* `Story` follows what the stack still promises: each of its elements has a
  frame (where its tokens end, the steps that lead to it, the values that are
  still to come), and the values kept so far followed by those promised are the
  meaning of the file. `TurnKeeps` shows it for each turn. It needs that no list is
  too long, now as a condition on the file (`NoLongList`): an index then has one
  digit and `PATH_POP` takes away what was pushed (`PopPushed`). This gives
  `KeepsTheValues`, and, as a key without a dot has one step (`UndottedAlone`),
  `CrashesAsTold`.
* *Settings.* A key of two steps or more is split at its first dot (`FirstTwo`), since no
  name has one, so that the visitor sees the section and the name. The tables are
  looked up by prefix in the order of the code: for each of the documented names
  the first that matches is its own (`Apart`). `Configured` says that after n values
  `config` is what the first n documented settings set, the last of each name
  and, for the name of the virtual server, the first. This gives `SetsAsWritten`.

What is assumed of the constants beyond their sorts: interfaces are finitely many,
an int is not wider than there are ifb devices, powers of two are what they are,
no name or digit of a configuration file is a dot, and no letter is a space, a
mark, a quote or a slash (`isalpha` holds for none of them).

Only model-checked are the liveness properties (`ExpiredSessionsEnd`,
`IdleClientsEnd`, `DaemonComesBack`, `StopEndsOrSelfLocks`, `ReloadEnds`,
`ReadingEnds`): TLAPS has no rule here for fairness and `ENABLED`. Every invariant and
every action property of a passing run is a theorem.

## Disagreements with the repository's own words

Each violation run refutes something a comment, a log, a page or a changelog
says; `PROJECT.json` quotes the lines. In short: the walk still follows freed
nodes (`ChangeLog:459`); "idle timeout" is logged for clients who were not idle;
the shipped database lacks two columns the INSERT names; "Slot is full" is not
answered when it is; a SIGTERM does not always end the program.

Other things a reader of the code may not expect, all of them in the models:

* `slot_count` also rises for a login answered with slot 0, and no stop takes that
  back: enough of them in one life wrap the unsigned short, and slots in use are
  then no longer covered by it; `CountCovers` states the condition;
* a bad address is never refused (`rh-xmlrpc-server.c:77`, `BadId`), since `id` is
  unsigned; the end of its session reads the copy of the set far outside;
* a SIGTERM before the watcher has stored the first child's pid ends the watcher and
  leaves the child (`rahunasd.c:267`, `57`);
* the BANDWIDTH cleanup frees the interface that the stops of the IPSET cleanup use
  (`rh-task.c:121`, `rh-task-bandwidth.c:262`);
* after a crash the run files keep the set of the old file, and its network
  (`rahunas-firewall.in:860`), and shaping that nobody will stop;
* a cleanup that cannot read the set stops no session, and the rows are revived by the
  next virtual server of that number (`rh-ipset.c:537`);
* a file without a section or without `clients` is read, and ends the daemon with the
  next file or reload (`rh-server.c:24`, `149`); so does a class without a name
  (`rh-serviceclass.c:29`), at a login too;
* `polling_blocked` is read by nobody (`rahunasd.c:182`): a round during a reload may follow
  a NULL or freed `v_map`;
* two rows of one address (a lost DELETE, another MAC) leave kernel entries of a class
  that the member was never told (`rh-task-memset.c:171`);
* a reload without `serviceclass_conf_dir` ends the daemon, which a start does not;
* a reload with only `dev_internal` changed leaves a user counted at the old
  interface, and ends the daemon if the new one is unknown;
* an interface name finds the entry of one that begins with it; a virtual server
  whose name begins with `main` is read as the main section; a key outside of every
  section ends the reader;
* a list of more than ten items loses a part of its path, and one of more than a hundred
  outside of every section writes out of the bounds of it (the model stops at the key
  without a dot, the visitor's null pointer); bad digits in `\x` are accepted; a one-line
  comment with no newline at the end of the file is refused;
* `vlan` hides `vlan_raw_dev_external` and `vlan_raw_dev_internal`;
  `nas_login_proto` and `external_iface_*` are read by nobody;
* a class with a network of two addresses, or without a mask, ends the daemon at
  the first login into it.

## Not modelled, and what is left

* Accounting: `login.php` starts it, `logout.php` and `xmlrpc_service.php` stop it,
  by messages to a RADIUS server, which keeps the records and is not in this
  repository. The calls of the daemon are steps of `SessionDaemon` that may fail.
  "One stop for every start" is not stated, and the code has no means to promise
  it: `stopacct` is sent without the lock and before the session is stopped, so
  that a logout in between sends a second stop; a failed call is not repeated;
  `logout.php` sends what it read of the session before it asked for the stop.
* XML-RPC transport (single threaded inside the main loop), the web pages, their
  dictionaries and translations keep no state of the daemon.
* The rules of the firewall script: `VServers` has its run file and its set, by
  which it decides; the rest is text for `iptables`.
* `iptoid` and the string helpers, but for what the models above need of them.
* The composition of `Bandwidth` with several virtual servers on one interface:
  `VServers` has the count of users and when shaping begins and ends.
* A class whose network changes under its sessions: `NamesKept` excludes it from what is
  claimed, and the stops of such sessions leave the entries of the old network.
* The merge of two rows of one address in the run of `UniqueClient`: its database works. The
  theorem `OneMemberPerClient` covers it, and `serviceclass_slots` has the rows.
* More proofs: who owns the lock in `Watcher`.
