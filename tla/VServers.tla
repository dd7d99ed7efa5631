------------------------------- MODULE VServers -------------------------------
(***************************************************************************)
(* The virtual servers of rahunasd and what SIGHUP, SIGTERM and a restart  *)
(* do to them (src/src/rh-server.c, rh_reload and rh_exit of               *)
(* src/src/rahunasd.c, get_vservers_config of src/src/rh-config.c), with   *)
(* the init and cleanup functions of the tasks.                            *)
(*                                                                         *)
(* A reload reads the files of the directory one by one and marks the      *)
(* virtual servers it finds again, walks the list and reloads, resets or   *)
(* initialises each one, and removes those that no file named.  Every file *)
(* read, every pass of the loop of vserver_reload and every removal is a   *)
(* step, between which the polling thread ends sessions and the process    *)
(* may die.                                                                *)
(*                                                                         *)
(* The bandwidth task is on.  Freed memory and a kernel set that does not  *)
(* exist give any outcome; a NULL pointer ends the process.  The scripts   *)
(* leave run files: what a process that was cut short has set up is there  *)
(* when the next one starts, and is not set up again.                      *)
(*                                                                         *)
(* An address outside of the network of the set is not refused (the test   *)
(* `id < 0` of an unsigned number is never true): it is taken for the      *)
(* address before the first one, which only the kernel refuses.            *)
(***************************************************************************)
EXTENDS Interfaces, FiniteSets

CONSTANTS
    Names,        \* vserver_name, which also names the kernel set
    Numbers,      \* vserver_id, which also keys the rows of dbset
    Nets,         \* clients, the network of a virtual server
    Clients,      \* addresses
    Covers,       \* the addresses in each network
    Before,       \* and the one before the first
    NoName, NoNet, NoDev,    \* NULL: a setting that a file lacks
    Plans,        \* what may happen: see Plan
    MaxFiles,     \* bound: files in the directory
    MaxReloads,   \* bound: SIGHUPs
    MaxDowns      \* bound: crashes and SIGTERMs

Config == [name : Names \cup {NoName}, id : Numbers, net : Nets \cup {NoNet},
           dev : Devs \cup {NoDev}]

(* The configurations that may ever be in a file, and who logs in; whether *)
(* a file may have a backup copy (x.conf~) beside it; whether              *)
(* serviceclass_conf_dir is set, the log file can be opened, and the kernel *)
(* lists its sets and interfaces whenever it is asked; whether a round of  *)
(* the polling thread may be under way when a signal comes.                *)
Plan == [configs : SUBSET Config, clients : SUBSET Clients, copies : BOOLEAN,
         classdir : BOOLEAN, logfile : BOOLEAN, reliable : BOOLEAN,
         polls : BOOLEAN]

ASSUME VServersAssumption ==
    /\ NoName \notin Names /\ NoNet \notin Nets /\ NoDev \notin Devs
    /\ Covers \in [Nets -> SUBSET Clients]
    /\ Before \in [Nets -> Clients]
    /\ \A n \in Nets : Before[n] \notin Covers[n]
    /\ Plans \subseteq Plan
    /\ MaxFiles \in Nat
    /\ MaxReloads \in Nat
    /\ MaxDowns \in Nat

Flags == {"NONE", "INIT", "RELOAD", "RESET", "DONE"}
File == [config : Config, readable : BOOLEAN]

(* dummy has the value of cfg until a file has been read for the server.   *)
Server == [cfg : Config, dummy : Config, flag : Flags, iface : Ifbs \cup {NoIfb},
           map : BOOLEAN, sess : SUBSET Clients]

Reloading == {"read", "reload", "unused"}
Booting == {"bootread", "init"}
Phases == {"down", "failed", "serve", "exit"} \cup Reloading \cup Booting

VARIABLES
    plan,       \* never changes
    files,      \* the directory, in the order of readdir
    at,         \* what the process is doing
    k,          \* the file or virtual server it is at
    list,       \* vserver_list
    tab,        \* interfaces_list and ifb_reserved
    nets,       \* the network of the kernel's set of each name
    sets,       \* the clients each set lets through
    runfiles,   \* run files of the firewall script: servers with rules
    shaped,     \* run files of the bandwidth script: interface and ifb
    rows,       \* dbset
    reloads,
    downs

vars == <<plan, files, at, k, list, tab, nets, sets, runfiles, shaped, rows,
          reloads, downs>>
memory == <<list, tab>>
kernel == <<nets, sets>>
outside == <<kernel, runfiles, shaped, rows>>
bounds == <<plan, reloads, downs>>

Init ==
    /\ plan \in Plans
    /\ files = <<>>
    /\ at = "down"
    /\ k = 1
    /\ list = <<>>
    /\ tab = NoInterfaces
    /\ nets = [n \in Names |-> NoNet]
    /\ sets = [n \in Names |-> {}]
    /\ runfiles = {}
    /\ shaped = {}
    /\ rows = {}
    /\ reloads = 0
    /\ downs = 0

(* A directory: one file to a virtual server, unless there are copies.     *)
Directory(dir) ==
    \A i, j \in DOMAIN dir :
        \/ plan.copies
        \/ i = j
        \/ /\ dir[i].config.name # dir[j].config.name
           /\ dir[i].config.id # dir[j].config.id

Directories ==
    {dir \in UNION {[1 .. n -> [config : plan.configs, readable : BOOLEAN]] :
                       n \in 0 .. MaxFiles} : Directory(dir)}

GoTo(phase) == at' = phase /\ k' = 1
Advance == at' = at /\ k' = k + 1

(* The process ends and its memory with it.                                *)
Die(phase) ==
    /\ GoTo(phase)
    /\ list' = <<>>
    /\ tab' = NoInterfaces

-----------------------------------------------------------------------------
(* Reading the files. *)

Same(s, c) == s.cfg.id = c.id \/ (c.name # NoName /\ s.cfg.name = c.name)
vserver_exists(c) == {i \in DOMAIN list : Same(list[i], c)}

(* A file without a section gives no name, one may lack clients: to        *)
(* compare these ends the process.  Names are compared until one is found. *)
NameMissing(c) ==
    \E i \in DOMAIN list : /\ NoName \in {c.name, list[i].cfg.name}
                          /\ \A j \in vserver_exists(c) : i <= j
NetMissing(c) ==
    LET old == vserver_exists(c) IN
    /\ old # {}
    /\ list[Min(old)].cfg.name = c.name
    /\ NoNet \in {c.net, list[Min(old)].cfg.net}

NewServer(c) ==
    [cfg |-> c, dummy |-> c, flag |-> "INIT", iface |-> NoIfb, map |-> FALSE,
     sess |-> {}]

MarkedReset(s, c) ==    \* mutant: every server found again is reset
    [s EXCEPT !.dummy = c, !.flag = "RESET"]

Marked(s, c) ==
    [s EXCEPT !.dummy = c,
              !.flag = IF c.name # s.cfg.name \/ c.net # s.cfg.net
                       THEN "RESET" ELSE "RELOAD"]

Registered(c) ==
    LET old == vserver_exists(c) IN
    IF old # {} THEN [list EXCEPT ![Min(old)] = Marked(@, c)]
    ELSE Append(list, NewServer(c))

register_vserver ==
    /\ at \in {"read", "bootread"}
    /\ k <= Len(files)
    /\ LET c == files[k].config IN
       IF files[k].readable /\ (NameMissing(c) \/ NetMissing(c)) THEN Die("failed")
       ELSE /\ list' = IF files[k].readable THEN Registered(c) ELSE list
            /\ tab' = tab
            /\ Advance
    /\ UNCHANGED <<files, outside, bounds>>

ReadDone ==
    /\ at \in {"read", "bootread"}
    /\ k > Len(files)
    /\ IF at = "read" /\ ~plan.classdir THEN Die("failed")
       ELSE /\ GoTo(IF at = "read" THEN "reload" ELSE "init")
            /\ UNCHANGED memory
    /\ UNCHANGED <<files, outside, bounds>>

-----------------------------------------------------------------------------
(* The tasks. *)

RowsOfAll(id) ==    \* mutant: the SELECT lacks its WHERE
    {c \in Clients : \E i \in Numbers : <<i, c>> \in rows}

RowsOf(id) == {c \in Clients : <<id, c>> \in rows}

exist == {n \in Names : nets[n] # NoNet}
Inside(net) == IF net = NoNet THEN {} ELSE Covers[net]

(* Whom the daemon takes an address for.                                   *)
Known(net, c) == IF c \in Inside(net) THEN c ELSE Before[net]
Fit(net) == {c \in Clients : net # NoNet /\ c = Known(net, c)}

(* start-config without KEEP_SET: a run file of the name stops it, and a   *)
(* set that is there stays.                                                *)
Made(cfg) ==
    IF cfg.name \in runfiles \cup exist THEN nets[cfg.name] ELSE cfg.net

(* Who may be restored from the rows of a virtual server.                  *)
Restored(net, id) ==
    IF net # NoNet THEN {{Known(net, c) : c \in RowsOf(id)}}
    ELSE {on \in SUBSET Clients : on = {} <=> RowsOf(id) = {}}

(* What stopping sessions leaves of the rows, which are deleted by session. *)
(* Rows that a network has moved away from are restored as one member, the *)
(* session of the last one; then others may share it and go as well.       *)
RowsLeft(cfg, gone) ==
    LET own == RowsOf(cfg.id)
        net == nets[cfg.name]
    IN  IF own \subseteq Inside(net) \/ (plan.reliable /\ own \subseteq Fit(net))
        THEN {rows \ ({cfg.id} \X gone)}
        ELSE {rows \ ({cfg.id} \X any) :
                 any \in {a \in SUBSET own : gone \cap Inside(net) \subseteq a}}

Replaced(s) == list' = [list EXCEPT ![k] = s]

(* The bandwidth script starts nothing where its run file is or where the  *)
(* interface is missing; then init stays 0.                                *)
Shaping(t, i) == {<<t.list[j].dev, i>> : j \in WithIfb(t, i)}
Inited(t, i) == \E j \in WithIfb(t, i) : t.list[j].init

ShapedBy(t, i) ==
    IF Inited(t, i) \/ Shaping(t, i) \cap shaped # {} THEN {shaped}
    ELSE {shaped \cup Shaping(t, i)} \cup (IF plan.reliable THEN {} ELSE {shaped})

bandwidth_start(t, i) ==
    /\ shaped' \in ShapedBy(t, i)
    /\ tab' = IF shaped' = shaped THEN t ELSE SetInit(t, i, TRUE)

(* rh_task_init of a virtual server whose flag is not VS_RELOAD: firewall  *)
(* and set, member list, empty set, interface, and the sessions of dbset.  *)
(* A header that cannot be read ends the process, as does a NULL pointer.  *)
rh_task_init(s, flag) ==
    LET n == s.cfg.name
        net == Made(s.cfg)
        added == append_interface(tab, s.cfg.dev)
        iface == get_interface(added, s.cfg.dev)
    IN  IF n = NoName THEN Die("failed") /\ UNCHANGED outside
        ELSE /\ runfiles' = runfiles \cup {n}
             /\ nets' = [nets EXCEPT ![n] = net]
             /\ \/ /\ iface # NoIfb
                   /\ \E on \in Restored(net, s.cfg.id) :
                        /\ Replaced([s EXCEPT !.flag = flag, !.iface = iface,
                                              !.map = TRUE, !.sess = on])
                        /\ sets' = [sets EXCEPT ![n] = on \cap Inside(net)]
                        /\ rows' = rows \cup ({s.cfg.id} \X on)
                   /\ bandwidth_start(added, iface)
                   /\ Advance
                \/ /\ iface = NoIfb \/ net = NoNet \/ ~plan.reliable
                   /\ sets' \in {sets, [sets EXCEPT ![n] = {}]}
                   /\ UNCHANGED <<shaped, rows>>
                   /\ Die("failed")

(* Cleanup and init of a server whose flag is VS_RELOAD: the rules are     *)
(* taken away and put back, the interface is looked up, all else returns.  *)
InitKept(s, flag) ==
    LET iface == get_interface(tab, s.cfg.dev) IN
    /\ runfiles' = runfiles \cup {s.cfg.name}
    /\ UNCHANGED <<kernel, rows>>
    /\ IF iface = NoIfb THEN Die("failed") /\ UNCHANGED shaped
       ELSE /\ Replaced([s EXCEPT !.flag = flag, !.iface = iface])
            /\ bandwidth_start(tab, iface)
            /\ Advance

(* The bandwidth task: the shaping ends with the last user of an interface *)
(* that this process has started.  Freed memory may name any with its ifb. *)
ShapedAfter(s) ==
    LET mine == WithIfb(tab, s.iface)
        ends == \E j \in mine : tab.list[j].init /\ tab.list[j].hit <= 1
        pairs == Shaping(tab, s.iface)
    IN  IF mine = {}
        THEN {shaped \ any : any \in SUBSET {p \in shaped : p[2] = s.iface}}
        ELSE IF ~ends \/ ~(pairs \subseteq shaped) THEN {shaped}
        ELSE {shaped \ pairs} \cup (IF plan.reliable THEN {} ELSE {shaped})

BandwidthCleanup(s) ==
    /\ shaped' \in ShapedAfter(s)
    /\ tab' = remove_interface(IF shaped' = shaped THEN tab
                               ELSE SetInit(tab, s.iface, FALSE), s.cfg.dev)

(* rh_task_cleanup of a server whose flag is not VS_RELOAD, and what is    *)
(* left of it.  `walked`: walk_through_set got a copy of a set.            *)
Cleaned(s) == [s EXCEPT !.map = FALSE, !.sess = {}]

rh_task_cleanup(s, walked) ==
    LET n == s.cfg.name IN
    /\ n \in exist /\ plan.reliable => walked
    /\ walked => s.map /\ exist # {}
    /\ rows' \in IF walked THEN RowsLeft(s.cfg, s.sess) ELSE {rows}
    /\ BandwidthCleanup(s)
    /\ nets' = IF n \in runfiles THEN [nets EXCEPT ![n] = NoNet] ELSE nets
    /\ sets' = [sets EXCEPT ![n] = {}]
    /\ runfiles' = runfiles \ {n}

(* A second cleanup finds v_map NULL.  The member before the network has a *)
(* number by which the copy is read far outside; where the kernel does not *)
(* say its size, the copy takes all memory.  BANDWIDTH comes first.        *)
CleanupFails(s) ==
    /\ \/ ~s.map /\ exist # {}
       \/ ~(s.sess \subseteq Inside(nets[s.cfg.name]))
       \/ ~plan.reliable
    /\ Die("failed")
    /\ shaped' \in ShapedAfter(s)
    /\ UNCHANGED <<kernel, runfiles, rows>>

(* A round of the polling thread meets a virtual server without members    *)
(* (v_map is NULL), or what a reload has freed and it still has.           *)
PollingFails ==
    /\ plan.polls
    /\ \/ /\ at \in {"exit"} \cup Reloading
          /\ exist # {}
          /\ \E i \in DOMAIN list : ~list[i].map
       \/ at \in {"unused", "serve"} /\ reloads > 0
    /\ Die("failed")
    /\ UNCHANGED <<files, outside, bounds>>

-----------------------------------------------------------------------------
(* vserver_reload, one pass of its loop at a time. *)

At(phase) == at = phase /\ k <= Len(list)

ReloadUnmarked ==
    /\ At("reload")
    /\ list[k].flag = "DONE"
    /\ Replaced([list[k] EXCEPT !.flag = "NONE"])
    /\ Advance
    /\ UNCHANGED <<files, tab, outside, bounds>>

ReloadNew ==
    /\ At("reload")
    /\ list[k].flag = "INIT"
    /\ rh_task_init(list[k], "DONE")
    /\ UNCHANGED <<files, bounds>>

ReloadKept ==
    /\ At("reload")
    /\ list[k].flag = "RELOAD"
    /\ InitKept([list[k] EXCEPT !.cfg = list[k].dummy], "DONE")
    /\ UNCHANGED <<files, bounds>>

(* The flag becomes VS_INIT, and the loop goes on.                         *)
ReloadResetOld ==    \* mutant: the old configuration stays in force
    /\ At("reload")
    /\ list[k].flag = "RESET"
    /\ UNCHANGED <<files, bounds>>
    /\ \/ /\ \E walked \in BOOLEAN : rh_task_cleanup(list[k], walked)
          /\ Replaced([Cleaned(list[k]) EXCEPT !.flag = "INIT"])
          /\ UNCHANGED <<at, k>>
       \/ CleanupFails(list[k])

ReloadResetKept ==    \* mutant: it goes on as a reload
    /\ At("reload")
    /\ list[k].flag = "RESET"
    /\ UNCHANGED <<files, bounds>>
    /\ \/ /\ \E walked \in BOOLEAN : rh_task_cleanup(list[k], walked)
          /\ Replaced([Cleaned(list[k]) EXCEPT !.cfg = list[k].dummy,
                                               !.flag = "RELOAD"])
          /\ UNCHANGED <<at, k>>
       \/ CleanupFails(list[k])

ReloadReset ==
    /\ At("reload")
    /\ list[k].flag = "RESET"
    /\ UNCHANGED <<files, bounds>>
    /\ \/ /\ \E walked \in BOOLEAN : rh_task_cleanup(list[k], walked)
          /\ Replaced([Cleaned(list[k]) EXCEPT !.cfg = list[k].dummy,
                                               !.flag = "INIT"])
          /\ UNCHANGED <<at, k>>
       \/ CleanupFails(list[k])

ReloadDone ==
    /\ at = "reload"
    /\ k > Len(list)
    /\ GoTo("unused")
    /\ UNCHANGED <<files, memory, outside, bounds>>

(* vserver_unused_cleanup: the server is cleaned up and the first one of   *)
(* its number is taken off the list.                                       *)
UnregisterNone(L, id) == L    \* mutant: the node is not deleted

unregister_vserver(L, id) ==
    LET same == {i \in DOMAIN L : L[i].cfg.id = id} IN
    IF same = {} THEN L ELSE RemoveAt(L, Min(same))

Unused == {i \in DOMAIN list : list[i].flag = "NONE"}

CleanUnusedOnly ==    \* mutant: no rh_task_cleanup
    /\ at = "unused"
    /\ Unused # {}
    /\ list' = unregister_vserver(list, list[Min(Unused)].cfg.id)
    /\ UNCHANGED <<files, bounds, at, k, tab, outside>>

CleanUnused ==
    /\ at = "unused"
    /\ Unused # {}
    /\ UNCHANGED <<files, bounds>>
    /\ LET i == Min(Unused) IN
       \/ /\ \E walked \in BOOLEAN : rh_task_cleanup(list[i], walked)
          /\ list' = unregister_vserver([list EXCEPT ![i] = Cleaned(@)],
                                        list[i].cfg.id)
          /\ UNCHANGED <<at, k>>
       \/ CleanupFails(list[i])

UnusedDone ==
    /\ at = "unused"
    /\ Unused = {}
    /\ GoTo("serve")
    /\ UNCHANGED <<files, memory, outside, bounds>>

-----------------------------------------------------------------------------
(* The life of the process. *)

Boot(dir) ==
    /\ at \in {"down", "failed"}
    /\ files' = dir
    /\ GoTo("bootread") \/ (~plan.logfile /\ GoTo("failed"))
    /\ UNCHANGED <<memory, outside, bounds>>

(* do_task_init leaves the flag alone; do_vserver_init_done sets them all. *)
InitOne ==
    /\ At("init")
    /\ UNCHANGED <<files, bounds>>
    /\ IF list[k].flag = "RELOAD" THEN InitKept(list[k], "RELOAD")
       ELSE rh_task_init(list[k], list[k].flag)

InitDone ==
    /\ at = "init"
    /\ k > Len(list)
    /\ list' = [i \in DOMAIN list |-> [list[i] EXCEPT !.flag = "DONE"]]
    /\ GoTo("serve")
    /\ UNCHANGED <<files, tab, outside, bounds>>

Hangup(dir) ==
    /\ at = "serve"
    /\ reloads < MaxReloads
    /\ reloads' = reloads + 1
    /\ files' = dir
    /\ \/ GoTo("read") /\ UNCHANGED memory
       \/ ~plan.logfile /\ Die("failed")
    /\ UNCHANGED <<plan, outside, downs>>

Terminate ==
    /\ at = "serve"
    /\ downs < MaxDowns
    /\ downs' = downs + 1
    /\ GoTo("exit")
    /\ UNCHANGED <<plan, files, memory, outside, reloads>>

ExitOne ==
    /\ At("exit")
    /\ UNCHANGED <<files, bounds>>
    /\ \/ /\ \E walked \in BOOLEAN : rh_task_cleanup(list[k], walked)
          /\ Replaced(Cleaned(list[k]))
          /\ Advance
       \/ CleanupFails(list[k])

ExitDone ==
    /\ at = "exit"
    /\ k > Len(list)
    /\ Die("down")
    /\ UNCHANGED <<files, outside, bounds>>

Crash ==
    /\ at \notin {"down", "failed"}
    /\ downs < MaxDowns
    /\ downs' = downs + 1
    /\ Die("down")
    /\ UNCHANGED <<plan, files, outside, reloads>>

-----------------------------------------------------------------------------
(* Sessions. vserver_get_by_id takes the first server of that number. *)

vserver_get_by_id(id) == {i \in DOMAIN list : list[i].cfg.id = id}

Login(id, c) ==
    /\ at = "serve"
    /\ c \in plan.clients
    /\ vserver_get_by_id(id) # {}
    /\ UNCHANGED <<files, bounds>>
    /\ LET i == Min(vserver_get_by_id(id))
           n == list[i].cfg.name
       IN  IF ~list[i].map THEN Die("failed") /\ UNCHANGED outside
           ELSE \E m \in IF n \in exist THEN {Known(nets[n], c)} ELSE Clients :
                /\ m \notin list[i].sess
                /\ list' = [list EXCEPT ![i].sess = @ \cup {m}]
                /\ rows' = rows \cup {<<id, m>>}
                /\ sets' = [sets EXCEPT ![n] = @ \cup ({m} \cap Inside(nets[n]))]
                /\ UNCHANGED <<at, k, tab, nets, runfiles, shaped>>

(* A stop request, or the polling thread, which no phase holds up.         *)
Stop(i, c) ==
    /\ at \in {"serve", "exit"} \cup Reloading
    /\ i \in DOMAIN list
    /\ c \in list[i].sess
    /\ list' = [list EXCEPT ![i].sess = @ \ {c}]
    /\ rows' \in RowsLeft(list[i].cfg, {c})
    /\ sets' = [sets EXCEPT ![list[i].cfg.name] = @ \ {c}]
    /\ UNCHANGED <<files, at, k, tab, nets, runfiles, shaped, bounds>>

Daemon ==
    \/ register_vserver \/ ReadDone
    \/ ReloadUnmarked \/ ReloadNew \/ ReloadKept \/ ReloadReset \/ ReloadDone
    \/ CleanUnused \/ UnusedDone
    \/ InitOne \/ InitDone
    \/ ExitOne \/ ExitDone

Next ==
    \/ Daemon
    \/ \E dir \in Directories : Boot(dir) \/ Hangup(dir)
    \/ Terminate
    \/ Crash
    \/ PollingFails
    \/ \E id \in Numbers, c \in Clients : Login(id, c)
    \/ \E i \in DOMAIN list, c \in Clients : Stop(i, c)

Spec == Init /\ [][Next]_vars

(* The handler of a SIGHUP runs on.                                        *)
FairSpec == Spec /\ WF_vars(at \in Reloading /\ Daemon)
-----------------------------------------------------------------------------

TypeOK ==
    /\ plan \in Plans
    /\ files \in Seq(File)
    /\ at \in Phases
    /\ k \in Nat \ {0}
    /\ list \in Seq(Server)
    /\ tab \in Table
    /\ nets \in [Names -> Nets \cup {NoNet}]
    /\ sets \in [Names -> SUBSET Clients]
    /\ runfiles \subseteq Names
    /\ shaped \subseteq Devs \X Ifbs
    /\ rows \subseteq Numbers \X Clients
    /\ reloads \in 0 .. MaxReloads
    /\ downs \in 0 .. MaxDowns

(* Two entries of the interface table never share an ifb device, whatever  *)
(* reloads do and although the masks of int and long differ in width.      *)
IfbApart == Apart(tab)

(* What the administrator must not do, each on its own.                    *)
NumbersKept ==
    \A c, d \in plan.configs : c.name = d.name <=> c.id = d.id
DevsKept ==
    \A c, d \in plan.configs : c.name = d.name /\ c.net = d.net => c.dev = d.dev
DevsDiffer ==
    \A c, d \in plan.configs : <<c.dev, d.dev>> \in StartsWith => c.dev = d.dev
Complete ==
    \A c \in plan.configs : c.name # NoName /\ c.net # NoNet /\ c.dev # NoDev

(* Whatever ends a process otherwise than by SIGTERM or a kill.            *)
MayFail ==
    \/ ~NumbersKept \/ ~DevsKept \/ ~DevsDiffer \/ ~Complete
    \/ plan.copies \/ ~plan.classdir \/ ~plan.logfile
    \/ ~plan.reliable \/ plan.polls
    \/ Cardinality({c.dev : c \in plan.configs}) >= IntBits
    \/ \E c \in plan.configs : ~(plan.clients \subseteq Inside(c.net))

(* Nothing is left of a process that was cut short.                        *)
Undisturbed == ~MayFail /\ downs = 0

Wanted == {files[i].config : i \in {j \in DOMAIN files : files[j].readable}}
Serving == {list[i].cfg : i \in DOMAIN list}

(* When a start or a reload is over, the virtual servers are those of the  *)
(* readable files, with the settings those files have now: as long as a    *)
(* name keeps its number and no file has a copy.                           *)
ConfiguredAreServed ==
    NumbersKept /\ ~plan.copies =>
        (at = "serve" => Serving = Wanted /\ Len(list) <= Len(files))

(* A virtual server that is served has its rules and its set, and the      *)
(* kernel lets exactly the sessions of its members through that are in the *)
(* network of the set, which is that of the file unless an earlier process *)
(* was cut short; and where no set was ever unreadable dbset knows exactly *)
(* those sessions: whatever was reloaded, reset or restarted before.       *)
ServedInThreePlaces ==
    NumbersKept /\ Complete /\ ~plan.copies /\ at = "serve" =>
        \A i \in DOMAIN list :
            LET n == list[i].cfg.name IN
            /\ list[i].map
            /\ n \in runfiles \cap exist
            /\ sets[n] = list[i].sess \cap Inside(nets[n])
            /\ plan.reliable => RowsOf(list[i].cfg.id) = list[i].sess
            /\ Undisturbed => nets[n] = list[i].cfg.net

(* The entry a virtual server points to exists, is its interface's, and    *)
(* counts its users: so the shaping of an interface ends with its last     *)
(* user.  Needs names that no other begins with, and a dev_internal that   *)
(* changes only together with clients or vserver_name.  What is marked as  *)
(* started is shaped.  Every interface in use is, if it is there, but what *)
(* a process that was cut short has started is not marked: without such a  *)
(* process exactly the interfaces in use are shaped, and marked.           *)
Users(d) == {i \in DOMAIN list : list[i].cfg.dev = d}
InTable == {<<tab.list[j].dev, tab.list[j].ifb>> : j \in DOMAIN tab.list}
InterfacesCounted ==
    NumbersKept /\ ~plan.copies /\ DevsKept /\ DevsDiffer /\ at = "serve" =>
        /\ \A i \in DOMAIN list : \E j \in DOMAIN tab.list :
              /\ tab.list[j].ifb = list[i].iface
              /\ tab.list[j].dev = list[i].cfg.dev
        /\ \A j \in DOMAIN tab.list :
              /\ tab.list[j].hit = Cardinality(Users(tab.list[j].dev))
              /\ plan.reliable \/ tab.list[j].init =>
                     <<tab.list[j].dev, tab.list[j].ifb>> \in shaped
              /\ Undisturbed => tab.list[j].init
        /\ Undisturbed => shaped = InTable

(* A start, a reload or the end of the process fails only for a file of    *)
(* the kinds above, a name, clients or dev_internal left out of one, a     *)
(* copy beside it, as many interfaces as an int has bits, a log file that  *)
(* cannot be opened, the lack of serviceclass_conf_dir (which a start may  *)
(* do without), a set or interface the kernel does not have, a round of    *)
(* the polling thread at that moment, or a login from outside the network. *)
FailsForAReason == at = "failed" => MayFail

SessionsOf(L, n) == UNION {L[i].sess : i \in {j \in DOMAIN L : L[j].cfg.name = n}}

(* A reload ends sessions only of a virtual server whose file is gone,     *)
(* cannot be read, or has other clients: those of every other one go on,   *)
(* whatever else its file changes.                                         *)
Moves ==
    \/ at' # at
    \/ k' # k
    \/ Len(list') # Len(list)
    \/ \E i \in DOMAIN list : list'[i].flag # list[i].flag
KeepsSessions(s) ==
    \/ SessionsOf(list, s.cfg.name) \subseteq SessionsOf(list', s.cfg.name)
    \/ \A c \in Wanted : c.name = s.cfg.name => c.net # s.cfg.net
ReloadStep ==
    /\ NumbersKept /\ ~plan.copies
    /\ at \in Reloading /\ at' \in Reloading \cup {"serve"}
    /\ Moves
ReloadKeepsSessions ==
    [][ReloadStep => \A i \in DOMAIN list : KeepsSessions(list[i])]_vars

(* A virtual server that a reload takes off the list leaves no rules and   *)
(* no set, and no row that a later one of that number would revive, if its *)
(* set could be read; else its sessions are gone but all their rows stay.  *)
(* No file may lack a name, clients or dev_internal.                       *)
LeavesNothing(s) ==
    LET inside == s.sess \cap Inside(nets[s.cfg.name]) IN
    /\ s.cfg.name \notin runfiles' \cup exist'
    /\ plan.reliable => ({s.cfg.id} \X s.sess) \cap rows' = {}
    /\ ({s.cfg.id} \X inside) \cap rows' = {} \/ rows' = rows
RemovedLeaveNothing ==
    [][ReloadStep /\ Complete /\ at = "unused" =>
          \A i \in DOMAIN list :
              list[i].cfg \in Serving' \/ LeavesNothing(list[i])]_vars

(* A reload ends: the loops of vserver_reload and vserver_unused_cleanup   *)
(* come to VS_DONE and to the end of the list from any flags.              *)
ReloadEnds == at \in Reloading ~> at \notin Reloading
===============================================================================
