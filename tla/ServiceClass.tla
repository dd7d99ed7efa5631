----------------------------- MODULE ServiceClass -----------------------------
(***************************************************************************)
(* Service classes of rahunasd: the clients of a class are translated, one *)
(* by one, into the addresses of the class's network.                      *)
(* src/src/rh-serviceclass.c keeps the list of classes over reloads,       *)
(* src/src/rh-task-serviceclass.c is the task that gives a session its     *)
(* slot, an address of the network, and tells the kernel, before the task  *)
(* DBSET writes the row that reserves the slot.                            *)
(*                                                                         *)
(* Starts run on the main thread alone and whole tasks under RHMtxLock, so *)
(* that one start is a step, and so is one stop.  (A crash in between      *)
(* loses what the next start flushes or restores.)                         *)
(*                                                                         *)
(* The kernel's set maps an address to another one and finds its elements  *)
(* by the first (rahunas_ipiphash_id in ip_set_rahunas_ipiphash.h); `to`   *)
(* is its part for clients, `from` its part for the class's addresses.     *)
(***************************************************************************)
EXTENDS Naturals, SequencesExt, FiniteSetsExt

CONSTANTS
    Clients,      \* addresses of clients
    Macs,         \* and of their network cards
    NoClass,      \* serviceclass_name is NULL, "(null)" in a row
    ClassNames,
    Ids,          \* serviceclass_id
    Width,        \* the bits of an address
    Plans,        \* what an administrator and the outside may do: see Plan
    MaxFiles,     \* bound: files in the directory
    MaxReloads,   \* bound: SIGHUPs
    MaxDowns      \* bound: crashes and SIGTERMs

Addrs == 0 .. 2 ^ Width - 1
Names == ClassNames \cup {NoClass}
Config == [name : Names, id : Ids, base : Addrs, prefix : 0 .. Width]

(* The configurations ever written; whether files go away or become        *)
(* unreadable while the daemon runs; whether SQL statements all work (a    *)
(* SELECT that fails finds nothing); whether the kernel may refuse an      *)
(* entry (the errors other than EEXIST are ignored).                       *)
Plan == [configs : SUBSET Config, removes : BOOLEAN, reliable : BOOLEAN,
         refuses : BOOLEAN]

ASSUME ServiceClassAssumption ==
    /\ NoClass \notin ClassNames
    /\ Width \in Nat
    /\ \A p \in 0 .. Width : 2 ^ p \in Nat \ {0}    \* arithmetic, for proofs
    /\ 2 ^ 0 = 1 /\ \A p \in 1 .. Width : 2 ^ p = 2 * 2 ^ (p - 1)
    /\ Plans \subseteq Plan
    /\ MaxFiles \in Nat
    /\ MaxReloads \in Nat
    /\ MaxDowns \in Nat

Flags == {"NONE", "INIT", "RELOAD", "RESET", "DONE"}
File == [config : Config, readable : BOOLEAN]
Class == [cfg : Config, dummy : Config, flag : Flags]

(* slot 0 and NoClass: not in a class.  addr is mapping_ip.                *)
Offline == [on |-> FALSE, class |-> NoClass, slot |-> 0, addr |-> 0]
Member == [on : BOOLEAN, class : Names, slot : Addrs, addr : Addrs]
Row == [client : Clients, mac : Macs, class : Names, slot : Addrs]

Reloading == {"read", "unused"}
Phases == {"down", "failed", "bootread", "restore", "serve"} \cup Reloading

VARIABLES
    plan,      \* never changes
    files,     \* the class directory, in the order of readdir
    at,        \* what the process is doing
    k,         \* the file it is at
    list,      \* serviceclass_list
    members,   \* the class fields of the member of each client
    rows,      \* dbset
    to, from,  \* the kernel's set
    todo,      \* rows not yet restored
    reloads,
    downs

vars == <<plan, files, at, k, list, members, rows, to, from, todo, reloads,
          downs>>
kernel == <<to, from>>
sessions == <<members, rows, to, from, todo>>
bounds == <<plan, reloads, downs>>

NoMembers == [c \in Clients |-> Offline]

Init ==
    /\ plan \in Plans
    /\ files = <<>>
    /\ at = "down"
    /\ k = 1
    /\ list = <<>>
    /\ members = NoMembers
    /\ rows = {}
    /\ to = {}
    /\ from = {}
    /\ todo = {}
    /\ reloads = 0
    /\ downs = 0

(* A directory of the plan; what was there stays there if nothing is ever  *)
(* removed.                                                                *)
Wanted(dir) == {dir[i].config : i \in {j \in DOMAIN dir : dir[j].readable}}

Directories ==
    {dir \in UNION {[1 .. n -> [config : plan.configs, readable : BOOLEAN]] :
                       n \in 0 .. MaxFiles} :
        /\ \A i, j \in DOMAIN dir :
              dir[i].config.name = dir[j].config.name => i = j
        /\ plan.removes \/ Wanted(files) \subseteq Wanted(dir)}

(* The network of a class: `(1 << (32 - prefix)) - 2`, unsigned; atoi gives *)
(* 0 for a network without a mask.                                         *)
NetSizeHalf(prefix) ==    \* mutant: 31 - prefix
    IF prefix \in {0, Width} THEN 0 ELSE (2 ^ (Width - 1 - prefix)) - 2

NetSize(prefix) ==
    IF prefix = 0 THEN 0
    ELSE (2 ^ (Width - prefix) + 2 ^ Width - 2) % 2 ^ Width

SizeOf(cfg) == NetSize(cfg.prefix)

AddressFlat(cfg, slot) == cfg.base + slot    \* mutant: addresses do not wrap

Address(cfg, slot) == (cfg.base + slot) % 2 ^ Width

GoTo(phase) == at' = phase /\ k' = 1

-----------------------------------------------------------------------------
(* The list of classes. *)

(* A file without serviceclass_name gives a class whose name is NULL: to   *)
(* compare a name with it, or its name with another, ends the process.     *)
Nameless == {i \in DOMAIN list : list[i].cfg.name = NoClass}

ByName(name) == {i \in DOMAIN list : name # NoClass /\ list[i].cfg.name = name}

serviceclass_exists(id, name) ==
    {i \in DOMAIN list : list[i].cfg.id = id} \cup ByName(name)

(* The number is compared first, the name of the one found once more.      *)
NameMissing(c) ==
    \/ c.name = NoClass /\ list # <<>>
    \/ \E i \in Nameless : \A j \in serviceclass_exists(c.id, c.name) : i <= j

Die(phase) ==
    /\ GoTo(phase)
    /\ list' = <<>>
    /\ members' = NoMembers
    /\ todo' = {}

Registered(c) ==
    LET old == serviceclass_exists(c.id, c.name) IN
    IF old = {} THEN Append(list, [cfg |-> c, dummy |-> c, flag |-> "INIT"])
    ELSE [list EXCEPT ![Min(old)].dummy = c,
                      ![Min(old)].flag =
                          IF list[Min(old)].cfg.name = c.name THEN "RELOAD" ELSE "RESET"]

register_serviceclass ==
    /\ at \in {"read", "bootread"}
    /\ k <= Len(files)
    /\ LET c == files[k].config IN
       IF files[k].readable /\ NameMissing(c) THEN Die("failed")
       ELSE /\ k' = k + 1
            /\ list' = IF files[k].readable THEN Registered(c) ELSE list
            /\ UNCHANGED <<at, members, todo>>
    /\ UNCHANGED <<files, rows, kernel, bounds>>

(* serviceclass_reload of one class.  Nothing is done for the sessions of  *)
(* a class whose network changes.                                          *)
ReloadedOld(s) ==    \* mutant: the new configuration is not taken
    [s EXCEPT !.flag = IF s.flag = "DONE" THEN "NONE" ELSE "DONE"]

Reloaded(s) ==
    IF s.flag = "DONE" THEN [s EXCEPT !.flag = "NONE"]
    ELSE [s EXCEPT !.flag = "DONE",
                   !.cfg = IF s.flag \in {"RELOAD", "RESET"} THEN s.dummy ELSE @]

serviceclass_reload ==
    /\ at = "read"
    /\ k > Len(files)
    /\ list' = [i \in DOMAIN list |-> Reloaded(list[i])]
    /\ GoTo("unused")
    /\ UNCHANGED <<files, sessions, bounds>>

Unused == {i \in DOMAIN list : list[i].flag = "NONE"}

(* The first class of that number goes.                                    *)
unregister_serviceclass(id) ==
    list' = RemoveAt(list, Min({i \in DOMAIN list : list[i].cfg.id = id}))

serviceclass_unused_cleanup ==
    /\ at = "unused"
    /\ IF Unused = {} THEN GoTo("serve") /\ UNCHANGED list
       ELSE unregister_serviceclass(list[Min(Unused)].cfg.id)
            /\ UNCHANGED <<at, k>>
    /\ UNCHANGED <<files, sessions, bounds>>

Hangup(dir) ==
    /\ at = "serve"
    /\ reloads < MaxReloads
    /\ reloads' = reloads + 1
    /\ files' = dir
    /\ GoTo("read")
    /\ UNCHANGED <<plan, list, sessions, downs>>

-----------------------------------------------------------------------------
(* The life of the process. *)

Boot(dir) ==
    /\ at \in {"down", "failed"}
    /\ files' = dir
    /\ GoTo("bootread")
    /\ UNCHANGED <<list, sessions, bounds>>

(* startservice flushes the set; a virtual server restores its rows.       *)
startservice ==
    /\ at = "bootread"
    /\ k > Len(files)
    /\ list' = [i \in DOMAIN list |-> [list[i] EXCEPT !.flag = "DONE"]]
    /\ to' = {}
    /\ from' = {}
    /\ todo' \in {rows} \cup (IF plan.reliable THEN {} ELSE {{}})
    /\ GoTo("restore")
    /\ UNCHANGED <<files, members, rows, bounds>>

Crash ==
    /\ at \notin {"down", "failed"}
    /\ downs < MaxDowns
    /\ downs' = downs + 1
    /\ Die("down")
    /\ UNCHANGED <<plan, files, rows, kernel, reloads>>

(* rh_exit: the sessions are stopped, if the set of clients can be read and *)
(* a class without a name does not end the process first; the set of this  *)
(* task is flushed here or by the next start.                              *)
Terminate ==
    /\ at = "serve"
    /\ downs < MaxDowns
    /\ downs' = downs + 1
    /\ rows' \in SUBSET rows
    /\ to' = {}
    /\ from' = {}
    /\ Die("down")
    /\ UNCHANGED <<plan, files, reloads>>

-----------------------------------------------------------------------------
(* Sessions. *)

Taken(name, slot) == \E r \in rows : r.class = name /\ r.slot = slot

(* _sc_get_slot_id: `random() % network_size`, refused while 0 or in a row, *)
(* tried 29 times, as a rule with the same seed; 0 if it found none.       *)
DrawnAny(cfg) == 0 .. SizeOf(cfg) - 1    \* mutant: the rows are not asked

Drawn(cfg) ==
    {0} \cup {i \in 1 .. SizeOf(cfg) - 1 : plan.reliable => ~Taken(cfg.name, i)}

(* The entry of the client and the one of the address, or neither: the     *)
(* first is reverted if the second exists.  An entry the kernel refuses    *)
(* for want of room counts as added.                                       *)
Added(map, x, y) ==
    {map \cup {<<x, y>>}} \cup (IF plan.refuses THEN {map} ELSE {})
HasKey(map, x) == \E p \in map : p[1] = x

Mapped(c, cfg, slot) ==
    LET a == Address(cfg, slot) IN
    /\ to' \in Added(to, c, a)
    /\ from' \in Added(from, a, c)
    /\ members' = [members EXCEPT ![c] =
                      [on |-> TRUE, class |-> cfg.name, slot |-> slot, addr |-> a]]

(* The login goes on without a class.                                      *)
NotMapped(c) ==
    /\ members' = [members EXCEPT ![c] = [Offline EXCEPT !.on = TRUE]]
    /\ UNCHANGED kernel

CanMapHalf(c, cfg, slot) ==    \* mutant: only the first entry may exist
    /\ slot # 0
    /\ slot <= SizeOf(cfg)
    /\ ~HasKey(to, c)

CanMap(c, cfg, slot) ==
    /\ slot # 0
    /\ slot <= SizeOf(cfg)
    /\ ~HasKey(to, c)
    /\ ~HasKey(from, Address(cfg, slot))

(* The row that reserves the slot.  Its key is the address and the MAC, so *)
(* that of a session whose DELETE was lost may stay beside it.             *)
Saved(c, mac) ==
    LET row == [client |-> c, mac |-> mac, class |-> members'[c].class,
                slot |-> members'[c].slot]
    IN  \/ rows' = IF \E r \in rows : r.client = c /\ r.mac = mac THEN rows
                   ELSE rows \cup {row}
        \/ ~plan.reliable /\ rows' = rows

(* startsess of MEMSET, SERVICECLASS and DBSET, slot being the one in the  *)
(* request; who is a member already begins again without a class.          *)
StartSess(c, mac, name, slot) ==
    /\ IF ByName(name) = {} THEN NotMapped(c)
       ELSE LET cfg == list[Min(ByName(name))].cfg IN
            \E s \in IF slot = 0 THEN Drawn(cfg) ELSE {slot} :
               IF CanMap(c, cfg, s) THEN Mapped(c, cfg, s) ELSE NotMapped(c)
    /\ Saved(c, mac)

(* A look-up ends the process at a class without a name, as does a slot    *)
(* asked for in a network of size 0, a division.                           *)
Strays(name) == \E i \in Nameless : \A j \in ByName(name) : i < j

Divides(name, slot) ==
    /\ slot = 0
    /\ ByName(name) # {}
    /\ SizeOf(list[Min(ByName(name))].cfg) = 0

Login(c, mac, name) ==
    /\ at = "serve"
    /\ ~members[c].on
    /\ UNCHANGED <<files, bounds>>
    /\ IF Strays(name) \/ Divides(name, 0)
       THEN Die("failed") /\ UNCHANGED <<rows, kernel>>
       ELSE StartSess(c, mac, name, 0) /\ UNCHANGED <<at, k, list, todo>>

RestoreRedraws ==    \* mutant: the row's slot is not passed on
    /\ at = "restore"
    /\ \E r \in todo :
         /\ ~Strays(r.class) /\ ~Divides(r.class, 0)
         /\ todo' = todo \ {r}
         /\ StartSess(r.client, r.mac, r.class, 0)
    /\ UNCHANGED <<files, at, k, list, bounds>>

Restore ==
    /\ at = "restore"
    /\ \E r \in todo :
         IF Strays(r.class) \/ Divides(r.class, r.slot)
         THEN Die("failed") /\ UNCHANGED <<rows, kernel>>
         ELSE /\ todo' = todo \ {r}
              /\ StartSess(r.client, r.mac, r.class, r.slot)
              /\ UNCHANGED <<at, k, list>>
    /\ UNCHANGED <<files, bounds>>

Restored ==
    /\ at = "restore"
    /\ todo = {}
    /\ GoTo("serve")
    /\ UNCHANGED <<files, list, sessions, bounds>>

(* The address is computed again, from the class of that name as it is     *)
(* now; of an entry that leads elsewhere the kernel may think either way.  *)
(* The second entry is tried only after the first was found.               *)
Deleted(map, x, y) ==
    IF <<x, y>> \in map THEN {map \ {<<x, y>>}}
    ELSE {map, {p \in map : p[1] # x}}

UnmapFirst(c, cfg, slot) ==    \* mutant: only the client's entry goes
    /\ to' \in Deleted(to, c, Address(cfg, slot))
    /\ UNCHANGED from

Unmap(c, cfg, slot) ==
    LET a == Address(cfg, slot) IN
    /\ to' \in Deleted(to, c, a)
    /\ IF to' = to THEN UNCHANGED from ELSE from' \in Deleted(from, a, c)

(* DELETE by the session: of the rows of a client one at most, not always  *)
(* the one its member was restored from.                                   *)
RowsLeft(c) ==
    LET own == {r \in rows : r.client = c} IN
    IF plan.reliable THEN {rows \ own} ELSE {rows} \cup {rows \ {r} : r \in own}

(* A stop request, or the polling thread, which a reload does not hold up: *)
(* DBSET, then SERVICECLASS, then MEMSET.                                  *)
Stop(c) ==
    /\ at \in {"serve"} \cup Reloading
    /\ members[c].on
    /\ rows' \in RowsLeft(c)
    /\ LET name == members[c].class
           slot == members[c].slot
           known == name # NoClass /\ ByName(name) # {} /\ slot # 0
       IN  IF name # NoClass /\ Strays(name) THEN Die("failed") /\ UNCHANGED kernel
           ELSE /\ members' = [members EXCEPT ![c] = Offline]
                /\ IF known /\ slot <= SizeOf(list[Min(ByName(name))].cfg)
                   THEN Unmap(c, list[Min(ByName(name))].cfg, slot)
                   ELSE UNCHANGED kernel
                /\ UNCHANGED <<at, k, list, todo>>
    /\ UNCHANGED <<files, bounds>>

Next ==
    \/ register_serviceclass
    \/ serviceclass_reload
    \/ serviceclass_unused_cleanup
    \/ startservice
    \/ Restore
    \/ Restored
    \/ \E dir \in Directories : Boot(dir) \/ Hangup(dir)
    \/ Crash
    \/ Terminate
    \/ \E c \in Clients, mac \in Macs, name \in ClassNames : Login(c, mac, name)
    \/ \E c \in Clients : Stop(c)

Spec == Init /\ [][Next]_vars
-----------------------------------------------------------------------------

TypeOK ==
    /\ plan \in Plans
    /\ files \in Seq(File)
    /\ at \in Phases
    /\ k \in Nat \ {0}
    /\ list \in Seq(Class)
    /\ members \in [Clients -> Member]
    /\ rows \subseteq Row
    /\ to \subseteq Clients \X Addrs
    /\ from \subseteq Addrs \X Clients
    /\ todo \subseteq rows
    /\ reloads \in 0 .. MaxReloads
    /\ downs \in 0 .. MaxDowns

(* What the administrator must not do.                                     *)
NumbersApart == \A c, d \in plan.configs : c.id = d.id => c.name = d.name
NamesKept == NumbersApart /\ \A c, d \in plan.configs : c.name = d.name => c = d

(* Two rows never reserve one slot of a class, whatever was reloaded,      *)
(* stopped or restored: if SQL works, a slot is asked for before it is     *)
(* taken.                                                                  *)
SlotsApart ==
    plan.reliable =>
        \A r, s \in rows :
            r.class = s.class /\ r.class # NoClass /\ r.slot = s.slot => r = s

(* No two sessions are translated into one address ("one by one",          *)
(* example/rahunas-serviceclass.conf.in), even with a class removed, read  *)
(* again or a crash in between; with or without a working database.        *)
InClass(c) == members[c].class # NoClass
AddressesApart ==
    NamesKept /\ ~plan.refuses /\ at \notin {"down", "failed"} =>
        \A c, d \in Clients :
            InClass(c) /\ InClass(d) /\ members[c].addr = members[d].addr => c = d

(* A session that was told a mapping is translated, there and back, as     *)
(* long as no class goes or changes its network while the daemon runs and  *)
(* the kernel has room.  Nobody else is, if SQL works: of two rows of one  *)
(* client the second undoes at a restart what its member was told, and the *)
(* entries of the first stay.                                              *)
KernelServesMembers ==
    NamesKept /\ ~plan.removes /\ ~plan.refuses /\ at \in {"serve"} \cup Reloading =>
        LET mine == {c \in Clients : InClass(c)}
            there == {<<c, members[c].addr>> : c \in mine}
            back == {<<members[c].addr, c>> : c \in mine}
        IN  /\ there \subseteq to /\ back \subseteq from
            /\ plan.reliable => to = there /\ from = back

(* A session keeps its class and slot over reloads and restarts: what its  *)
(* one row says is what its member has, and nobody else has a row.         *)
RowsMatchMembers ==
    NamesKept /\ ~plan.removes /\ plan.reliable /\ ~plan.refuses
        /\ at = "serve" =>
        /\ \A r, s \in rows : r.client = s.client => r = s
        /\ {<<r.client, r.class, r.slot>> : r \in rows} =
           {<<c, members[c].class, members[c].slot>> :
               c \in {d \in Clients : members[d].on}}

(* After a reload the classes are those of the readable files.             *)
ConfiguredAreServed ==
    NumbersApart /\ at = "serve" =>
        {list[i].cfg : i \in DOMAIN list} = Wanted(files)

(* A login, the end of a session, a restart or a reload ends the process   *)
(* only if some class has a network too small to have a slot or none at    *)
(* all, or has no name.                                                    *)
FailsForAReason ==
    at = "failed" =>
        \E c \in plan.configs : c.prefix \in {0, Width - 1} \/ c.name = NoClass
===============================================================================
