------------------------------ MODULE Interfaces ------------------------------
(***************************************************************************)
(* The table of internal interfaces that the virtual servers share         *)
(* (src/src/rh-config.c): interfaces_list, whose entries count the virtual *)
(* servers that use them, and ifb_reserved, the numbers of the ifb devices *)
(* given to them.  Names are compared over the length of the name looked   *)
(* for, so that "eth1" finds the entry of "eth10".                         *)
(***************************************************************************)
EXTENDS Naturals, SequencesExt, FiniteSetsExt

CONSTANTS
    Devs,         \* names of internal interfaces
    StartsWith,   \* pairs of names: the first one begins with the second
    MaxIfb,       \* MAX_IFB_IFACE, and the width of an unsigned long
    IntBits       \* the width of an int

ASSUME InterfacesAssumption ==
    /\ IsFiniteSet(Devs)     \* names of at most 31 characters
    /\ StartsWith \subseteq Devs \X Devs
    /\ \A d \in Devs : <<d, d>> \in StartsWith
    /\ MaxIfb \in Nat \ {0}
    /\ IntBits \in 1 .. MaxIfb

Ifbs == 0 .. MaxIfb - 1
NoIfb == MaxIfb    \* ifb_interface_reserve() < 0, or a NULL entry

Entry == [dev : Devs, ifb : Ifbs, hit : Nat \ {0}, init : BOOLEAN]
Table == [list : Seq(Entry), reserved : SUBSET Ifbs]
NoInterfaces == [list |-> <<>>, reserved |-> {}]

(* The bits of `mask = 1 << i`: an int is shifted, the processor takes the *)
(* amount modulo its width, and its sign bit extends to the unsigned long. *)
Mask(i) ==
    IF i % IntBits = IntBits - 1
    THEN {b \in Ifbs : b >= IntBits - 1}
    ELSE {i % IntBits}

FreeIfbs(reserved) == {i \in Ifbs : reserved \cap Mask(i) = {}}

ifb_interface_reserve(reserved) ==
    IF FreeIfbs(reserved) = {} THEN NoIfb ELSE Min(FreeIfbs(reserved))

(* The shift of an unsigned long clears one bit.                           *)
ReleaseOthers(reserved, i) == reserved \cap {i}    \* mutant: no `mask = ~mask`

ifb_interface_release(reserved, i) == reserved \ {i}

Found(list, d) == {k \in DOMAIN list : <<list[k].dev, d>> \in StartsWith}

append_interface(tab, d) ==
    LET found == Found(tab.list, d)
        ifb == ifb_interface_reserve(tab.reserved)
        item == [dev |-> d, ifb |-> ifb, hit |-> 1, init |-> FALSE]
    IN  IF d \notin Devs THEN tab    \* NULL
        ELSE IF found # {} THEN [tab EXCEPT !.list[Min(found)].hit = @ + 1]
        ELSE IF ifb = NoIfb THEN tab
        ELSE [list |-> Append(tab.list, item),
              reserved |-> tab.reserved \cup Mask(ifb)]

(* Every entry that matches loses a user, up to the first that has none    *)
(* left, which goes.                                                       *)
(* mutant: the entry goes as soon as one of its users does *)
RemoveAnyway(tab, d) ==
    LET found == Found(tab.list, d) IN
    IF found = {} THEN tab
    ELSE [list |-> RemoveAt(tab.list, Min(found)),
          reserved |-> tab.reserved \ {tab.list[Min(found)].ifb}]

(* mutant: an entry without users stays until one more goes *)
RemoveLate(tab, d) ==
    [tab EXCEPT !.list = [k \in DOMAIN tab.list |->
        IF k \in Found(tab.list, d) THEN [tab.list[k] EXCEPT !.hit = @ - 1]
        ELSE tab.list[k]]]

remove_interface(tab, d) ==
    LET found == Found(tab.list, d)
        last == {k \in found : tab.list[k].hit <= 1}
        end == IF last = {} THEN Len(tab.list) ELSE Min(last)
        counted == [k \in DOMAIN tab.list |->
                       IF k \in found /\ k <= end
                       THEN [tab.list[k] EXCEPT !.hit = @ - 1]
                       ELSE tab.list[k]]
    IN  IF last = {} THEN [tab EXCEPT !.list = counted]
        ELSE [list |-> RemoveAt(counted, end),
              reserved |-> ifb_interface_release(tab.reserved,
                                                 tab.list[end].ifb)]

(* The ifb number names the entry: no two entries have the same.           *)
get_interface(tab, d) ==
    IF Found(tab.list, d) = {} THEN NoIfb
    ELSE tab.list[Min(Found(tab.list, d))].ifb

WithIfb(tab, i) == {k \in DOMAIN tab.list : tab.list[k].ifb = i}
SetInit(tab, i, b) ==
    [tab EXCEPT !.list = [k \in DOMAIN tab.list |->
        IF tab.list[k].ifb = i THEN [tab.list[k] EXCEPT !.init = b]
        ELSE tab.list[k]]]

(* Entries that exist have numbers of their own, and those are reserved.   *)
Apart(tab) ==
    /\ \A j, k \in DOMAIN tab.list : tab.list[j].ifb = tab.list[k].ifb => j = k
    /\ \A k \in DOMAIN tab.list : tab.list[k].ifb \in tab.reserved
===============================================================================
