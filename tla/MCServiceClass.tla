---------------------------- MODULE MCServiceClass ----------------------------
(* Values of the constants of ServiceClass for TLC: addresses of four      *)
(* bits, networks of one slot and of none, and plans that keep to the      *)
(* rules or break one each.  Network cards are told apart, nothing else.   *)
EXTENDS ServiceClass, TLC

Gold == [name |-> "gold", id |-> 1, base |-> 0, prefix |-> 2]
Tin == [name |-> "tin", id |-> 2, base |-> 4, prefix |-> 2]

Good(configs) == [configs |-> configs, removes |-> FALSE, reliable |-> TRUE,
                  refuses |-> FALSE]

TwoClasses == Good({Gold, Tin})
ManySlots == Good({[Gold EXCEPT !.prefix = 1, !.base = 14]})
Removed == [TwoClasses EXCEPT !.removes = TRUE]
Readdressed == [configs |-> {Gold, [Gold EXCEPT !.base = 4]}, removes |-> TRUE,
                reliable |-> FALSE, refuses |-> FALSE]
SameNumber == Good({Gold, [Tin EXCEPT !.id = 1]})
Renumbered == [Good({Gold, [Gold EXCEPT !.id = 2]}) EXCEPT !.removes = TRUE]
BadSql == [Good({Gold}) EXCEPT !.reliable = FALSE]
Overlap == [Good({Gold, [Tin EXCEPT !.base = 0]}) EXCEPT !.refuses = TRUE]
TooSmall == Good({[Gold EXCEPT !.prefix = 3]})
NoMask == Good({[Gold EXCEPT !.prefix = 0]})
Whole == Good({[Gold EXCEPT !.prefix = 4]})
NoName == [Good({[Gold EXCEPT !.name = NoClass], Tin}) EXCEPT !.removes = TRUE]

AllPlans == {TwoClasses, ManySlots, Removed, Readdressed, SameNumber,
             Renumbered, BadSql, Overlap, TooSmall, NoMask, Whole, NoName}

Cards == Permutations(Macs)
=============================================================================
