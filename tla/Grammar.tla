-------------------------------- MODULE Grammar --------------------------------
(***************************************************************************)
(* What the settings of a configuration file mean, by the grammar of its   *)
(* tokens, and that rahunasd reads that.                                   *)
(***************************************************************************)
EXTENDS ConfigFile, Lexemes

(* The tokens i to j of t are settings, the items of a list, a value: by   *)
(* one rule, and what D derives of fewer tokens.                           *)
Spans(t) == {"settings", "items", "value"} \X (1 .. Len(t) + 1) \X (0 .. Len(t))

SettingsRule(t, D, i, j) ==
    \/ i > j
    \/ /\ i + 2 <= j
       /\ t[i].type = "T_IDENTIFIER"
       /\ t[i + 1].type = "="
       /\ \E k \in i + 2 .. j : D[<<"value", i + 2, k>>] /\ D[<<"settings", k + 1, j>>]

ItemsRule(t, D, i, j) ==
    \/ i > j
    \/ i <= j /\ t[i].type = "," /\ D[<<"items", i + 1, j>>]
    \/ \E k \in i .. j : D[<<"value", i, k>>] /\ D[<<"items", k + 1, j>>]

ValueRule(t, D, i, j) ==
    \/ i = j /\ t[i].type = "T_STRING"
    \/ i < j /\ t[i].type = "[" /\ t[j].type = "]" /\ D[<<"items", i + 1, j - 1>>]
    \/ i < j /\ t[i].type = "{" /\ t[j].type = "}" /\ D[<<"settings", i + 1, j - 1>>]

Rule(t, D, kind, i, j) ==
    CASE kind = "settings" -> SettingsRule(t, D, i, j)
      [] kind = "items" -> ItemsRule(t, D, i, j)
      [] kind = "value" -> ValueRule(t, D, i, j)

Derives(t) == LET D[x \in Spans(t)] == Rule(t, D, x[1], x[2], x[3]) IN D
IsSettings(t, i, j) == Derives(t)[<<"settings", i, j>>]
IsItems(t, i, j) == Derives(t)[<<"items", i, j>>]
IsValue(t, i, j) == Derives(t)[<<"value", i, j>>]

WellFormed(t) == IsSettings(t, 1, Len(t))

(* Something may follow that makes the text well formed (of what is open   *)
(* at most three lists and maps).                                          *)
Promising(s) ==
    \E value \in {<<>>, <<Mark("="), String(<<>>)>>, <<String(<<>>)>>},
       n \in 0 .. 3 :
        \E closers \in [1 .. n -> {Mark("]"), Mark("}")}] :
            WellFormed(Tokens(s) \o value \o closers)

(* The values of well formed settings, in their order, each under the      *)
(* names and numbers that lead to it (the next item of a list is the n-th).*)
(* A value that begins settings or items ends where they go on.            *)
EndOf(t, kind, i, j) ==
    CHOOSE k \in i .. j : IsValue(t, i, k) /\ Derives(t)[<<kind, k + 1, j>>]

Steps == Seq(Seq(STRING))
Phrases(t) == {x \in Spans(t) \X Steps \X Nat : Derives(t)[x[1]]}

SettingsMean(t, M, i, j, steps) ==
    IF i > j THEN <<>>
    ELSE LET k == EndOf(t, "settings", i + 2, j) IN
         M[<< <<"value", i + 2, k>>, Append(steps, t[i].word), 0>>]
            \o M[<< <<"settings", k + 1, j>>, steps, 0>>]

ItemsMean(t, M, i, j, steps, n) ==
    CASE i > j -> <<>>
      [] i <= j /\ t[i].type = "," -> M[<< <<"items", i + 1, j>>, steps, n>>]
      [] OTHER ->
            LET k == EndOf(t, "items", i, j) IN
            M[<< <<"value", i, k>>, Append(steps, Number[n]), 0>>]
               \o M[<< <<"items", k + 1, j>>, steps, n + 1>>]

ValueMeans(t, M, i, j, steps) ==
    CASE i = j -> << [steps |-> steps, value |-> t[i].word] >>
      [] i < j /\ t[i].type = "[" -> M[<< <<"items", i + 1, j - 1>>, steps, 0>>]
      [] OTHER -> M[<< <<"settings", i + 1, j - 1>>, steps, 0>>]

Mean(t, M, kind, i, j, steps, n) ==
    CASE kind = "settings" -> SettingsMean(t, M, i, j, steps)
      [] kind = "items" -> ItemsMean(t, M, i, j, steps, n)
      [] kind = "value" -> ValueMeans(t, M, i, j, steps)

Means(t) ==
    LET M[x \in Phrases(t)] == Mean(t, M, x[1][1], x[1][2], x[1][3], x[2], x[3]) IN M
Meaning(t) == Means(t)[<< <<"settings", 1, Len(t)>>, <<>>, 0>>]

(* The items of a list: the strings, lists and maps between its brackets.  *)
ItemsFrom(t, N, i, j) ==
    CASE i > j -> 0
      [] i <= j /\ t[i].type = "," -> N[<<i + 1, j>>]
      [] OTHER -> 1 + N[<<EndOf(t, "items", i, j) + 1, j>>]

ItemSpans(t) == {x \in (1 .. Len(t) + 1) \X (0 .. Len(t)) : IsItems(t, x[1], x[2])}
Items(t) == LET N[x \in ItemSpans(t)] == ItemsFrom(t, N, x[1], x[2]) IN N

(* A list with more than Base items.                                       *)
HasLongList(t) ==
    \E i, j \in DOMAIN t :
        /\ t[i].type = "[" /\ IsValue(t, i, j)
        /\ Items(t)[<<i + 1, j - 1>>] > Base

-----------------------------------------------------------------------------
(* Properties.                                                             *)

(* lcfg_parser_parse accepts the files whose text is tokens and nothing    *)
(* else and whose tokens the grammar derives, and no others, wherever the  *)
(* ends of the buffer fall.                                                *)
AcceptsWellFormed ==
    /\ status \in Accepted => WellFormed(Tokens(text))
    /\ status = "error" => ~WellFormed(Tokens(text))

(* Every value of an accepted file is kept, once, in order, under its path *)
(* (PATH_PUSH_STR, PATH_PUSH_INT, PATH_POP), as long as no list has more   *)
(* than ten items (Base, here).                                            *)
Joined[steps \in Steps] ==
    CASE steps = <<>> -> <<>>
      [] Len(steps) = 1 -> steps[1]
      [] OTHER -> Joined[Front(steps)] \o <<".">> \o Last(steps)

Written == Meaning(Tokens(text))
NoLongList == ~HasLongList(Tokens(text))

ValuesAsWritten ==
    status \in Accepted /\ NoLongList =>
        values = [i \in DOMAIN Written |->
                    [key |-> Joined[Written[i].steps], value |-> Written[i].value]]

(* What the examples call the sections.                                    *)
KindOf(section) ==
    CASE section = <<"main">> -> "MAIN"
      [] section = <<"service_class">> -> "SERVICECLASS"
      [] OTHER -> "VSERVER"

(* A setting as the examples have them: no virtual server is called main   *)
(* something, the name is in the list or begins like none of it, and is    *)
(* not one of two that a third shadows (vlan).                             *)
Documented(value) ==
    LET section == value.steps[1]
        name == value.steps[2]
        settings == SettingsIn(KindOf(section))
        names == {settings[i].name : i \in DOMAIN settings} IN
    /\ TypeOf(section) = KindOf(section)
    /\ name \in names \/ \A n \in names : ~IsPrefix(n, name)
    /\ name \notin {<<"vlan", "_raw_dev_external">>,
                    <<"vlan", "_raw_dev_internal">>}

Exactly(value) ==
    LET settings == SettingsIn(KindOf(value.steps[1]))
        exact == {i \in DOMAIN settings : settings[i].name = value.steps[2]} IN
    IF exact = {} THEN <<>>
    ELSE Sets(settings[CHOOSE i \in exact : TRUE], CString(value.value))

(* The settings after the first n values: of several the last counts, and  *)
(* the first section names the virtual server.                             *)
Named(value) == NameOfServer(KindOf(value.steps[1]), value.steps[1])

After(all, n) ==
    LET setBy(f) == {i \in 1 .. n : f \in DOMAIN Exactly(all[i])}
        namedBy(f) == {i \in 1 .. n : f \in DOMAIN Named(all[i])} IN
    [f \in UNION {DOMAIN Exactly(all[i]) \cup DOMAIN Named(all[i]) : i \in 1 .. n} |->
        IF setBy(f) # {} THEN Exactly(all[Max(setBy(f))])[f]
        ELSE Named(all[Min(namedBy(f))])[f]]

(* rahunas_visitor: of documented settings each sets what it is called,    *)
(* and only that, whichever other names begin like its own; the last of    *)
(* several, or of a list, counts, and the first section names the virtual  *)
(* server.  (After a list of more than ten the names of the sections are   *)
(* lost.)                                                                  *)
SettingsAsWritten ==
    (/\ status = "configured"
     /\ NoLongList
     /\ \A i \in DOMAIN Written : Documented(Written[i])) =>
        config = After(Written, Len(Written))

(* The visitor writes through a null pointer (rh-config.c:44) only for a   *)
(* setting outside of every section, or after a list of more than ten.     *)
CrashesForAReason ==
    status = "crashed" =>
        \/ \E i \in DOMAIN Written : Len(Written[i].steps) = 1
        \/ ~NoLongList
================================================================================
