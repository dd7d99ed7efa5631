----------------------------- MODULE MCConfigFile -----------------------------
(* Values of the constants of ConfigFile for TLC: a buffer of four         *)
(* characters, indices to the base of three, and plans for the structure   *)
(* of a file, for its lexemes, and for the settings of each kind.          *)
EXTENDS Grammar

Names == {"a", "b", "x", "q", "z", "main", "service_class", "hall"}
         \cup UNION {{s.name[1] : s \in {SettingsIn(t)[i] : i \in DOMAIN SettingsIn(t)}} :
                     t \in {"MAIN", "SERVICECLASS", "VSERVER"}}
MoreNames == {"0", "1", "4", "-", "_conf_dir", "_attribute", "_iface",
              "_raw_dev_external", "_raw_dev_internal", "_host", "_port",
              "_allow", "_x"}
Digits == <<"0", "1", "2">>
Hex == {"0", "4", "1", "a"}
Codes == (<<"4", "1">> :> "A") @@ (<<"0", "4">> :> "^D") @@ (<<"-", "4">> :> "u")
Numerals == ("10" :> 10) @@ ("24" :> 24)
Known == {<<"10">>}

Quoted(v) == <<"\"">> \o v \o <<"\"">>
Line(name, v) == name \o <<"=">> \o Quoted(v) \o <<"\n">>
Opens(name) == name \o <<" ", "=", " ", "{", "\n">>

Structure ==
    [lexemes |-> {<<"a", "=">>, Quoted(<<"v">>), <<"b", " ">>} \cup {<<c>> : c \in Marks},
     size |-> 6]

Lists ==
    [lexemes |-> {<<"main", "=", "{", "a", "=", "[">>,
                  Quoted(<<"v">>) \o <<",">> \o Quoted(<<"w">>), Quoted(<<>>),
                  <<"[">>, <<"]">>, <<"}">>, Line(<<"b">>, <<"v">>)},
     size |-> 6]

(* Names, escapes and comments, and what is no token, or only with more    *)
(* after it.                                                               *)
Lexical ==
    [lexemes |-> {Opens(<<"a", "-", "0">>), <<"}">>, <<"b", "=">>,
                  Quoted(<<"/", "/", "\\", "\"", "}">>),
                  Quoted(<<"\\", "x", "4", "1", "\\", "n">>),
                  Quoted(<<"v", "\\", "x", "z", "1", "v">>),
                  Quoted(<<"\\", "x", "4", "z", "\\", "0", "v">>
                         \o <<"\\", "x", " ", "4", "\\", "x", "-", "4">>),
                  <<"/", "/", "\"", "*", "\n">>, <<"/", "*", "\n", "*", "}", "*", "*", "/">>,
                  <<"$">>, <<"0">>, <<"/", "x">>,
                  Quoted(<<"\\", "q">>), Quoted(<<"\\", "\\">>),
                  <<"/", "/", "v">>, <<"/", "*", "*">>,
                  <<"\"", "v", "\\">>, <<"b", "-">>, <<"\"", "\\", "x", "4">>},
     size |-> 4]

(* A line for every setting of a section, and some more of their likes.    *)
ValueOfKind(kind) ==
    CASE kind = "number" -> <<"10">>
      [] kind = "flag" -> <<"yes">>
      [] kind = "network" -> <<"10", "/", "24">>
      [] OTHER -> <<"v">>

InSection(section, l) == Opens(section) \o l \o <<"}">>

LinesOf(type) == {Line(SettingsIn(type)[i].name, ValueOfKind(SettingsIn(type)[i].kind)) :
                  i \in DOMAIN SettingsIn(type)}

Sections(section, lines, n) ==
    [lexemes |-> {InSection(section, l) : l \in lines}, size |-> n]

MainFile == Sections(<<"main">>, LinesOf("MAIN") \cup
    {Line(<<"conf_dir">>, <<"w">>), Line(<<"serviceclass">>, <<"no">>),
     Line(<<"conf_dir", "_x">>, <<"w">>), Line(<<"x">>, <<"w">>)}, 2)
ClassFile == Sections(<<"service_class">>, LinesOf("SERVICECLASS") \cup
    {Line(<<"network">>, <<"z", "/", "z">>), Line(<<"network">>, <<"10">>),
     Line(<<"serviceclass_id">>, <<"z">>)}, 2)
ServerFile == Sections(<<"hall">>, LinesOf("VSERVER"), 1)
(* A list of n items, the last of them another one.                        *)
ListLine(name, n) ==
    LET item(i) == Quoted(<<IF i = n THEN "w" ELSE "v">>) IN
    name \o <<"=", "[">> \o FlattenSeq([i \in 1 .. n |-> item(i)]) \o <<"]">>

ServerPairs == Sections(<<"hall">>,
    {ListLine(<<"proxy">>, 2), ListLine(<<"dns">>, 5),
     Line(<<"proxy">>, <<"v">>), Line(<<"proxy">>, <<"w">>),
     Line(<<"proxy", "_host">>, <<"v">>), Line(<<"proxy", "_port">>, <<"v">>),
     Line(<<"bittorrent">>, <<"v">>), Line(<<"bittorrent", "_allow">>, <<"w">>),
     Line(<<"vlan">>, <<"v">>), Line(<<"vlan", "_raw_dev_internal">>, <<"w">>)}, 2)
Servers ==
    [lexemes |-> {Opens(<<"hall">>), Opens(<<"main", "hall">>), <<"}">>,
                  Line(<<"vserver_id">>, <<"10">>), Line(<<"dns">>, <<"v">>)},
     size |-> 4]

AllPlans ==
    [structure |-> Structure, lists |-> Lists, lexical |-> Lexical,
     main |-> MainFile, class |-> ClassFile, server |-> ServerFile, pairs |-> ServerPairs,
     servers |-> Servers]
=============================================================================
