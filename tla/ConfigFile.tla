------------------------------ MODULE ConfigFile ------------------------------
(***************************************************************************)
(* What the values of a configuration file set (src/src/rh-config.c): the  *)
(* visitor finds the setting by the prefixes of the path's first two parts.*)
(*                                                                         *)
(* union rahunas_config is a record of the settings that were set, a text  *)
(* or a number each.  Its three structures share their memory: a file has  *)
(* sections of one kind, as the examples say.                              *)
(***************************************************************************)
EXTENDS Lcfg

CONSTANTS
    NumberOf,     \* numerals -> the number atoi returns
    Addresses     \* the texts inet_aton accepts

(* The settings in the order the code tries them, where a name starts with *)
(* an earlier one split after that.                                        *)
Setting(kind, name) == [kind |-> kind, name |-> name]
Text(name) == Setting("text", <<name>>)

MainSettingsSwapped ==    \* mutant: a name is tried before a longer one
    << Setting("text", <<"conf_dir">>),
       Setting("flag", <<"serviceclass">>),
       Setting("text", <<"serviceclass", "_conf_dir">>) >>

MainSettings ==
    << Setting("text", <<"conf_dir">>),
       Setting("text", <<"serviceclass", "_conf_dir">>),
       Setting("text", <<"log_file">>),
       Setting("text", <<"dhcp">>),
       Setting("ignored", <<"serviceclass", "_attribute">>),
       Setting("flag", <<"serviceclass">>),
       Setting("flag", <<"bandwidth_shape">>),
       Setting("number", <<"bittorrent_download_max">>),
       Setting("number", <<"bittorrent_upload_max">>),
       Setting("number", <<"polling_interval">>) >>

ServiceClassSettings ==
    << Setting("number", <<"serviceclass_id">>),
       Setting("text", <<"serviceclass_name">>),
       Setting("text", <<"description">>),
       Setting("network", <<"network">>),
       Setting("text", <<"fake_arpd", "_iface">>),
       Setting("text", <<"fake_arpd">>) >>

VServerSettings ==
    << Setting("number", <<"vserver_id">>), Text("dev_external"), Text("dev_internal"),
       Text("vlan"), Setting("text", <<"vlan", "_raw_dev_external">>),
       Setting("text", <<"vlan", "_raw_dev_internal">>),
       Text("bridge"), Text("masquerade"), Text("ignore_mac"), Text("vserver_ip"),
       Text("vserver_fqdn"), Text("vserver_ports_allow"),
       Text("vserver_ports_intercept"), Text("clients"), Text("excluded"),
       Setting("number", <<"idle_timeout">>), Text("dns"), Text("ssh"),
       Setting("text", <<"proxy", "_host">>), Setting("text", <<"proxy", "_port">>),
       Text("proxy"), Setting("text", <<"bittorrent", "_allow">>), Text("bittorrent"),
       Text("radius_host"), Text("radius_secret"), Text("radius_encrypt"),
       Text("radius_auth_port"), Text("radius_account_port"), Text("nas_identifier"),
       Text("nas_port"), Text("nas_login_title"), Text("nas_default_redirect"),
       Text("nas_default_language"), Text("nas_weblogin_template") >>

SettingsIn(type) == CASE type = "MAIN" -> MainSettings
                      [] type = "SERVICECLASS" -> ServiceClassSettings
                      [] OTHER -> VServerSettings

VARIABLES
    visited,   \* the values lcfg_parser_accept has passed
    config     \* union rahunas_config

vars == <<lcfgVars, visited, config>>

Init == LcfgInit /\ visited = 0 /\ config = <<>>

-----------------------------------------------------------------------------
(* atoi, and the comparison with yes.                                      *)
Atoi(v) == IF v # <<>> /\ v[1] \in DOMAIN NumberOf THEN NumberOf[v[1]] ELSE 0
Yes(v) == IF IsPrefix(<<"yes">>, v) THEN 1 ELSE 0

(* A value ends at its first NUL (strndup).                                *)
CString(v) ==
    LET nul == SelectInSeq(v, LAMBDA c : c = Nul) IN
    IF nul = 0 THEN v ELSE SubSeq(v, 1, nul - 1)

(* One field and its value; the fields of both, those of new over old's.   *)
Field(name, v) == [f \in {name} |-> v]
Over(new, old) ==
    [f \in DOMAIN new \cup DOMAIN old |-> IF f \in DOMAIN new THEN new[f] ELSE old[f]]

AsText(v) == [text |-> v, number |-> 0]
AsNumber(n) == [text |-> <<>>, number |-> n]

(* A network without a mask sets nothing; one whose address inet_aton does *)
(* not understand keeps the old start_addr, with the new size.             *)
NetworkSize(mask) == IF mask = 0 THEN 0 ELSE 2 ^ (32 - mask) - 2

NetworkSets(v) ==
    LET slash == SelectInSeq(v, LAMBDA c : c = "/")
        address == SubSeq(v, 1, slash - 1)
        mask == Atoi(SubSeq(v, slash + 1, Len(v))) IN
    IF slash = 0 THEN <<>>
    ELSE Over(Field(<<"network">>, AsText(v)),
              Over(Field(<<"network_size">>, AsNumber(NetworkSize(mask))),
                   IF address \in Addresses
                   THEN Field(<<"start_addr">>, AsText(address)) ELSE <<>>))

(* The fields a setting gives a value to.                                  *)
Sets(setting, v) ==
    CASE setting.kind = "text" -> Field(setting.name, AsText(v))
      [] setting.kind = "number" -> Field(setting.name, AsNumber(Atoi(v)))
      [] setting.kind = "flag" -> Field(setting.name, AsNumber(Yes(v)))
      [] setting.kind = "network" -> NetworkSets(v)
      [] OTHER -> <<>>

TypeOf(section) ==
    CASE IsPrefix(<<"main">>, section) -> "MAIN"
      [] IsPrefix(<<"service_class">>, section) -> "SERVICECLASS"
      [] OTHER -> "VSERVER"

(* The first setting whose name the key begins with.                       *)
Find(type, name) ==
    LET settings == SettingsIn(type)
        i == SelectInSeq(settings, LAMBDA s : IsPrefix(s.name, name)) IN
    IF i = 0 THEN Setting("ignored", name) ELSE settings[i]

NameOfServer(type, section) ==
    IF type = "VSERVER" THEN Field(<<"vserver_name">>, AsText(section)) ELSE <<>>

(* rahunas_visitor on one value.  A key without a dot has no second part:  *)
(* the terminator is written through a null pointer.                       *)
Visit ==
    /\ status = "parsed"
    /\ visited < Len(values)
    /\ LET key == values[visited + 1].key
           dot == SelectInSeq(key, LAMBDA c : c = ".")
           section == SubSeq(key, 1, dot - 1)
           type == TypeOf(section)
           name == SubSeq(key, dot + 1, Len(key))
           v == CString(values[visited + 1].value) IN
       IF dot = 0
       THEN status' = "crashed" /\ UNCHANGED <<visited, config>>
       ELSE /\ \E setting \in {Find(type, name)} :
                config' = Over(Over(Sets(setting, v), config), NameOfServer(type, section))
            /\ visited' = visited + 1
            /\ UNCHANGED status
    /\ UNCHANGED <<file, input, scanner, parser>>

(* get_config returns 0; it returns -1 from status error and no file.      *)
Return ==
    /\ status = "parsed"
    /\ visited = Len(values)
    /\ status' = "configured"
    /\ UNCHANGED <<file, input, scanner, parser, visited, config>>

Next ==
    \/ LcfgNext /\ UNCHANGED <<visited, config>>
    \/ Visit
    \/ Return

(* A file that was opened is read on: read() of a regular file returns.    *)
Reads == (Read /\ UNCHANGED <<visited, config>>) \/ Visit \/ Return
Spec == Init /\ [][Next]_vars /\ WF_vars(Reads)

-----------------------------------------------------------------------------
(* Properties.                                                             *)

Statuses == {"writing", "no file", "scanning", "parsing", "parsed", "error",
             "crashed", "configured"}
Answered == {"no file", "error", "crashed", "configured"}
Accepted == {"parsed", "configured", "crashed"}

Fsm == {"start", "comm_start", "in_oneline", "in_multiline", "multiline_end",
        "in_identifier", "in_str", "in_esc", "esc_hex_exp_first",
        "esc_hex_exp_second", "invalid"}

(* The type invariant of the reader (lcfg_static.c) and of the visitor     *)
(* (rh-config.c:20): the scanner stays within its buffer and the file, the *)
(* automaton within its stack.                                             *)
TypeOK ==
    /\ status \in Statuses
    /\ at \in 0 .. Len(text)
    /\ Len(buffer) <= BufferSize
    /\ offset \in 0 .. BufferSize
    /\ offset > Len(buffer) => eof
    /\ fsm \in Fsm
    /\ Len(stack) >= 1
    /\ \A i \in DOMAIN stack :
        /\ stack[i].s \in {"top_level", "exp_equals", "exp_value", "in_list",
                           "in_map", "invalid"}
        /\ stack[i].list_counter \in Nat
    /\ visited \in 0 .. Len(values)

(* Every character of the file comes to lcfg_scanner_char_read once, in    *)
(* order, from inside the buffer, however often that is filled; and a file *)
(* lcfg_parser_parse accepts was read to its last character.               *)
Position == IF buffer = <<>> THEN at ELSE at - Len(buffer) + offset
TakesNext ==
    /\ Position' = Position + 1
    /\ offset' = offset + 1
    /\ offset' \in DOMAIN buffer /\ buffer[offset'] = text[Position']
ReadsWholeFile ==
    /\ [][Position' = Position \/ TakesNext]_vars
    /\ [](status \in Accepted => Position = Len(text))

(* lcfg_scanner_token_read, lcfg_parser_parse and lcfg_parser_accept end   *)
(* for every file.                                                         *)
ReadingEnds == status = "scanning" ~> status \in Answered
=============================================================================
