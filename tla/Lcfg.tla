--------------------------------- MODULE Lcfg ---------------------------------
(***************************************************************************)
(* How rahunasd reads a configuration file (src/lcfg/lcfg_static.c): a     *)
(* scanner with a buffer of fixed size and one token of look-ahead, a push *)
(* down automaton, and the values it collects under their dotted paths.    *)
(*                                                                         *)
(* A character is a member of a small set; a run of letters that no code   *)
(* looks into (main, _iface) is one character too.  An administrator       *)
(* writes the file, lexeme by lexeme, before the daemon opens it.          *)
(***************************************************************************)
EXTENDS Integers, Sequences, SequencesExt

CONSTANTS
    Letters,      \* the characters isalpha holds for
    NameMarks,    \* the others of a name: digits, - and _
    HexDigits,
    Ascii,        \* pairs of hexadecimal digits, or of a minus and a digit
                  \* -> the character they encode
    BufferSize,   \* BUFFER_SIZE
    Base,         \* ten: the base of a list's indices
    Digit,        \* the characters of the digits, from 0
    Plans,        \* what an administrator may write, by name: see IsPlan
    WritesOn(_)   \* the texts after which an administrator writes more

Nul == "\\0"
Quote == "\""
Spaces == {" ", "\t", "\r", "\n"}
Marks == {"=", "[", "]", "{", "}", ","}
Escapes == [c \in {Quote, "n", "t", "r", "0"} |->
    CASE c = "n" -> "\n" [] c = "t" -> "\t" [] c = "r" -> "\r"
      [] c = "0" -> Nul [] OTHER -> c]

(* lexemes: what a file may consist of; size: bound on their number.       *)
IsPlan(p) ==
    /\ DOMAIN p = {"lexemes", "size"}
    /\ p.size \in Nat
    /\ \A l \in p.lexemes : l \in Seq(STRING)

ASSUME LcfgAssumption ==
    /\ BufferSize \in Nat \ {0}
    /\ Base \in Nat \ {0, 1}
    /\ Digit \in Seq(STRING) /\ Base = Len(Digit)
    /\ Letters \cap (Spaces \cup Marks \cup {"/", Quote}) = {}
    /\ "." \notin Letters \cup NameMarks \cup {Digit[i] : i \in 1 .. Base}
    /\ \A p \in DOMAIN Plans : IsPlan(Plans[p])

Token(type, word) == [type |-> type, word |-> word]
Null == Token("null_token", <<>>)
Name(word) == Token("T_IDENTIFIER", word)
String(word) == Token("T_STRING", word)
Mark(c) == Token(c, <<>>)

VARIABLES
    plan,      \* never changes
    text,      \* the file
    count,     \* ghost: the number of its lexemes
    status,    \* what the daemon is doing with it
    at,        \* the file offset of the descriptor
    buffer, offset, eof,   \* struct lcfg_scanner
    fsm, hex,  \* the scanner's state
    prepared,  \* prepared_token
    token,     \* the token the parser is at
    stack,     \* state_stack
    path,      \* current_path
    values     \* values

file == <<plan, text, count>>
input == <<at, buffer, offset, eof>>
scanner == <<fsm, hex, prepared>>
parser == <<token, stack, path, values>>
lcfgVars == <<file, status, input, scanner, parser>>

LcfgInit ==
    /\ plan \in DOMAIN Plans
    /\ text = <<>>
    /\ count = 0
    /\ status = "writing"
    /\ at = 0
    /\ buffer = <<>>
    /\ offset = 0
    /\ eof = FALSE
    /\ fsm = "start"
    /\ hex = Nul
    /\ prepared = Null
    /\ token = Null
    /\ stack = << [s |-> "top_level", list_counter |-> 0] >>
    /\ path = <<>>
    /\ values = <<>>

-----------------------------------------------------------------------------
(* The administrator.                                                      *)

Write ==
    /\ status = "writing"
    /\ count < Plans[plan].size
    /\ WritesOn(text)
    /\ \E l \in Plans[plan].lexemes : text' = text \o l
    /\ count' = count + 1
    /\ UNCHANGED <<plan, status, input, scanner, parser>>

(* lcfg_parser_run: the file is there, or open() fails.                    *)
Open ==
    /\ status = "writing"
    /\ status' = "scanning"
    /\ UNCHANGED <<file, input, scanner, parser>>

OpenFails ==
    /\ status = "writing"
    /\ text = <<>>
    /\ status' = "no file"
    /\ UNCHANGED <<file, input, scanner, parser>>

-----------------------------------------------------------------------------
(* lcfg_scanner_token_read, one character of the file at a time.           *)

(* The condition of its loop that another character has to be read, and    *)
(* lcfg_scanner_buffer_fill.                                               *)
Reading == status = "scanning" /\ prepared.type = "null_token" /\ fsm # "invalid"

NeedsFillEarly ==    \* mutant: one character of a full buffer is left
    ~eof /\ (buffer = <<>> \/ offset >= BufferSize - 1)

NeedsFill == ~eof /\ (buffer = <<>> \/ offset = BufferSize)

FillWhole ==    \* mutant: read() is taken to fill the buffer
    /\ Reading
    /\ NeedsFill
    /\ LET rest == SubSeq(text, at + 1, Len(text))
           n == IF Len(rest) < BufferSize THEN Len(rest) ELSE BufferSize IN
       /\ buffer' = SubSeq(rest, 1, n)
       /\ at' = at + BufferSize
       /\ eof' = (n = 0)
       /\ offset' = IF n = 0 THEN offset ELSE 0
    /\ UNCHANGED <<file, status, scanner, parser>>

FillNoEnd ==    \* mutant: an empty read is not taken for the end
    /\ Reading
    /\ NeedsFill
    /\ LET rest == SubSeq(text, at + 1, Len(text))
           n == IF Len(rest) < BufferSize THEN Len(rest) ELSE BufferSize IN
       /\ buffer' = SubSeq(rest, 1, n)
       /\ at' = at + n
       /\ offset' = IF n = 0 THEN offset ELSE 0
    /\ UNCHANGED <<file, status, eof, scanner, parser>>

Fill ==
    /\ Reading
    /\ NeedsFill
    /\ LET rest == SubSeq(text, at + 1, Len(text))
           n == IF Len(rest) < BufferSize THEN Len(rest) ELSE BufferSize IN
       /\ buffer' = SubSeq(rest, 1, n)
       /\ at' = at + n
       /\ eof' = (n = 0)
       /\ offset' = IF n = 0 THEN offset ELSE 0
    /\ UNCHANGED <<file, status, scanner, parser>>

AtEnd == eof \/ (~NeedsFill /\ Len(buffer) < BufferSize /\ offset = Len(buffer))

Goes(state) == fsm' = state /\ UNCHANGED <<prepared, hex>>
Finds(t) == fsm' = "start" /\ prepared' = t /\ UNCHANGED hex
Adds(c, state) == /\ fsm' = state
                  /\ prepared' = [prepared EXCEPT !.word = Append(@, c)]
                  /\ UNCHANGED hex

Start(c) ==
    /\ fsm = "start"
    /\ \/ c \in Spaces /\ Goes("start")
       \/ c \in Marks /\ Finds(Mark(c))
       \/ c = "/" /\ Goes("comm_start")
       \/ c = Quote /\ Goes("in_str")
       \/ c \in Letters /\ Adds(c, "in_identifier")
       \/ c \notin Spaces \cup Marks \cup {"/", Quote} \cup Letters /\ Goes("invalid")

CommStart(c) ==
    /\ fsm = "comm_start"
    /\ \/ c = "/" /\ Goes("in_oneline")
       \/ c = "*" /\ Goes("in_multiline")
       \/ c \notin {"/", "*"} /\ Goes("invalid")

InComment(c) ==
    \/ fsm = "in_oneline" /\ Goes(IF c = "\n" THEN "start" ELSE fsm)
    \/ fsm = "in_multiline" /\ Goes(IF c = "*" THEN "multiline_end" ELSE fsm)
    \/ /\ fsm = "multiline_end"
       /\ \/ c = "/" /\ Goes("start")
          \/ c = "*" /\ Goes(fsm)
          \/ c \notin {"/", "*"} /\ Goes("in_multiline")

(* The character that ends a name is read again (consume = 0).             *)
EndsName(c) == fsm = "in_identifier" /\ c \notin Letters \cup NameMarks

InIdentifier(c) ==
    \/ fsm = "in_identifier" /\ ~EndsName(c) /\ Adds(c, fsm)
    \/ EndsName(c) /\ Finds(Name(prepared.word))

InStr(c) ==
    /\ fsm = "in_str"
    /\ \/ c = Quote /\ Finds(String(prepared.word))
       \/ c = "\\" /\ Goes("in_esc")
       \/ c \notin {Quote, "\\"} /\ Adds(c, fsm)

InEsc(c) ==
    /\ fsm = "in_esc"
    /\ \/ c \in DOMAIN Escapes /\ Adds(Escapes[c], "in_str")
       \/ c = "x" /\ Goes("esc_hex_exp_first")
       \/ c \notin DOMAIN Escapes \cup {"x"} /\ Goes("invalid")

(* A character that is no hexadecimal digit sets the state invalid, and    *)
(* the lines after set it again.  strtoul skips a space, takes a sign, and *)
(* stops at what is no digit.                                              *)
HexValue(first, second) ==
    CASE first \in HexDigits \cup {"-"} /\ second \in HexDigits -> Ascii[<<first, second>>]
      [] first \in Spaces \cup {"+"} /\ second \in HexDigits -> Ascii[<<"0", second>>]
      [] first \in HexDigits /\ second \notin HexDigits -> Ascii[<<"0", first>>]
      [] OTHER -> Nul

InHex(c) ==
    \/ /\ fsm = "esc_hex_exp_first"
       /\ fsm' = "esc_hex_exp_second"
       /\ hex' = c
       /\ UNCHANGED prepared
    \/ fsm = "esc_hex_exp_second" /\ Adds(HexValue(hex, c), "in_str")

ScanChar ==
    /\ Reading
    /\ ~NeedsFill
    /\ ~AtEnd
    /\ LET c == buffer[offset + 1] IN
       /\ \/ Start(c)
          \/ CommStart(c)
          \/ InComment(c)
          \/ InIdentifier(c)
          \/ InStr(c)
          \/ InEsc(c)
          \/ InHex(c)
       /\ offset' = IF EndsName(c) THEN offset ELSE offset + 1
    /\ UNCHANGED <<file, status, at, buffer, eof, parser>>

(* The loop is left with a token, at the end of the file or with an error. *)
ScanEnd ==
    /\ status = "scanning"
    /\ \/ ~Reading /\ UNCHANGED eof
       \/ Reading /\ AtEnd /\ eof' = TRUE
    /\ status' = IF fsm = "start" THEN "parsing" ELSE "error"
    /\ UNCHANGED <<file, at, buffer, offset, scanner, parser>>

-----------------------------------------------------------------------------
(* The path of a value: PATH_PUSH_STR, PATH_PUSH_INT, PATH_POP.            *)

Dotted(p) == IF p = <<>> THEN p ELSE Append(p, ".")

(* The digits of a number.                                                 *)
Number[n \in Nat] ==
    IF n < Base THEN <<Digit[n + 1]>>
    ELSE Append(Number[n \div Base], Digit[(n % Base) + 1])

(* lcfg_string_cat_uint: the places it makes room for, and the digits it   *)
(* writes from the last place down, before the first place if need be.     *)
(* (Before the string, if that is empty: not within the bounds.)           *)
Places[n \in Nat] == IF n > Base THEN 1 + Places[n \div Base] ELSE 1

CatUint(p, n) ==
    SubSeq(p, 1, Len(p) + Places[n] - Len(Number[n])) \o Number[n]

PushName(p, word) == Dotted(p) \o word
PushInt(p, n) == CatUint(Dotted(p), n)
PopToFirst(p) ==    \* mutant: find for rfind
    LET dot == SelectInSeq(p, LAMBDA c : c = ".") IN
    SubSeq(p, 1, IF dot = 0 THEN 0 ELSE dot - 1)

Pop(p) ==
    LET dot == SelectLastInSeq(p, LAMBDA c : c = ".") IN
    SubSeq(p, 1, IF dot = 0 THEN 0 ELSE dot - 1)

-----------------------------------------------------------------------------
(* lcfg_parser_parse: one turn of its loop.  The next token is read before *)
(* the current one is handled.                                             *)

Top == Last(stack)
Element(s) == [s |-> s, list_counter |-> 0]
Become(s) == [stack EXCEPT ![Len(stack)].s = s]
Counted == [stack EXCEPT ![Len(stack)].list_counter = @ + 1]

AddValue(p, word) == values' = Append(values, [key |-> p, value |-> word])

InMap ==
    /\ Top.s \in {"top_level", "in_map"}
    /\ UNCHANGED values
    /\ \/ /\ token.type = "T_IDENTIFIER"
          /\ path' = PushName(path, token.word)
          /\ stack' = Append(stack, Element("exp_equals"))
       \/ /\ token.type = "}" /\ Top.s = "in_map"
          /\ stack' = Front(stack)
          /\ path' = Pop(path)
       \/ /\ token.type # "T_IDENTIFIER"
          /\ ~(token.type = "}" /\ Top.s = "in_map")
          /\ stack' = Become("invalid")
          /\ UNCHANGED path

ExpEquals ==
    /\ Top.s = "exp_equals"
    /\ stack' = Become(IF token.type = "=" THEN "exp_value" ELSE "invalid")
    /\ UNCHANGED <<path, values>>

ExpValue ==
    /\ Top.s = "exp_value"
    /\ \/ /\ token.type = "T_STRING"
          /\ AddValue(path, token.word)
          /\ stack' = Front(stack)
          /\ path' = Pop(path)
       \/ /\ token.type # "T_STRING"
          /\ stack' = Become(CASE token.type = "[" -> "in_list"
                               [] token.type = "{" -> "in_map"
                               [] OTHER -> "invalid")
          /\ UNCHANGED <<path, values>>

InListUncounted ==    \* mutant: a list or map in a list takes no number
    /\ Top.s = "in_list"
    /\ LET item == PushInt(path, Top.list_counter) IN
       \/ token.type = "," /\ UNCHANGED <<stack, path, values>>
       \/ /\ token.type = "T_STRING"
          /\ AddValue(item, token.word)
          /\ path' = Pop(item)
          /\ stack' = Counted
       \/ /\ token.type \in {"[", "{"}
          /\ path' = item
          /\ stack' = Append(stack,
                        Element(IF token.type = "[" THEN "in_list" ELSE "in_map"))
          /\ UNCHANGED values
       \/ /\ token.type = "]"
          /\ path' = Pop(path)
          /\ stack' = Front(stack)
          /\ UNCHANGED values
       \/ /\ token.type \notin {",", "T_STRING", "[", "{", "]"}
          /\ stack' = Become("invalid")
          /\ UNCHANGED <<path, values>>

InList ==
    /\ Top.s = "in_list"
    /\ LET item == PushInt(path, Top.list_counter) IN
       \/ token.type = "," /\ UNCHANGED <<stack, path, values>>
       \/ /\ token.type = "T_STRING"
          /\ AddValue(item, token.word)
          /\ path' = Pop(item)
          /\ stack' = Counted
       \/ /\ token.type \in {"[", "{"}
          /\ path' = item
          /\ stack' = Append(Counted,
                        Element(IF token.type = "[" THEN "in_list" ELSE "in_map"))
          /\ UNCHANGED values
       \/ /\ token.type = "]"
          /\ path' = Pop(path)
          /\ stack' = Front(stack)
          /\ UNCHANGED values
       \/ /\ token.type \notin {",", "T_STRING", "[", "{", "]"}
          /\ stack' = Become("invalid")
          /\ UNCHANGED <<path, values>>

Handle ==
    \/ token = Null /\ UNCHANGED <<stack, path, values>>
    \/ token # Null /\ (InMap \/ ExpEquals \/ ExpValue \/ InList)

(* lcfg_scanner_has_next, lcfg_scanner_next_token, and what the parser     *)
(* answers after its loop.                                                 *)
GoOnOpen ==    \* mutant: what is open at the end is not looked at
    IF prepared.type # "null_token" /\ Last(stack').s # "invalid"
    THEN /\ token' = prepared
         /\ prepared' = Null
         /\ status' = "scanning"
    ELSE /\ status' = IF Last(stack').s # "invalid" THEN "parsed" ELSE "error"
         /\ UNCHANGED <<token, prepared>>

GoOn ==
    IF prepared.type # "null_token" /\ Last(stack').s # "invalid"
    THEN /\ token' = prepared
         /\ prepared' = Null
         /\ status' = "scanning"
    ELSE /\ status' = IF stack' = <<Element("top_level")>> THEN "parsed" ELSE "error"
         /\ UNCHANGED <<token, prepared>>

Parse ==
    /\ status = "parsing"
    /\ Handle
    /\ GoOn
    /\ UNCHANGED <<file, input, fsm, hex>>

Read == Fill \/ ScanChar \/ ScanEnd \/ Parse
LcfgNext == Write \/ Open \/ OpenFails \/ Read
=============================================================================
