--------------------------- MODULE ConfigFileProofs ---------------------------
(***************************************************************************)
(* Proofs about the reader of configuration files, for any characters,     *)
(* size of the buffer, settings and files.                                 *)
(***************************************************************************)
EXTENDS ConfigFile, ListLemmas, SequenceTheorems, FiniteSetTheorems

Elements == [s : {"top_level", "exp_equals", "exp_value", "in_list", "in_map",
                  "invalid"},
             list_counter : Nat]

Types ==
    /\ status \in Statuses
    /\ plan \in DOMAIN Plans
    /\ text \in Seq(STRING)
    /\ buffer \in Seq(STRING)
    /\ eof \in BOOLEAN
    /\ at \in 0 .. Len(text)
    /\ Len(buffer) <= BufferSize
    /\ offset \in 0 .. BufferSize
    /\ fsm \in Fsm

(* The buffer is the piece of the file that was read last; it is short     *)
(* only at the end of the file.                                            *)
Window ==
    /\ Len(buffer) <= at
    /\ \A i \in 1 .. Len(buffer) : buffer[i] = text[at - Len(buffer) + i]
    /\ offset > Len(buffer) => eof /\ buffer = <<>>
    /\ eof => at = Len(text) /\ (buffer = <<>> \/ offset = Len(buffer))
    /\ buffer # <<>> /\ Len(buffer) < BufferSize => at = Len(text)
    /\ status = "writing" => at = 0 /\ buffer = <<>> /\ ~eof

(* No token is left only when no character is.                             *)
ReadThrough ==
    status \in Accepted \/ (status = "parsing" /\ prepared.type = "null_token") =>
        Position = Len(text)

(* Whatever is pushed lies on the file's own element.                      *)
Automaton ==
    /\ stack \in Seq(Elements)
    /\ Len(stack) >= 1
    /\ stack[1].s \in {"top_level", "invalid"}

IsList(v) == \E S : v \in Seq(S)
Visited == IsList(values) /\ visited \in 0 .. Len(values)

IInv == Types /\ Window /\ ReadThrough /\ Automaton /\ Visited

LEMMA Empty == \A s \in Seq(STRING) : s = <<>> <=> Len(s) = 0
BY EmptySeq

LEMMA Lengths == \A v : IsList(v) => Len(v) \in Nat
BY DEF IsList

LEMMA AppendIsList ==
    ASSUME NEW v, NEW x, IsList(v)
    PROVE  IsList(Append(v, x)) /\ Len(Append(v, x)) = Len(v) + 1
<1>1. PICK S : v \in Seq(S)
  BY DEF IsList
<1>2. v \in Seq(S \cup {x}) /\ x \in S \cup {x}
  BY <1>1
<1>3. Append(v, x) \in Seq(S \cup {x}) /\ Len(Append(v, x)) = Len(v) + 1
  BY <1>2
<1>4. QED
  BY <1>3 DEF IsList

-----------------------------------------------------------------------------

LEMMA InitInv == Init => IInv
<1>1. SUFFICES ASSUME Init PROVE IInv
  OBVIOUS
<1>2. Types
  <2>1. <<>> \in Seq(STRING) /\ Len(<<>>) = 0 /\ BufferSize \in Nat
    BY LcfgAssumption, EmptySeq
  <2>2. /\ text = <<>> /\ buffer = <<>> /\ at = 0 /\ offset = 0 /\ eof = FALSE
        /\ fsm = "start" /\ status = "writing" /\ plan \in DOMAIN Plans
    BY <1>1 DEF Init, LcfgInit
  <2>3. text \in Seq(STRING) /\ buffer \in Seq(STRING) /\ Len(text) = 0 /\ Len(buffer) = 0
    BY <2>1, <2>2
  <2>4. status \in Statuses /\ fsm \in Fsm /\ eof \in BOOLEAN
    BY <2>2 DEF Statuses, Fsm
  <2>5. QED
    BY <2>1, <2>2, <2>3, <2>4 DEF Types
<1>3. Window
  BY <1>1 DEF Init, LcfgInit, Window
<1>4. ReadThrough
  BY <1>1 DEF Init, LcfgInit, ReadThrough, Accepted
<1>5. Automaton
  BY <1>1 DEF Init, LcfgInit, Automaton, Elements
<1>6. values \in Seq({}) /\ visited = 0 /\ Len(values) = 0
  BY <1>1 DEF Init, LcfgInit
<1>7. Visited
  BY <1>6 DEF Visited, IsList
<1>8. QED
  BY <1>2, <1>5, <1>7, <1>3, <1>4 DEF IInv

(* The administrator and open().                                           *)
LEMMA FileStep ==
    ASSUME IInv, Write \/ Open \/ OpenFails, UNCHANGED <<visited, config>>
    PROVE  IInv' /\ Position' = Position
<1>1. UNCHANGED <<at, buffer, offset, eof, fsm, prepared, stack, values, plan, visited>>
      /\ status = "writing"
  BY DEF Write, Open, OpenFails, file, input, scanner, parser
<1>2. Automaton' /\ Visited'
  BY <1>1 DEF IInv, Automaton, Visited
<1>3. CASE Write
  <2>1. PICK l \in Plans[plan].lexemes : text' = text \o l
    BY <1>3 DEF Write
  <2>2. l \in Seq(STRING)
    BY LcfgAssumption DEF IInv, Types, IsPlan
  <2>3. status' = "writing"
    BY <1>3 DEF Write
  <2>4. text' \in Seq(STRING)
    BY <2>1, <2>2 DEF IInv, Types
  <2>5. /\ Len(text') \in Nat /\ at = 0 /\ buffer = <<>> /\ ~eof
        /\ offset \in Nat /\ Len(buffer) = 0
    BY <2>4, <1>1 DEF IInv, Window, Types
  <2>6. Types'
    BY <1>1, <2>3, <2>5, <2>4 DEF IInv, Types
  <2>7. Window'
    BY <1>1, <2>3, <2>5 DEF IInv, Types, Window
  <2>8. ReadThrough'
    BY <2>3 DEF ReadThrough, Accepted
  <2>9. QED
    BY <1>1, <1>2, <2>6, <2>7, <2>8 DEF IInv, Position
<1>4. CASE Open \/ OpenFails
  <2>1. text' = text /\ status' \in {"scanning", "no file"}
    BY <1>4 DEF Open, OpenFails, file
  <2>2. Types' /\ Window' /\ ReadThrough'
    BY <1>1, <2>1 DEF IInv, Types, Window, ReadThrough, Accepted, Statuses
  <2>3. QED
    BY <1>1, <1>2, <2>2 DEF IInv, Position
<1>5. QED
  BY <1>3, <1>4

(* The rest of a sequence, and its beginning.                              *)
LEMMA RestIs ==
    ASSUME NEW S, NEW s \in Seq(S), NEW k \in Nat, k <= Len(s)
    PROVE  /\ SubSeq(s, k + 1, Len(s)) \in Seq(S)
           /\ Len(SubSeq(s, k + 1, Len(s))) = Len(s) - k
           /\ \A i \in 1 .. Len(s) - k : SubSeq(s, k + 1, Len(s))[i] = s[k + i]
<1>1. PICK a, b : a \in Int /\ b \in Int /\ a = k + 1 /\ b = Len(s)
  OBVIOUS
<1>2. \A i \in a .. b : s[i] \in S
  BY <1>1
<1>3. PICK r : r = SubSeq(s, a, b)
  OBVIOUS
<1>4. /\ r \in Seq(S)
      /\ Len(r) = IF a <= b THEN b - a + 1 ELSE 0
      /\ \A i \in 1 .. b - a + 1 : r[i] = s[a + i - 1]
  BY <1>1, <1>2, <1>3, SubSeqProperties
<1>5. Len(r) = b - k /\ \A i \in 1 .. b - k : r[i] = s[k + i]
  BY <1>1, <1>4
<1>6. r = SubSeq(s, k + 1, Len(s))
  BY <1>1, <1>3
<1>7. QED
  BY <1>1, <1>4, <1>5, <1>6, Zenon

LEMMA BeginningIs ==
    ASSUME NEW S, NEW s \in Seq(S), NEW n \in Nat, n <= Len(s)
    PROVE  /\ SubSeq(s, 1, n) \in Seq(S)
           /\ Len(SubSeq(s, 1, n)) = n
           /\ \A i \in 1 .. n : SubSeq(s, 1, n)[i] = s[i]
<1>1. 1 \in Int /\ n \in Int /\ \A i \in 1 .. n : s[i] \in S
  OBVIOUS
<1>2. PICK r : r = SubSeq(s, 1, n)
  OBVIOUS
<1>3. /\ r \in Seq(S)
      /\ Len(r) = IF 1 <= n THEN n - 1 + 1 ELSE 0
      /\ \A i \in 1 .. n - 1 + 1 : r[i] = s[1 + i - 1]
  BY <1>1, <1>2, SubSeqProperties
<1>4. Len(r) = n /\ \A i \in 1 .. n : r[i] = s[i]
  BY <1>3
<1>5. QED
  BY <1>2, <1>3, <1>4

(* lcfg_scanner_buffer_fill: what is in the buffer was read.               *)
LEMMA FillStep ==
    ASSUME IInv, Fill, UNCHANGED <<visited, config>>
    PROVE  IInv' /\ Position' = Position
<1> DEFINE rest == SubSeq(text, at + 1, Len(text))
           n == IF Len(rest) < BufferSize THEN Len(rest) ELSE BufferSize
<1>1. /\ buffer' = SubSeq(rest, 1, n) /\ at' = at + n
      /\ (n = 0 => eof' = TRUE) /\ (n # 0 => eof' = FALSE)
      /\ offset' = IF n = 0 THEN offset ELSE 0
      /\ UNCHANGED <<plan, text, status, fsm, prepared, stack, values, visited>>
      /\ status = "scanning" /\ ~eof /\ (buffer = <<>> \/ offset = BufferSize)
  BY DEF Fill, Reading, NeedsFill, file, scanner, parser
<1>2. BufferSize \in Nat \ {0}
  BY LcfgAssumption
<1>3. text \in Seq(STRING) /\ at \in 0 .. Len(text) /\ Len(text) \in Nat
  BY DEF IInv, Types
<1>4. /\ rest \in Seq(STRING) /\ Len(rest) = Len(text) - at
      /\ \A i \in 1 .. Len(rest) : rest[i] = text[at + i]
  <2>1. at \in Nat /\ at <= Len(text)
    BY <1>3
  <2>2. QED
    BY <2>1, <1>3, RestIs
<1>5. n \in Nat /\ n <= Len(rest) /\ n <= BufferSize /\ (n < BufferSize => n = Len(rest))
  BY <1>2, <1>3, <1>4
<1> HIDE DEF rest, n
<1>6. /\ buffer' \in Seq(STRING) /\ Len(buffer') = n
      /\ \A i \in 1 .. n : buffer'[i] = text[at + i]
  <2>1. /\ buffer' \in Seq(STRING) /\ Len(buffer') = n
        /\ \A i \in 1 .. n : buffer'[i] = rest[i]
    BY <1>1, <1>4, <1>5, BeginningIs
  <2>2. \A i \in 1 .. n : rest[i] = text[at + i]
    BY <1>4, <1>5
  <2>3. QED
    BY <2>1, <2>2
<1>7. buffer' = <<>> <=> n = 0
  BY <1>6, Empty
<1>8. /\ Len(buffer) \in Nat /\ (buffer = <<>> <=> Len(buffer) = 0)
       /\ at \in Nat /\ offset \in Nat
  BY <1>3, Empty, LcfgAssumption DEF IInv, Types
<1>9. Types'
  <2>1. at + n \in 0 .. Len(text) /\ n <= BufferSize
    BY <1>3, <1>4, <1>5
  <2>2. eof' \in BOOLEAN /\ offset' \in {offset, 0}
    BY <1>1
  <2>3. /\ status \in Statuses /\ plan \in DOMAIN Plans /\ fsm \in Fsm
        /\ offset \in 0 .. BufferSize
    BY DEF IInv, Types
  <2>4. 0 \in 0 .. BufferSize
    BY <1>2
  <2>5. QED
    BY <2>1, <2>2, <2>3, <2>4, <1>1, <1>3, <1>6 DEF Types
<1>10. Window'
  <2>1. /\ at' = at + n /\ Len(buffer') = n /\ text' = text /\ status' = "scanning"
        /\ n \in Nat /\ at \in Nat
    BY <1>1, <1>5, <1>6, <1>8
  <2>2. \A i \in 1 .. n : buffer'[i] = text'[at' - n + i]
    <3>1. \A i \in 1 .. n : at' - n + i = at + i
      BY <2>1
    <3>2. QED
      BY <3>1, <2>1, <1>6
  <2>3. n = 0 => buffer' = <<>> /\ eof' = TRUE /\ at' = Len(text')
    BY <2>1, <1>1, <1>2, <1>3, <1>4, <1>5, <1>7
  <2>4. n # 0 => eof' = FALSE /\ offset' = 0
    BY <1>1
  <2>5. n < BufferSize => at' = Len(text')
    BY <2>1, <1>3, <1>4, <1>5
  <2>6. QED
    BY <2>1, <2>2, <2>3, <2>4, <2>5 DEF Window
<1>11. Position = at
  <2>1. offset <= Len(buffer) /\ Len(buffer) <= BufferSize
    BY <1>1, <1>8 DEF IInv, Types, Window
  <2>2. QED
    BY <2>1, <1>1, <1>2, <1>8 DEF Position
<1>12. Position' = at
  <2>1. n # 0 => Position' = at
    <3>1. at' = at + n /\ (n # 0 => offset' = 0)
      BY <1>1
    <3>2. n # 0 => Position' = at' - Len(buffer') + offset'
      BY <1>7 DEF Position
    <3>3. QED
      BY <3>1, <3>2, <1>5, <1>6, <1>8
  <2>2. n = 0 => Position' = at + n
    BY <1>1, <1>7 DEF Position
  <2>3. QED
    BY <2>1, <2>2, <1>5, <1>8
<1>13. ReadThrough' /\ Automaton' /\ Visited'
  BY <1>1 DEF IInv, ReadThrough, Accepted, Automaton, Visited
<1>14. QED
  BY <1>9, <1>10, <1>11, <1>12, <1>13 DEF IInv

(* lcfg_scanner_char_read: the next character, or the same again.          *)
LEMMA ScanCharStep ==
    ASSUME IInv, ScanChar, UNCHANGED <<visited, config>>
    PROVE  IInv' /\ (Position' = Position \/ TakesNext)
<1>1. /\ UNCHANGED <<plan, text, status, at, buffer, eof, stack, values, visited>>
      /\ offset' \in {offset, offset + 1}
      /\ status = "scanning" /\ ~NeedsFill /\ ~AtEnd
  BY DEF ScanChar, Reading, file, parser
<1>2. fsm' \in Fsm
  <2>1. fsm \in Fsm
    BY DEF IInv, Types
  <2>2. PICK c : \/ Start(c) \/ CommStart(c) \/ InComment(c) \/ InIdentifier(c)
                 \/ InStr(c) \/ InEsc(c) \/ InHex(c)
    BY DEF ScanChar
  <2>3. QED
    BY <2>1, <2>2 DEF Start, CommStart, InComment, InIdentifier, InStr, InEsc, InHex,
       Goes, Finds, Adds, Fsm
<1>3. offset \in Nat /\ Len(buffer) \in Nat /\ offset < Len(buffer)
      /\ Len(buffer) <= BufferSize /\ BufferSize \in Nat
  BY <1>1, LcfgAssumption DEF NeedsFill, AtEnd, IInv, Types, Window
<1>4. Types'
  BY <1>1, <1>2, <1>3 DEF IInv, Types
<1>5. Window'
  BY <1>1, <1>3 DEF IInv, Types, Window, AtEnd
<1>6. ReadThrough' /\ Automaton' /\ Visited'
  BY <1>1 DEF IInv, ReadThrough, Accepted, Automaton, Visited
<1>7. Position' = Position \/ TakesNext
  <2>1. buffer # <<>> /\ at \in Nat
    BY <1>3 DEF IInv, Types
  <2>2. CASE offset' = offset
    BY <2>2, <1>1 DEF Position
  <2>3. CASE offset' = offset + 1
    <3>1. Position' = Position + 1 /\ Position' = at - Len(buffer) + offset'
      BY <2>1, <2>3, <1>1, <1>3 DEF Position
    <3>2. offset' \in 1 .. Len(buffer)
      BY <2>3, <1>3
    <3>3. DOMAIN buffer = 1 .. Len(buffer)
      BY DEF IInv, Types
    <3>4. buffer[offset'] = text[Position']
      BY <3>1, <3>2 DEF IInv, Window
    <3>5. QED
      BY <3>1, <3>2, <3>3, <3>4, <2>3 DEF TakesNext
  <2>4. QED
    BY <2>2, <2>3, <1>1
<1>8. QED
  BY <1>4, <1>5, <1>6, <1>7 DEF IInv

(* The loop of lcfg_scanner_token_read is left.                            *)
LEMMA ScanEndStep ==
    ASSUME IInv, ScanEnd, UNCHANGED <<visited, config>>
    PROVE  IInv' /\ Position' = Position
<1>1. /\ UNCHANGED <<plan, text, at, buffer, offset, fsm, prepared, stack, values, visited>>
      /\ status = "scanning" /\ status' \in {"parsing", "error"}
      /\ status' = "parsing" => fsm = "start"
      /\ (~Reading /\ eof' = eof) \/ (Reading /\ AtEnd /\ eof' = TRUE)
  BY DEF ScanEnd, file, scanner, parser
<1>2. Types'
  BY <1>1 DEF IInv, Types, Statuses
<1>3. AtEnd => /\ at = Len(text)
               /\ buffer = <<>> \/ offset = Len(buffer)
  BY LcfgAssumption DEF IInv, Types, Window, AtEnd, NeedsFill
<1>4. Window'
  BY <1>1, <1>3 DEF IInv, Types, Window
<1>5. AtEnd => Position = Len(text)
  BY <1>3 DEF Position, IInv, Types
<1>6. Position' = Position
  BY <1>1 DEF Position
<1>7. ReadThrough'
  BY <1>1, <1>5, <1>6 DEF ReadThrough, Accepted, Reading
<1>8. Automaton' /\ Visited'
  BY <1>1 DEF IInv, Automaton, Visited
<1>9. QED
  BY <1>2, <1>4, <1>6, <1>7, <1>8 DEF IInv

-----------------------------------------------------------------------------

LEMMA CountedSeq ==
    ASSUME Automaton
    PROVE  /\ Counted \in Seq(Elements)
           /\ Len(Counted) = Len(stack)
           /\ Counted[Len(stack)].list_counter = Top.list_counter + 1
           /\ Counted[1].s = stack[1].s
<1>1. /\ stack \in Seq(Elements) /\ Len(stack) \in Nat \ {0}
      /\ Top = stack[Len(stack)] /\ Top \in Elements
  BY DEF Automaton, Top, Last
<1>2. PICK e : e = [Top EXCEPT !.list_counter = @ + 1]
  OBVIOUS
<1>3. e \in Elements /\ e.list_counter = Top.list_counter + 1 /\ e.s = Top.s
  BY <1>1, <1>2 DEF Elements
<1>4. Counted = [stack EXCEPT ![Len(stack)] = e]
  BY <1>1, <1>2 DEF Counted
<1>5. QED
  BY <1>1, <1>3, <1>4

(* What a turn of lcfg_parser_parse does to the stack and the values.      *)
LEMMA StackMoves ==
    ASSUME Automaton, IsList(values), Handle
    PROVE  Automaton' /\ IsList(values') /\ Len(values') >= Len(values)
<1>1. stack \in Seq(Elements) /\ Len(stack) \in Nat \ {0}
      /\ stack[1].s \in {"top_level", "invalid"} /\ Top = stack[Len(stack)]
  BY DEF Automaton, Top, Last
<1>2. Top \in Elements
  BY <1>1
<1>3. ASSUME NEW s \in {"in_list", "in_map", "exp_equals", "exp_value", "invalid"},
             Top.s \notin {"top_level", "invalid"} \/ s = "invalid"
      PROVE  LET t == Become(s) IN
             t \in Seq(Elements) /\ Len(t) >= 1 /\ t[1].s \in {"top_level", "invalid"}
  BY <1>1, <1>2, <1>3 DEF Become, Elements
<1>4. ASSUME NEW s \in {"in_list", "in_map", "exp_equals"}
      PROVE  LET t == Append(stack, Element(s)) IN
             t \in Seq(Elements) /\ Len(t) >= 1 /\ t[1].s \in {"top_level", "invalid"}
  BY <1>1 DEF Element, Elements
<1>5. LET t == Counted IN
      t \in Seq(Elements) /\ Len(t) = Len(stack) /\ t[1].s \in {"top_level", "invalid"}
  BY <1>1, CountedSeq
<1>6. ASSUME NEW s \in {"in_list", "in_map"}
      PROVE  LET t == Append(Counted, Element(s)) IN
             t \in Seq(Elements) /\ Len(t) >= 1 /\ t[1].s \in {"top_level", "invalid"}
  BY <1>1, <1>5 DEF Element, Elements
<1>7. ASSUME Top.s \notin {"top_level", "invalid"}
      PROVE  LET t == Front(stack) IN
             t \in Seq(Elements) /\ Len(t) >= 1 /\ t[1].s \in {"top_level", "invalid"}
  BY <1>1, <1>7 DEF Front
<1>8. stack' \in Seq(Elements) /\ Len(stack') >= 1
      /\ stack'[1].s \in {"top_level", "invalid"}
  <2>1. CASE stack' = stack
    BY <1>1, <2>1
  <2>2. CASE InMap
    BY <2>2, <1>3, <1>4, <1>7 DEF InMap
  <2>3. CASE ExpEquals
    BY <2>3, <1>3 DEF ExpEquals
  <2>4. CASE ExpValue
    BY <2>4, <1>3, <1>7 DEF ExpValue
  <2>5. CASE InList
    <3>1. Top.s = "in_list"
      BY <2>5 DEF InList
    <3>2. \/ stack' \in {stack, Counted, Front(stack), Become("invalid")}
          \/ \E s \in {"in_list", "in_map"} : stack' = Append(Counted, Element(s))
      BY <2>5 DEF InList
    <3>3. CASE stack' \in {Counted, Front(stack), Become("invalid")}
      BY <3>1, <3>3, <1>1, <1>3, <1>5, <1>7, SMTT(20)
    <3>4. ASSUME NEW s \in {"in_list", "in_map"}, stack' = Append(Counted, Element(s))
          PROVE  stack' \in Seq(Elements) /\ Len(stack') >= 1
                 /\ stack'[1].s \in {"top_level", "invalid"}
      BY <3>4, <1>6
    <3>5. QED
      BY <3>2, <3>3, <3>4, <2>1
  <2>6. QED
    BY <2>1, <2>2, <2>3, <2>4, <2>5 DEF Handle
<1>9. \/ values' = values
      \/ \E x : values' = Append(values, x)
  BY DEF Handle, InMap, ExpEquals, ExpValue, InList, AddValue
<1>10. IsList(values') /\ Len(values') >= Len(values)
  <2>1. CASE values' = values
    BY <2>1, Lengths
  <2>2. CASE \E x : values' = Append(values, x)
    <3>1. PICK x : values' = Append(values, x)
      BY <2>2
    <3>2. IsList(Append(values, x)) /\ Len(Append(values, x)) = Len(values) + 1
      BY AppendIsList
    <3>3. QED
      BY <3>1, <3>2, Lengths
  <2>3. QED
    BY <1>9, <2>1, <2>2
<1>11. QED
  BY <1>8, <1>10 DEF Automaton

LEMMA ParseStep ==
    ASSUME IInv, Parse, UNCHANGED <<visited, config>>
    PROVE  IInv' /\ Position' = Position
<1>1. /\ UNCHANGED <<plan, text, at, buffer, offset, eof, fsm, visited>>
      /\ status = "parsing" /\ Handle /\ GoOn
  BY DEF Parse, file, input
<1>2. Automaton' /\ IsList(values') /\ Len(values') >= Len(values)
  BY <1>1, StackMoves DEF IInv, Visited
<1>3. Visited'
  BY <1>1, <1>2, Lengths DEF IInv, Visited
<1>4. status' \in {"scanning", "parsed", "error"}
  BY <1>1 DEF GoOn
<1>5. status' = "parsed" => prepared.type = "null_token"
  <2>1. SUFFICES ASSUME status' = "parsed", prepared.type # "null_token" PROVE FALSE
    OBVIOUS
  <2>2. Last(stack').s = "invalid" /\ stack' = <<Element("top_level")>>
    BY <2>1, <1>1 DEF GoOn
  <2>3. QED
    BY <2>2 DEF Last, Element
<1>6. Types' /\ Window'
  BY <1>1, <1>4 DEF IInv, Types, Window, Statuses
<1>7. Position' = Position
  BY <1>1 DEF Position
<1>8. ReadThrough'
  BY <1>1, <1>4, <1>5, <1>7 DEF IInv, ReadThrough, Accepted
<1>9. QED
  BY <1>2, <1>3, <1>6, <1>7, <1>8 DEF IInv

(* lcfg_parser_accept and rahunas_visitor.                                 *)
LEMMA VisitStep ==
    ASSUME IInv, Visit \/ Return
    PROVE  IInv' /\ Position' = Position
<1>1. /\ UNCHANGED <<plan, text, at, buffer, offset, eof, fsm, prepared, stack, values>>
      /\ status = "parsed" /\ status' \in {"parsed", "crashed", "configured"}
      /\ visited' = visited \/ (visited' = visited + 1 /\ visited < Len(values))
  BY DEF Visit, Return, file, input, scanner, parser
<1>2. Types' /\ Window'
  BY <1>1 DEF IInv, Types, Window, Statuses
<1>3. Position' = Position
  BY <1>1 DEF Position
<1>4. ReadThrough' /\ Automaton'
  BY <1>1, <1>3 DEF IInv, ReadThrough, Accepted, Automaton
<1>5. Visited'
  BY <1>1, Lengths DEF IInv, Visited
<1>6. QED
  BY <1>2, <1>3, <1>4, <1>5 DEF IInv

LEMMA StepInv ==
    ASSUME IInv, [Next]_vars
    PROVE  IInv' /\ (Position' = Position \/ TakesNext)
<1>1. CASE LcfgNext /\ UNCHANGED <<visited, config>>
  BY <1>1, FileStep, FillStep, ScanCharStep, ScanEndStep, ParseStep DEF LcfgNext, Read
<1>2. CASE Visit \/ Return
  BY <1>2, VisitStep
<1>3. CASE UNCHANGED vars
  <2>1. UNCHANGED <<plan, text, status, at, buffer, offset, eof, fsm, prepared, stack,
                    values, visited>>
    BY <1>3 DEF vars, lcfgVars, file, input, scanner, parser
  <2>2. Types' /\ Window' /\ Automaton' /\ Visited' /\ Position' = Position
    BY <2>1 DEF IInv, Types, Window, Automaton, Visited, Position
  <2>3. ReadThrough'
    BY <2>1, <2>2 DEF IInv, ReadThrough, Accepted
  <2>4. QED
    BY <2>2, <2>3 DEF IInv
<1>4. QED
  BY <1>1, <1>2, <1>3 DEF Next

LEMMA Invariant == Spec => []IInv
BY InitInv, StepInv, PTL DEF Spec

(* The scanner stays within its buffer and the file, the automaton within  *)
(* its stack and the visitor within the values, whatever the file.         *)
THEOREM TypeCorrect == Spec => []TypeOK
<1>1. IInv => TypeOK
  <2>1. SUFFICES ASSUME IInv PROVE TypeOK
    OBVIOUS
  <2>2. \A i \in DOMAIN stack : stack[i] \in Elements
    BY <2>1 DEF IInv, Automaton
  <2>3. QED
    BY <2>1, <2>2 DEF IInv, Types, Window, Automaton, Visited, Elements, TypeOK
<1>2. QED
  BY <1>1, Invariant, PTL

(* lcfg_scanner_char_read gives every character of the file once and in    *)
(* order, over every filling of the buffer, and an accepted file to its    *)
(* last.                                                                   *)
THEOREM FileIsReadWhole == Spec => ReadsWholeFile
<1>1. IInv => (status \in Accepted => Position = Len(text))
  BY DEF IInv, ReadThrough
<1>2. IInv /\ [Next]_vars => [Position' = Position \/ TakesNext]_vars
  BY StepInv
<1>3. QED
  BY <1>1, <1>2, Invariant, PTL DEF Spec, ReadsWholeFile

-----------------------------------------------------------------------------
(* A function defined by recursion on a smaller number exists.             *)
Descends(d, Small) == \A n \in Nat \ Small : d[n] < n
Solves(f, Small, b, h, d) ==
    \A n \in Nat : f[n] = IF n \in Small THEN b[n] ELSE h[<<n, f[d[n]]>>]

LEMMA RecursionExists ==
    ASSUME NEW V, NEW Small, NEW b \in [Nat -> V], NEW h \in [Nat \X V -> V],
           NEW d \in [Nat -> Nat], Descends(d, Small)
    PROVE  \E f \in [Nat -> V] : Solves(f, Small, b, h, d)
<1> DEFINE P(g, n) == /\ g \in [0 .. n -> V]
                      /\ \A m \in 0 .. n :
                            g[m] = IF m \in Small THEN b[m] ELSE h[<<m, g[d[m]]>>]
<1> USE DEF Descends
<1>1. ASSUME NEW n1 \in Nat, NEW n2 \in Nat, NEW g1, NEW g2, P(g1, n1), P(g2, n2)
      PROVE  \A m \in 0 .. n1 : m \in 0 .. n2 => g1[m] = g2[m]
  <2> DEFINE Bad == {m \in Nat : m \in 0 .. n1 /\ m \in 0 .. n2 /\ g1[m] # g2[m]}
  <2>1. SUFFICES ASSUME Bad # {} PROVE FALSE
    BY DEF Bad
  <2>2. PICK m \in Bad : \A j \in Bad : m <= j
    BY <2>1, MinExists
  <2>3. m \notin Small
    BY <1>1, <2>2
  <2>4. d[m] \in Nat /\ d[m] < m /\ d[m] \in 0 .. n1 /\ d[m] \in 0 .. n2
    BY <2>2, <2>3
  <2>5. d[m] \notin Bad
    BY <2>2, <2>4
  <2>6. g1[d[m]] = g2[d[m]]
    BY <2>4, <2>5
  <2>7. m \in 0 .. n1 /\ m \in 0 .. n2 /\ g1[m] # g2[m]
    BY <2>2
  <2>8. g1[m] = h[<<m, g1[d[m]]>>] /\ g2[m] = h[<<m, g2[d[m]]>>]
    BY <1>1, <2>3, <2>7
  <2>9. QED
    BY <2>6, <2>7, <2>8
<1>2. \A n \in Nat : \E g : P(g, n)
  <2> DEFINE Bad == {n \in Nat : ~\E g : P(g, n)}
  <2>1. SUFFICES ASSUME Bad # {} PROVE FALSE
    BY DEF Bad
  <2>2. PICK n \in Bad : \A j \in Bad : n <= j
    BY <2>1, MinExists
  <2>3. n \in Nat
    BY <2>2
  <2>4. CASE n = 0
    <3> DEFINE g == [m \in 0 .. 0 |-> b[0]]
    <3>1. 0 \in Small /\ b[0] \in V
      OBVIOUS
    <3>2. P(g, 0)
      BY <3>1
    <3>3. QED
      BY <2>2, <2>4, <3>2, ZenonT(30)
  <2>5. CASE n # 0
    <3>1. n - 1 \in Nat /\ n - 1 \notin Bad
      <4> HIDE DEF Bad
      <4>1. n - 1 \in Nat /\ ~(n <= n - 1)
        BY <2>3, <2>5
      <4>2. QED
        BY <2>2, <4>1
    <3>2. PICK g : P(g, n - 1)
      BY <3>1
    <3> DEFINE x == IF n \in Small THEN b[n] ELSE h[<<n, g[d[n]]>>]
               e == [m \in 0 .. n |-> IF m = n THEN x ELSE g[m]]
    <3>3. n \in Small \/ (d[n] \in 0 .. n - 1 /\ g[d[n]] \in V)
      BY <2>3, <3>2
    <3>4. x \in V
      BY <2>3, <3>3
    <3>5. \A m \in 0 .. n - 1 : e[m] = g[m] /\ g[m] \in V
      BY <2>3, <3>2
    <3>6. \A m \in 0 .. n - 1 : m \notin Small => d[m] \in 0 .. n - 1
      BY <2>3
    <3>7. e[n] = x /\ (n \notin Small => e[d[n]] = g[d[n]])
      BY <2>3, <3>3, <3>5
    <3>8. \A m \in 0 .. n : m = n \/ m \in 0 .. n - 1
      BY <2>3
    <3> HIDE DEF x
    <3>9. e \in [0 .. n -> V]
      BY <3>4, <3>5, <3>8
    <3> HIDE DEF e
    <3>10. \A m \in 0 .. n :
              e[m] = IF m \in Small THEN b[m] ELSE h[<<m, e[d[m]]>>]
      <4>1. ASSUME NEW m \in 0 .. n - 1
            PROVE  e[m] = IF m \in Small THEN b[m] ELSE h[<<m, e[d[m]]>>]
        BY <3>2, <3>5, <3>6
      <4>2. e[n] = IF n \in Small THEN b[n] ELSE h[<<n, e[d[n]]>>]
        BY <3>7 DEF x
      <4>3. QED
        BY <3>8, <4>1, <4>2
    <3>11. QED
      BY <2>2, <3>9, <3>10
  <2>6. QED
    BY <2>4, <2>5
<1> DEFINE G(n) == CHOOSE g : P(g, n)
           f == [n \in Nat |-> G(n)[n]]
<1>3. \A n \in Nat : P(G(n), n)
  BY <1>2
<1> HIDE DEF G
<1>4. f \in [Nat -> V]
  BY <1>3
<1>5. ASSUME NEW n \in Nat
      PROVE  f[n] = IF n \in Small THEN b[n] ELSE h[<<n, f[d[n]]>>]
  <2>1. f[n] = G(n)[n] /\ n \in 0 .. n
    OBVIOUS
  <2>2. G(n)[n] = IF n \in Small THEN b[n] ELSE h[<<n, G(n)[d[n]]>>]
    BY <1>3, <2>1
  <2>3. CASE n \in Small
    BY <2>1, <2>2, <2>3
  <2>4. CASE n \notin Small
    <3>1. d[n] \in Nat /\ d[n] < n
      BY <2>4
    <3>2. d[n] \in 0 .. n /\ d[n] \in 0 .. d[n]
      BY <3>1
    <3>3. PICK k \in Nat : k = d[n]
      BY <3>1
    <3>4. P(G(n), n) /\ P(G(k), k) /\ k \in 0 .. n /\ k \in 0 .. k
      BY <1>3, <3>2, <3>3
    <3>5. G(n)[k] = G(k)[k]
      <4> HIDE DEF P
      <4>1. \A m \in 0 .. n : m \in 0 .. k => G(n)[m] = G(k)[m]
        BY <1>1, <3>4
      <4>2. QED
        BY <4>1, <3>4
    <3>6. f[k] = G(k)[k]
      OBVIOUS
    <3>7. QED
      BY <2>1, <2>2, <2>4, <3>3, <3>5, <3>6
  <2>5. QED
    BY <2>3, <2>4
<1>6. QED
  BY <1>4, <1>5 DEF Solves

(* An index below ten has one place and one digit; at ten, the code still  *)
(* makes room for one.                                                     *)
LEMMA Smaller == \A n \in Nat : n \div Base \in Nat /\ (n # 0 => n \div Base < n)
<1>1. SUFFICES ASSUME NEW n \in Nat
               PROVE  n \div Base \in Nat /\ (n # 0 => n \div Base < n)
  OBVIOUS
<1>2. PICK q \in Int : q = n \div Base
  BY LcfgAssumption
<1>3. Base \in Nat /\ Base >= 2 /\ n % Base \in 0 .. Base - 1
      /\ n = (Base * q) + (n % Base)
  BY <1>2, LcfgAssumption
<1>4. q >= 0
  BY <1>3
<1>5. n # 0 => q < n
  BY <1>3, <1>4
<1>6. QED
  BY <1>2, <1>4, <1>5

LEMMA PlacesOne == \A n \in 0 .. Base : Places[n] = 1
<1> DEFINE Small == {n \in Nat : ~(n > Base)}
           b == [n \in Nat |-> 1]
           h == [t \in Nat \X Nat |-> 1 + t[2]]
           d == [n \in Nat |-> n \div Base]
<1>1. b \in [Nat -> Nat] /\ h \in [Nat \X Nat -> Nat]
  OBVIOUS
<1>2. d \in [Nat -> Nat] /\ Descends(d, Small)
  <2>1. \A n \in Nat : d[n] = n \div Base
    OBVIOUS
  <2>2. \A n \in Nat : n \div Base \in Nat /\ (n # 0 => n \div Base < n)
    BY Smaller
  <2>3. \A n \in Nat \ Small : n # 0
    BY LcfgAssumption
  <2>4. d \in [Nat -> Nat]
    BY <2>2
  <2> HIDE DEF d, Small
  <2>5. QED
    BY <2>1, <2>2, <2>3, <2>4 DEF Descends
<1> HIDE DEF Small, b, h, d
<1>3. PICK f \in [Nat -> Nat] : Solves(f, Small, b, h, d)
  BY <1>1, <1>2, RecursionExists
<1>4. f = [n \in Nat |-> IF n > Base THEN 1 + f[n \div Base] ELSE 1]
  BY <1>2, <1>3 DEF Solves, Small, b, h, d
<1>5. Places = [n \in Nat |-> IF n > Base THEN 1 + Places[n \div Base] ELSE 1]
  BY <1>4 DEF Places
<1>6. QED
  BY <1>5, LcfgAssumption

LEMMA NumbersAre ==
    /\ Number \in [Nat -> Seq({Digit[i] : i \in 1 .. Base})]
    /\ \A n \in 0 .. Base - 1 : Number[n] = <<Digit[n + 1]>>
<1> DEFINE Small == {n \in Nat : n < Base}
           b == [n \in Nat |-> IF n < Base THEN <<Digit[n + 1]>> ELSE <<>>]
           V == Seq({Digit[i] : i \in 1 .. Base})
           h == [t \in Nat \X V |-> Append(t[2], Digit[(t[1] % Base) + 1])]
           d == [n \in Nat |-> n \div Base]
<1>1. b \in [Nat -> V] /\ h \in [Nat \X V -> V]
  <2>1. \A n \in Nat : n < Base => <<Digit[n + 1]>> \in V
    BY LcfgAssumption
  <2>2. <<>> \in V
    BY EmptySeq
  <2>3. \A n \in Nat : (n % Base) + 1 \in 1 .. Base
    BY LcfgAssumption
  <2>4. \A n \in Nat, v \in V : Append(v, Digit[(n % Base) + 1]) \in V
    BY <2>3
  <2>5. QED
    BY <2>1, <2>2, <2>4
<1>2. d \in [Nat -> Nat] /\ Descends(d, Small)
  <2>1. \A n \in Nat : d[n] = n \div Base
    OBVIOUS
  <2>2. \A n \in Nat : n \div Base \in Nat /\ (n # 0 => n \div Base < n)
    BY Smaller
  <2>3. \A n \in Nat \ Small : n # 0
    BY LcfgAssumption
  <2>4. d \in [Nat -> Nat]
    BY <2>2
  <2> HIDE DEF d, Small
  <2>5. QED
    BY <2>1, <2>2, <2>3, <2>4 DEF Descends
<1> HIDE DEF Small, b, h, d, V
<1>3. PICK f \in [Nat -> V] : Solves(f, Small, b, h, d)
  BY <1>1, <1>2, RecursionExists
<1>4. f = [n \in Nat |-> IF n < Base THEN <<Digit[n + 1]>>
                         ELSE Append(f[n \div Base], Digit[(n % Base) + 1])]
  BY <1>2, <1>3 DEF Solves, Small, b, h, d, V
<1>5. Number = [n \in Nat |-> IF n < Base THEN <<Digit[n + 1]>>
                              ELSE Append(Number[n \div Base], Digit[(n % Base) + 1])]
  BY <1>4 DEF Number
<1>6. ASSUME {n \in Nat : Number[n] \notin V} # {} PROVE FALSE
  <2> DEFINE Bad == {n \in Nat : Number[n] \notin V}
  <2>1. PICK n \in Bad : \A k \in Bad : n <= k
    BY <1>6, MinExists
  <2>2. n \in Nat /\ Number[n] \notin V
    BY <2>1
  <2>3. ~(n < Base)
    BY <1>1, <1>5, <2>2 DEF b
  <2>4. d[n] \in Nat /\ d[n] < n
    BY <1>2, <2>2, <2>3 DEF Descends, Small
  <2>5. d[n] \notin Bad
    <3> HIDE DEF Bad
    <3>1. ~(n <= d[n])
      BY <2>2, <2>4
    <3>2. QED
      BY <2>1, <3>1
  <2>6. Number[d[n]] \in V
    BY <2>4, <2>5
  <2>7. h[<<n, Number[d[n]]>>] \in V
    BY <1>1, <2>2, <2>6
  <2>8. Number[n] = Append(Number[d[n]], Digit[(n % Base) + 1])
    BY <1>5, <2>2, <2>3 DEF d
  <2>9. h[<<n, Number[d[n]]>>] = Append(Number[d[n]], Digit[(n % Base) + 1])
    BY <2>2, <2>6 DEF h
  <2>10. QED
    BY <2>2, <2>7, <2>8, <2>9
<1>7. Number \in [Nat -> V]
  <2> HIDE DEF V
  <2>1. \A n \in Nat : Number[n] \in V
    BY <1>6
  <2>2. QED
    BY <1>5, <2>1
<1>8. \A n \in 0 .. Base - 1 : Number[n] = <<Digit[n + 1]>>
  BY <1>5, LcfgAssumption
<1>9. QED
  BY <1>7, <1>8 DEF V

LEMMA NumberOne == \A n \in 0 .. Base - 1 : Number[n] = <<Digit[n + 1]>>
BY NumbersAre


-----------------------------------------------------------------------------

(* (The provers do not know that a literal is a member of STRING.)         *)
Chars == STRING \cup {"."}

(* A path of n names: none of them is empty or has a dot.                  *)
DotsOf(p) == {i \in 1 .. Len(p) : p[i] = "."}
Level(p, n) ==
    /\ p \in Seq(Chars)
    /\ n = 0 => p = <<>>
    /\ n > 0 => p # <<>> /\ p[1] # "." /\ Cardinality(DotsOf(p)) = n - 1
NameWord(w) ==
    /\ w \in Seq(Chars) \ {<<>>}
    /\ \A i \in 1 .. Len(w) : w[i] # "."

LEMMA DotsFinite ==
    ASSUME NEW p \in Seq(Chars)
    PROVE  IsFiniteSet(DotsOf(p)) /\ Cardinality(DotsOf(p)) \in Nat
<1>1. IsFiniteSet(1 .. Len(p)) /\ DotsOf(p) \in SUBSET (1 .. Len(p))
  BY FS_Interval DEF DotsOf
<1>2. IsFiniteSet(DotsOf(p))
  BY <1>1, FS_Subset
<1>3. QED
  BY <1>2, FS_CardinalityType

(* PATH_PUSH_STR adds a name.                                              *)
LEMMA PushLevel ==
    ASSUME NEW p, NEW n \in Nat, Level(p, n), NEW w, NameWord(w)
    PROVE  Level(PushName(p, w), n + 1)
<1>1. /\ p \in Seq(Chars) /\ w \in Seq(Chars) /\ Len(w) \in Nat \ {0}
      /\ Len(p) \in Nat /\ (p = <<>> <=> Len(p) = 0)
  BY EmptySeq DEF Level, NameWord
<1>2. CASE p = <<>>
  <2>1. Dotted(p) = <<>> /\ n = 0
    BY <1>2 DEF Dotted, Level
  <2>2. PushName(p, w) = w
    BY <2>1, <1>1, ConcatEmptySeq DEF PushName
  <2>3. DotsOf(w) = {} /\ w[1] # "." /\ w # <<>>
    BY <1>1 DEF DotsOf, NameWord
  <2>4. QED
    BY <1>1, <2>1, <2>2, <2>3, FS_EmptySet DEF Level
<1>3. CASE p # <<>>
  <2> DEFINE q == Append(p, ".")
             r == q \o w
  <2>1. PushName(p, w) = r /\ n > 0
    BY <1>3 DEF PushName, Dotted, Level
  <2>2. /\ q \in Seq(Chars) /\ Len(q) = Len(p) + 1 /\ q[Len(p) + 1] = "."
        /\ \A i \in 1 .. Len(p) : q[i] = p[i]
    <3>1. PICK dot \in Chars : dot = "."
      BY DEF Chars
    <3>2. q = Append(p, dot)
      BY <3>1
    <3>3. QED
      BY <1>1, <3>1, <3>2, AppendProperties
  <2> HIDE DEF q
  <2>3. /\ r \in Seq(Chars) /\ Len(r) = Len(p) + 1 + Len(w)
        /\ \A i \in 1 .. Len(p) + 1 : r[i] = q[i]
        /\ \A i \in 1 .. Len(w) : r[Len(p) + 1 + i] = w[i]
    BY <1>1, <2>2, SMTT(20)
  <2> HIDE DEF r
  <2>4. ASSUME NEW i \in 1 .. Len(r)
        PROVE  r[i] = "." <=> i \in DotsOf(p) \/ i = Len(p) + 1
    <3>1. CASE i \in 1 .. Len(p)
      BY <3>1, <1>1, <2>2, <2>3 DEF DotsOf
    <3>2. CASE i = Len(p) + 1
      BY <3>2, <1>1, <2>2, <2>3
    <3>3. CASE i > Len(p) + 1
      <4>1. i - (Len(p) + 1) \in 1 .. Len(w) /\ i = Len(p) + 1 + (i - (Len(p) + 1))
        BY <3>3, <1>1, <2>3
      <4>2. r[i] = w[i - (Len(p) + 1)]
        BY <4>1, <2>3
      <4>3. QED
        BY <3>3, <4>1, <4>2, <1>1 DEF NameWord, DotsOf
    <3>4. QED
      BY <3>1, <3>2, <3>3, <1>1, <2>3
  <2>5. DotsOf(r) = DotsOf(p) \cup {Len(p) + 1}
    BY <2>4, <2>3, <1>1 DEF DotsOf
  <2>6. Len(p) + 1 \notin DotsOf(p)
    BY <1>1 DEF DotsOf
  <2>7. Cardinality(DotsOf(r)) = Cardinality(DotsOf(p)) + 1
    BY <2>5, <2>6, <1>1, DotsFinite, FS_AddElement
  <2>8. r[1] = p[1] /\ r # <<>>
    <3>1. 1 \in 1 .. Len(p) /\ 1 \in 1 .. Len(p) + 1 /\ Len(r) # 0
      BY <1>1, <1>3, <2>3
    <3>2. QED
      BY <3>1, <2>2, <2>3, EmptySeq
  <2>9. QED
    BY <2>1, <2>3, <2>7, <2>8 DEF Level
<1>4. QED
  BY <1>2, <1>3

LEMMA MaxExists ==
    ASSUME NEW n \in Nat, NEW S \in SUBSET (1 .. n), S # {}
    PROVE  Max(S) \in S /\ \A j \in S : j <= Max(S)
<1> DEFINE T == {n - j : j \in S}
<1>1. T \subseteq Nat /\ T # {}
  <2>1. \A j \in S : j \in Nat /\ n - j \in Nat
    OBVIOUS
  <2>2. QED
    BY <2>1
<1>2. Min(T) \in T /\ \A j \in T : Min(T) <= j
  BY <1>1, MinExists
<1>3. PICK m \in S : Min(T) = n - m
  BY <1>2
<1>4. \A j \in S : n - m <= n - j
  BY <1>2, <1>3
<1>5. \A j \in S : m >= j
  BY <1>4
<1>6. \E x \in S : \A y \in S : x >= y
  BY <1>5
<1>7. Max(S) \in S /\ \A y \in S : Max(S) >= y
  BY <1>6, Zenon DEF Max
<1>8. QED
  BY <1>7

(* PATH_POP takes the last name away.                                      *)
LEMMA PopLevel ==
    ASSUME NEW p, NEW n \in Nat \ {0}, Level(p, n)
    PROVE  Level(Pop(p), n - 1)
<1> DEFINE dot == IF DotsOf(p) # {} THEN Max(DotsOf(p)) ELSE 0
<1>1. /\ p \in Seq(Chars) /\ Len(p) \in Nat /\ (p = <<>> <=> Len(p) = 0)
      /\ p # <<>> /\ p[1] # "." /\ Cardinality(DotsOf(p)) = n - 1
  BY EmptySeq DEF Level
<1>2. SelectLastInSeq(p, LAMBDA c : c = ".") = dot
  BY DEF SelectLastInSeq, DotsOf
<1>3. Pop(p) = SubSeq(p, 1, IF dot = 0 THEN 0 ELSE dot - 1)
  BY <1>2 DEF Pop
<1>4. CASE DotsOf(p) = {}
  <2>1. Pop(p) = SubSeq(p, 1, 0)
    BY <1>3, <1>4
  <2>2. Pop(p) = <<>> /\ n - 1 = 0
    BY <2>1, <1>1, <1>4, FS_EmptySet, SubSeqEmpty
  <2>3. QED
    BY <2>2, EmptySeq DEF Level
<1>5. CASE DotsOf(p) # {}
  <2>1. PICK m : m = Max(DotsOf(p))
    OBVIOUS
  <2>2. m \in DotsOf(p) /\ \A j \in DotsOf(p) : j <= m
    BY <2>1, <1>1, <1>5, MaxExists DEF DotsOf
  <2>3. m \in 1 .. Len(p) /\ m # 1
    BY <2>2, <1>1 DEF DotsOf
  <2>4. Pop(p) = SubSeq(p, 1, m - 1)
    BY <1>3, <1>5, <2>1, <2>3
  <2>5. PICK q : q = SubSeq(p, 1, m - 1)
    OBVIOUS
  <2>6. /\ q \in Seq(Chars) /\ Len(q) = m - 1
        /\ \A i \in 1 .. m - 1 : q[i] = p[i]
    BY <2>3, <2>5, <1>1
  <2>7. DotsOf(q) = DotsOf(p) \ {m}
    BY <2>2, <2>3, <2>6, <1>1 DEF DotsOf
  <2>8. Cardinality(DotsOf(q)) = Cardinality(DotsOf(p)) - 1
    <3>1. IsFiniteSet(DotsOf(p)) /\ m \in DotsOf(p)
      BY <2>2, <1>1, DotsFinite
    <3>2. Cardinality(DotsOf(p) \ {m}) = Cardinality(DotsOf(p)) - 1
      BY <3>1, FS_RemoveElement, Zenon
    <3>3. QED
      BY <3>2, <2>7
  <2>9. q # <<>> /\ q[1] = p[1]
    BY <2>3, <2>6, EmptySeq
  <2>10. Cardinality(DotsOf(q)) \in Nat
    BY <2>6, DotsFinite
  <2>11. n - 1 > 0 /\ Cardinality(DotsOf(q)) = n - 1 - 1
    BY <1>1, <2>8, <2>10
  <2>12. QED
    BY <1>1, <2>4, <2>5, <2>6, <2>9, <2>11, SMTT(20) DEF Level
<1>6. QED
  BY <1>4, <1>5

(* Of two names or more, one dot is between the first and the second.      *)
HasDot(p) == \E i \in 1 .. Len(p) : p[i] = "."

LEMMA LevelHasDot ==
    ASSUME NEW p, NEW n \in Nat, n >= 2, Level(p, n)
    PROVE  HasDot(p)
<1>1. Cardinality(DotsOf(p)) = n - 1 /\ n - 1 # 0
  BY DEF Level
<1>2. DotsOf(p) # {}
  BY <1>1, FS_EmptySet
<1>3. QED
  BY <1>2 DEF DotsOf, HasDot

LEMMA PushIndex ==
    ASSUME NEW p, NEW n \in Nat \ {0}, Level(p, n), NEW i \in 0 .. Base - 1
    PROVE  Level(PushInt(p, i), n + 1)
<1>1. /\ Number[i] = <<Digit[i + 1]>> /\ Places[i] = 1
      /\ Digit[i + 1] \in STRING /\ Digit[i + 1] # "."
  BY LcfgAssumption, NumberOne, PlacesOne
<1>2. PICK d \in Chars : d = Digit[i + 1] /\ d # "."
  BY <1>1 DEF Chars
<1>3. NameWord(<<d>>) /\ Len(<<d>>) = 1
  BY <1>2 DEF NameWord
<1>4. p \in Seq(Chars) /\ p # <<>> /\ "." \in Chars
  BY DEF Level, Chars
<1>5. PICK q \in Seq(Chars) : q = Dotted(p)
  BY <1>4, AppendProperties DEF Dotted
<1>6. Len(q) + Places[i] - Len(Number[i]) = Len(q)
  BY <1>1, <1>2, <1>3, <1>5
<1>7. SubSeq(q, 1, Len(q)) = q
  BY <1>5
<1>8. PushInt(p, i) = PushName(p, <<d>>)
  BY <1>1, <1>2, <1>5, <1>6, <1>7 DEF PushInt, CatUint, PushName
<1>9. QED
  BY <1>3, <1>8, PushLevel

-----------------------------------------------------------------------------

(* What the scanner collects for a name is one.                            *)
Fresh == {"start", "comm_start", "in_oneline", "in_multiline", "multiline_end"}
Words ==
    /\ token.type = "T_IDENTIFIER" => NameWord(token.word)
    /\ prepared = [type |-> prepared.type, word |-> prepared.word]
    /\ prepared.type = "T_IDENTIFIER" => NameWord(prepared.word)
    /\ prepared.type = "null_token" =>
          /\ fsm = "in_identifier" => NameWord(prepared.word)
          /\ fsm \in Fresh => prepared.word = <<>>
    /\ status = "parsing" => fsm = "start"

LEMMA AddedWord ==
    ASSUME NEW w, w = <<>> \/ NameWord(w), NEW c \in STRING, c # "."
    PROVE  NameWord(Append(w, c))
<1>1. w \in Seq(Chars) /\ c \in Chars /\ Len(w) \in Nat
  BY EmptySeq DEF NameWord, Chars
<1>2. /\ Append(w, c) \in Seq(Chars) /\ Append(w, c) # <<>>
      /\ Len(Append(w, c)) = Len(w) + 1 /\ Append(w, c)[Len(w) + 1] = c
      /\ \A i \in 1 .. Len(w) : Append(w, c)[i] = w[i]
  BY <1>1, AppendProperties
<1>3. \A i \in 1 .. Len(w) : w[i] # "."
  BY EmptySeq DEF NameWord
<1>4. \A i \in 1 .. Len(w) + 1 : i \in 1 .. Len(w) \/ i = Len(w) + 1
  BY <1>1
<1>5. QED
  BY <1>1, <1>2, <1>3, <1>4 DEF NameWord

LEMMA ScanWords ==
    ASSUME IInv, Words, ScanChar
    PROVE  Words'
<1>1. /\ UNCHANGED <<token, status>> /\ status = "scanning"
      /\ prepared.type = "null_token" /\ ~NeedsFill /\ ~AtEnd
  BY DEF ScanChar, Reading, parser
<1>2. PICK c : /\ c = buffer[offset + 1]
               /\ \/ Start(c) \/ CommStart(c) \/ InComment(c) \/ InIdentifier(c)
                  \/ InStr(c) \/ InEsc(c) \/ InHex(c)
  BY DEF ScanChar
<1>3. c \in STRING
  <2>1. offset + 1 \in 1 .. Len(buffer) /\ buffer \in Seq(STRING)
    BY <1>1, LcfgAssumption DEF NeedsFill, AtEnd, IInv, Types, Window
  <2>2. QED
    BY <1>2, <2>1
<1>4. c \in Letters \cup NameMarks => c # "."
  BY LcfgAssumption
<1>5. prepared = [type |-> prepared.type, word |-> prepared.word]
  BY DEF Words
<1>6. ASSUME NEW x, NEW state, Adds(x, state)
      PROVE  /\ prepared' = [type |-> "null_token", word |-> Append(prepared.word, x)]
             /\ fsm' = state
  BY <1>1, <1>5, <1>6 DEF Adds
<1>7. ASSUME NEW state, Goes(state), state \notin Fresh \cup {"in_identifier"}
                                      \/ (state \in Fresh /\ fsm \in Fresh)
      PROVE  Words'
  BY <1>1, <1>7 DEF Words, Goes, Fresh
<1>8. ASSUME NEW type, NEW word, Finds(Token(type, word)),
             type # "null_token", type = "T_IDENTIFIER" => NameWord(word)
      PROVE  Words'
  <2>1. prepared' = [type |-> type, word |-> word] /\ prepared'.type = type
        /\ prepared'.word = word
    BY <1>8 DEF Finds, Token
  <2>2. QED
    BY <1>1, <1>8, <2>1 DEF Words
<1>9. ASSUME NEW x, Adds(x, "in_str") PROVE Words'
  BY <1>1, <1>6, <1>9 DEF Words, Fresh
<1>10. ASSUME Adds(c, "in_identifier"), c # ".", fsm \in Fresh \cup {"in_identifier"}
       PROVE  Words'
  <2>1. prepared.word = <<>> \/ NameWord(prepared.word)
    BY <1>1, <1>10 DEF Words
  <2>2. NameWord(Append(prepared.word, c))
    BY <2>1, <1>3, <1>10, AddedWord
  <2>3. prepared' = [type |-> "null_token", word |-> Append(prepared.word, c)]
        /\ fsm' = "in_identifier"
    BY <1>6, <1>10
  <2>4. prepared'.type = "null_token" /\ prepared'.word = Append(prepared.word, c)
    BY <2>3
  <2>5. QED
    BY <1>1, <2>2, <2>3, <2>4 DEF Words, Fresh
<1>11. CASE Start(c)
  <2>1. c \in Marks => c # "null_token" /\ c # "T_IDENTIFIER"
    BY DEF Marks
  <2>2. CASE c \in Marks /\ Finds(Mark(c))
    BY <2>1, <2>2, <1>8 DEF Mark
  <2>3. CASE c \in Letters /\ Adds(c, "in_identifier")
    BY <2>3, <1>4, <1>10, <1>11 DEF Start, Fresh
  <2>4. QED
    BY <1>11, <1>7, <2>2, <2>3 DEF Start, Fresh
<1>12. CASE CommStart(c)
  BY <1>12, <1>7 DEF CommStart, Fresh
<1>13. CASE InComment(c)
  BY <1>13, <1>7 DEF InComment, Fresh
<1>14. CASE InIdentifier(c)
  <2>1. CASE fsm = "in_identifier" /\ ~EndsName(c) /\ Adds(c, fsm)
    BY <2>1, <1>4, <1>10 DEF EndsName
  <2>2. CASE EndsName(c) /\ Finds(Name(prepared.word))
    <3>1. NameWord(prepared.word)
      BY <2>2, <1>1 DEF Words, EndsName
    <3>2. QED
      BY <2>2, <3>1, <1>8 DEF Name
  <2>3. QED
    BY <1>14, <2>1, <2>2 DEF InIdentifier
<1>15. CASE InStr(c)
  <2>1. CASE Finds(String(prepared.word))
    BY <2>1, <1>8 DEF String
  <2>2. CASE Goes("in_esc")
    BY <2>2, <1>7 DEF Fresh
  <2>3. CASE fsm = "in_str" /\ Adds(c, fsm)
    BY <2>3, <1>9
  <2>4. QED
    BY <1>15, <2>1, <2>2, <2>3 DEF InStr
<1>16. CASE InEsc(c)
  BY <1>16, <1>7, <1>9 DEF InEsc, Fresh
<1>17. CASE InHex(c)
  <2>1. CASE fsm' = "esc_hex_exp_second" /\ UNCHANGED prepared
    BY <2>1, <1>1 DEF Words, Fresh
  <2>2. QED
    BY <1>17, <2>1, <1>9 DEF InHex
<1>18. QED
  BY <1>2, <1>11, <1>12, <1>13, <1>14, <1>15, <1>16, <1>17

LEMMA WordsStep ==
    ASSUME IInv, Words, [Next]_vars
    PROVE  Words'
<1>1. CASE ScanChar
  BY <1>1, ScanWords
<1>2. CASE Parse
  <2>1. CASE token' = prepared /\ prepared' = Null /\ status' = "scanning"
    BY <1>2, <2>1 DEF Parse, Words, Null, Token, Fresh
  <2>2. CASE UNCHANGED <<token, prepared>> /\ status' # "parsing"
    BY <1>2, <2>2 DEF Parse, Words
  <2>3. QED
    BY <1>2, <2>1, <2>2 DEF Parse, GoOn
<1>3. CASE ScanEnd
  BY <1>3 DEF ScanEnd, Words, scanner, parser
<1>4. CASE Write \/ Open \/ OpenFails \/ Fill \/ Visit \/ Return \/ UNCHANGED vars
  <2>1. UNCHANGED <<token, prepared, fsm>> /\ (status' = "parsing" => status = "parsing")
    BY <1>4 DEF Write, Open, OpenFails, Fill, Visit, Return, vars, lcfgVars, scanner,
       parser, Reading
  <2>2. QED
    BY <2>1 DEF Words
<1>5. QED
  BY <1>1, <1>2, <1>3, <1>4 DEF Next, LcfgNext, Read

-----------------------------------------------------------------------------

(* No list has more items than there are one digit numbers.                *)
ListsShort == \A i \in DOMAIN stack : stack[i].list_counter <= Base

(* The path has a name or a number for every element that is open.         *)
PathFollowsStack == Level(path, Len(stack) - 1)

(* The value is one of the file's own, outside of every section.           *)
AtTop == Len(stack) = 2 /\ Top.s = "exp_value"
Adding == values' # values

LEMMA PathStep ==
    ASSUME Automaton, PathFollowsStack, ListsShort', Handle,
           token.type = "T_IDENTIFIER" => NameWord(token.word)
    PROVE  /\ PathFollowsStack'
           /\ \/ values' = values
              \/ \E key, word :
                    /\ values' = Append(values, [key |-> key, value |-> word])
                    /\ HasDot(key) \/ AtTop
<1>1. /\ stack \in Seq(Elements) /\ Len(stack) \in Nat \ {0}
      /\ stack[1].s \in {"top_level", "invalid"} /\ Top = stack[Len(stack)]
      /\ Top \in Elements
  BY DEF Automaton, Top, Last
<1> DEFINE n == Len(stack) - 1
<1>2. n \in Nat /\ Level(path, n)
  BY <1>1 DEF PathFollowsStack
<1>3. Top.s \notin {"top_level", "invalid"} => n # 0
  BY <1>1
<1>4. \A s : Len(Become(s)) = Len(stack) /\ Len(Counted) = Len(stack)
  BY <1>1 DEF Become, Counted
<1>5. \A s : Len(Append(stack, Element(s))) = Len(stack) + 1
  BY <1>1
<1>6. \A s : Len(Append(Counted, Element(s))) = Len(stack) + 1
  BY CountedSeq
<1>7. n # 0 => Len(Front(stack)) = Len(stack) - 1
  BY <1>1 DEF Front
<1>8. n + 1 = Len(stack) /\ n + 1 - 1 = n /\ (n # 0 => n - 1 \in Nat)
  <2>1. PICK m \in Nat \ {0} : m = Len(stack)
    BY <1>1
  <2>2. n = m - 1
    BY <2>1
  <2> HIDE DEF n
  <2>3. QED
    BY <2>1, <2>2
<1> HIDE DEF n
<1>9. n # 0 => Level(Pop(path), n - 1)
  BY <1>2, PopLevel
<1>10. CASE token = Null /\ UNCHANGED <<stack, path, values>>
  BY <1>10 DEF PathFollowsStack
<1>11. CASE InMap
  <2>1. CASE /\ path' = PushName(path, token.word) /\ token.type = "T_IDENTIFIER"
             /\ stack' = Append(stack, Element("exp_equals"))
    <3>1. Level(path', n + 1) /\ Len(stack') - 1 = n + 1
      BY <2>1, <1>2, <1>5, <1>8, PushLevel
    <3>2. QED
      BY <3>1, <1>11 DEF PathFollowsStack, InMap
  <2>2. CASE Top.s = "in_map" /\ stack' = Front(stack) /\ path' = Pop(path)
    <3>1. Level(path', n - 1) /\ Len(stack') - 1 = n - 1
      BY <2>2, <1>2, <1>3, <1>7, <1>8, <1>9
    <3>2. QED
      BY <3>1, <1>11 DEF PathFollowsStack, InMap
  <2>3. CASE stack' = Become("invalid") /\ path' = path
    <3>1. Level(path', n) /\ Len(stack') - 1 = n
      BY <2>3, <1>2, <1>4, <1>8
    <3>2. QED
      BY <3>1, <1>11 DEF PathFollowsStack, InMap
  <2>4. QED
    BY <1>11, <2>1, <2>2, <2>3 DEF InMap
<1>12. CASE ExpEquals
  <2>1. (\E s : stack' = Become(s)) /\ path' = path /\ values' = values
    BY <1>12 DEF ExpEquals
  <2>2. QED
    BY <2>1, <1>2, <1>4, <1>8 DEF PathFollowsStack
<1>13. CASE ExpValue
  <2>1. n # 0 /\ Top.s = "exp_value"
    BY <1>13, <1>3 DEF ExpValue
  <2>2. CASE AddValue(path, token.word) /\ stack' = Front(stack) /\ path' = Pop(path)
    <3>1. Level(path', n - 1) /\ Len(stack') - 1 = n - 1
      BY <2>1, <2>2, <1>2, <1>7, <1>8, <1>9
    <3>2. HasDot(path) \/ AtTop
      <4>1. CASE n >= 2
        BY <4>1, <1>2, LevelHasDot
      <4>2. CASE n = 1
        BY <4>2, <2>1, <1>8 DEF AtTop
      <4>3. QED
        BY <4>1, <4>2, <2>1, <1>2
    <3>3. QED
      BY <2>2, <3>1, <3>2 DEF PathFollowsStack, AddValue
  <2>3. CASE (\E s : stack' = Become(s)) /\ path' = path /\ values' = values
    BY <2>3, <1>2, <1>4, <1>8 DEF PathFollowsStack
  <2>4. QED
    BY <1>13, <2>2, <2>3 DEF ExpValue
<1>14. CASE InList
  <2> DEFINE item == PushInt(path, Top.list_counter)
  <2>1. n # 0 /\ Top.s = "in_list"
    BY <1>14, <1>3 DEF InList
  <2>2. ASSUME \/ stack' = Counted
               \/ \E s : stack' = Append(Counted, Element(s))
        PROVE  Level(item, n + 1)
    <3>1. stack'[Len(stack)].list_counter = Top.list_counter + 1
          /\ Len(stack) \in DOMAIN stack'
      <4>1. CASE stack' = Counted
        BY <4>1, <1>1, CountedSeq
      <4>2. ASSUME NEW s, stack' = Append(Counted, Element(s))
            PROVE  stack'[Len(stack)] = Counted[Len(stack)]
                   /\ Len(stack) \in DOMAIN stack'
        BY <4>2, <1>1, CountedSeq
      <4>3. QED
        BY <2>2, <4>1, <4>2, CountedSeq
    <3>2. Top.list_counter + 1 <= Base
      BY <3>1 DEF ListsShort
    <3>3. Top.list_counter \in 0 .. Base - 1
      BY <3>2, <1>1, LcfgAssumption DEF Elements
    <3>4. QED
      BY <3>3, <2>1, <1>2, PushIndex
  <2> HIDE DEF item
  <2>3. CASE stack' = stack /\ path' = path /\ values' = values
    BY <2>3 DEF PathFollowsStack
  <2>4. CASE AddValue(item, token.word) /\ path' = Pop(item) /\ stack' = Counted
    <3>1. Level(item, n + 1)
      BY <2>2, <2>4
    <3>2. Level(path', n + 1 - 1)
      BY <2>4, <3>1, <1>2, PopLevel
    <3>3. HasDot(item)
      BY <3>1, <2>1, <1>2, LevelHasDot
    <3>4. Level(path', n) /\ Len(stack') - 1 = n
      <4>1. stack' = Counted /\ Len(Counted) = Len(stack)
        BY <2>4, <1>4
      <4>2. Len(stack') - 1 = n + 1 - 1
        BY <4>1, <1>1, <1>2, <1>8
      <4>3. n + 1 - 1 = n
        BY <1>8
      <4>4. QED
        BY <3>2, <4>2, <4>3
    <3>5. PathFollowsStack'
      BY <3>4 DEF PathFollowsStack
    <3>6. values' = Append(values, [key |-> item, value |-> token.word])
      BY <2>4 DEF AddValue
    <3>7. QED
      BY <3>3, <3>5, <3>6
  <2>5. CASE /\ path' = item /\ values' = values
             /\ \E s : stack' = Append(Counted, Element(s))
    <3>1. Level(item, n + 1)
      BY <2>2, <2>5
    <3>2. QED
      BY <2>5, <3>1, <1>6, <1>8 DEF PathFollowsStack
  <2>6. CASE path' = Pop(path) /\ stack' = Front(stack) /\ values' = values
    BY <2>1, <2>6, <1>2, <1>7, <1>8, <1>9 DEF PathFollowsStack
  <2>7. CASE stack' = Become("invalid") /\ path' = path /\ values' = values
    BY <2>7, <1>2, <1>4, <1>8 DEF PathFollowsStack
  <2>8. \/ stack' = stack /\ path' = path /\ values' = values
        \/ AddValue(item, token.word) /\ path' = Pop(item) /\ stack' = Counted
        \/ /\ path' = item /\ values' = values
           /\ stack' = Append(Counted,
                         Element(IF token.type = "[" THEN "in_list" ELSE "in_map"))
        \/ path' = Pop(path) /\ stack' = Front(stack) /\ values' = values
        \/ stack' = Become("invalid") /\ path' = path /\ values' = values
    BY <1>14, Zenon DEF InList, item
  <2>9. QED
    BY <2>3, <2>4, <2>5, <2>6, <2>7, <2>8
<1>15. QED
  BY <1>10, <1>11, <1>12, <1>13, <1>14 DEF Handle

LEMMA InitPath == Init => Words /\ PathFollowsStack
<1>1. SUFFICES ASSUME Init PROVE Words /\ PathFollowsStack
  OBVIOUS
<1>2. Words
  <2>1. /\ prepared = Null /\ token = Null /\ status = "writing"
    BY <1>1 DEF Init, LcfgInit
  <2>2. /\ Null.type = "null_token" /\ Null.word = <<>>
        /\ Null = [type |-> Null.type, word |-> Null.word]
    BY DEF Null, Token
  <2>3. fsm = "start"
    BY <1>1 DEF Init, LcfgInit
  <2>4. QED
    BY <2>1, <2>2, <2>3 DEF Words
<1>3. path = <<>> /\ Len(stack) - 1 = 0 /\ <<>> \in Seq(Chars)
  BY <1>1, EmptySeq DEF Init, LcfgInit
<1>4. Level(path, 0)
  BY <1>3 DEF Level
<1>5. PathFollowsStack
  BY <1>3, <1>4 DEF PathFollowsStack
<1>6. QED
  BY <1>2, <1>5

LEMMA PathsStep ==
    IInv /\ Words /\ PathFollowsStack /\ ListsShort' /\ [Next]_vars
        => Words' /\ PathFollowsStack'
<1>1. SUFFICES ASSUME IInv, Words, PathFollowsStack, ListsShort', [Next]_vars
               PROVE  PathFollowsStack'
  BY WordsStep
<1>2. CASE Parse
  BY <1>1, <1>2, PathStep DEF Parse, IInv, Words
<1>3. CASE UNCHANGED <<stack, path>>
  BY <1>1, <1>3 DEF PathFollowsStack
<1>4. Parse \/ UNCHANGED <<stack, path>>
  BY <1>1 DEF Next, LcfgNext, Read, Write, Open, OpenFails, Fill, ScanChar, ScanEnd,
     Visit, Return, vars, lcfgVars, parser
<1>5. QED
  BY <1>2, <1>3, <1>4

(* At every turn of lcfg_parser_parse the path has as many parts as        *)
(* elements are open: PATH_POP takes away what PATH_PUSH_STR and           *)
(* PATH_PUSH_INT added, as long as no list has more than ten items.        *)
THEOREM PathsAreAsDeep == Spec /\ []ListsShort => []PathFollowsStack
BY InitPath, PathsStep, Invariant, PTL DEF Spec

KeysHaveDots == \A i \in 1 .. Len(values) : HasDot(values[i].key)

(* rahunas_visitor writes through a null pointer (rh-config.c:44) only for *)
(* a setting outside of every section, or after a list of more than ten.   *)
THEOREM VisitorIsSafe ==
    Spec /\ []ListsShort /\ [][Adding => ~AtTop]_vars => [](status # "crashed")
<1> DEFINE Safe == KeysHaveDots /\ status # "crashed"
<1>1. Init => Words /\ PathFollowsStack /\ Safe
  <2>1. Init => values = <<>> /\ status = "writing" /\ Len(<<>>) = 0
    BY DEF Init, LcfgInit
  <2>2. QED
    BY <2>1, InitPath DEF KeysHaveDots
<1>2. IInv /\ Words /\ PathFollowsStack /\ ListsShort' /\ Safe
      /\ [Next]_vars /\ [Adding => ~AtTop]_vars => Words' /\ PathFollowsStack' /\ Safe'
  <2>1. SUFFICES ASSUME IInv, Words, PathFollowsStack, ListsShort', Safe, [Next]_vars,
                        [Adding => ~AtTop]_vars
                 PROVE  Safe'
    BY WordsStep, PathsStep
  <2>2. values' # values => ~AtTop
    BY <2>1 DEF vars, lcfgVars, parser, Adding
  <2>3. CASE Parse
    <3>1. status' # "crashed"
      BY <2>3 DEF Parse, GoOn
    <3>2. CASE values' = values
      BY <2>1, <3>1, <3>2 DEF KeysHaveDots
    <3>3. CASE values' # values
      <4>1. PICK key, word :
               /\ values' = Append(values, [key |-> key, value |-> word])
               /\ HasDot(key) \/ AtTop
        BY <2>1, <2>3, <3>3, PathStep DEF Parse, IInv, Words
      <4>2. PICK S : values \in Seq(S)
        BY <2>1 DEF IInv, Visited, IsList
      <4>3. PICK v : v = [key |-> key, value |-> word]
        OBVIOUS
      <4>4. v.key = key /\ HasDot(key) /\ values' = Append(values, v)
        BY <4>1, <4>3, <2>2, <3>3
      <4>5. values \in Seq(S \cup {v}) /\ v \in S \cup {v}
        BY <4>2
      <4>6. /\ Len(values') = Len(values) + 1 /\ values'[Len(values) + 1] = v
            /\ \A i \in 1 .. Len(values) : values'[i] = values[i]
            /\ Len(values) \in Nat
        BY <4>4, <4>5, AppendProperties
      <4>7. \A i \in 1 .. Len(values') : i \in 1 .. Len(values) \/ i = Len(values) + 1
        BY <4>6
      <4>8. QED
        BY <2>1, <3>1, <4>4, <4>6, <4>7 DEF KeysHaveDots
    <3>4. QED
      BY <3>2, <3>3
  <2>4. CASE Visit
    <3>1. visited + 1 \in 1 .. Len(values) /\ UNCHANGED values /\ status = "parsed"
      BY <2>1, <2>4, Lengths DEF Visit, IInv, Visited, parser
    <3>2. PICK p : p = values[visited + 1].key
      OBVIOUS
    <3>3. HasDot(p)
      BY <2>1, <3>1, <3>2 DEF KeysHaveDots
    <3> DEFINE I == {i \in 1 .. Len(p) : p[i] = "."}
    <3>4. I # {} /\ I \subseteq Nat /\ 0 \notin I
      BY <3>3 DEF HasDot
    <3>5. Min(I) # 0
      BY <3>4, MinExists
    <3>6. SelectInSeq(p, LAMBDA c : c = ".") # 0
      BY <3>4, <3>5 DEF SelectInSeq
    <3>7. status' = status
      BY <2>4, <3>2, <3>6 DEF Visit
    <3>8. QED
      BY <2>1, <3>1, <3>7 DEF KeysHaveDots
  <2>5. CASE ~Parse /\ ~Visit
    <3>1. UNCHANGED values /\ status' \in {status, "writing", "scanning", "no file",
                                           "parsing", "error", "configured"}
      BY <2>1, <2>5 DEF Next, LcfgNext, Read, Write, Open, OpenFails, Fill, ScanChar,
         ScanEnd, Return, vars, lcfgVars, parser
    <3>2. QED
      BY <2>1, <3>1 DEF KeysHaveDots
  <2>6. QED
    BY <2>3, <2>4, <2>5
<1>3. QED
  BY <1>1, <1>2, Invariant, PTL DEF Spec
=============================================================================
