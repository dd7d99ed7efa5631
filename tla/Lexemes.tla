-------------------------------- MODULE Lexemes --------------------------------
(***************************************************************************)
(* What the characters of a configuration file stand for: the tokens that  *)
(* lcfg_scanner_token_read (src/lcfg/lcfg_static.c) has to find in it.     *)
(***************************************************************************)
EXTENDS Lcfg, FiniteSetsExt

(* A piece of a text: the tokens it stands for, and where the next begins. *)
Piece(tokens, next) == [tokens |-> tokens, next |-> next]

(* What begins no piece is no token, and nothing after it is one.          *)
NoToken == Mark("no_token")
NoPiece(t) == Piece(<<NoToken>>, Len(t) + 1)

NameChars == Letters \cup NameMarks
NameEnds(t, i) == {k \in i .. Len(t) : t[k] \notin NameChars}
NamePiece(t, i) ==
    LET ends == NameEnds(t, i) IN
    IF ends = {} THEN NoPiece(t)
    ELSE Piece(<<Name(SubSeq(t, i, Min(ends) - 1))>>, Min(ends))

(* Comments, of one line and of any number.                                *)
LineEnds(t, i) == {k \in i .. Len(t) : t[k] = "\n"}
CommentEnds(t, i) == {k \in i .. Len(t) : t[k - 1] = "*" /\ t[k] = "/"}
Comment(t, ends) ==
    IF ends = {} THEN NoPiece(t) ELSE Piece(<<>>, Min(ends) + 1)

(* The rest of a string from position i: what it says, and where the next  *)
(* piece begins (0 if it is not closed or has a wrong escape).             *)
Put(c, rest) == [word |-> <<c>> \o rest.word, next |-> rest.next]
Ending(k) == [word |-> <<>>, next |-> k]

Escaped(t, S, i) ==
    CASE t[i + 1] \in DOMAIN Escapes -> Put(Escapes[t[i + 1]], S[i + 2])
      [] t[i + 1] = "x" /\ i + 3 <= Len(t) ->
            Put(HexValue(t[i + 2], t[i + 3]), S[i + 4])
      [] OTHER -> Ending(0)

RestOf(t, S, i) ==
    CASE i > Len(t) -> Ending(0)
      [] i <= Len(t) /\ t[i] = Quote -> Ending(i + 1)
      [] i < Len(t) /\ t[i] = "\\" -> Escaped(t, S, i)
      [] i = Len(t) /\ t[i] = "\\" -> Ending(0)
      [] OTHER -> Put(t[i], S[i + 1])

Rests(t) == LET S[i \in Nat \ {0}] == RestOf(t, S, i) IN S

StringPiece(t, i) ==
    LET rest == Rests(t)[i] IN
    IF rest.next = 0 THEN NoPiece(t) ELSE Piece(<<String(rest.word)>>, rest.next)

PieceAt(t, i) ==
    CASE t[i] \in Spaces -> Piece(<<>>, i + 1)
      [] t[i] \in Marks -> Piece(<<Mark(t[i])>>, i + 1)
      [] t[i] \in Letters -> NamePiece(t, i)
      [] t[i] = Quote -> StringPiece(t, i + 1)
      [] t[i] = "/" /\ i < Len(t) /\ t[i + 1] = "/" -> Comment(t, LineEnds(t, i + 2))
      [] t[i] = "/" /\ i < Len(t) /\ t[i + 1] = "*" -> Comment(t, CommentEnds(t, i + 3))
      [] OTHER -> NoPiece(t)

PiecesFrom(t, T, i) ==
    IF i > Len(t) THEN <<>> ELSE PieceAt(t, i).tokens \o T[PieceAt(t, i).next]

TokensFrom(t) == LET T[i \in Nat \ {0}] == PiecesFrom(t, T, i) IN T
Tokens(t) == TokensFrom(t)[1]
================================================================================
