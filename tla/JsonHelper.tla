----------------------------- MODULE JsonHelper ------------------------------
(***************************************************************************)
(* The JSON parser of include/utils/JsonHelper.h as operators on a text, a *)
(* sequence of characters.  A character is a one-character string; "LF",   *)
(* "CR" and "TAB" stand for the control characters and "eof" for the '\0'  *)
(* that peek() returns behind the end.                                     *)
(*                                                                         *)
(* A parse function takes the text and a position and returns a result:    *)
(* the node and the position behind it, or Error where the code throws.    *)
(***************************************************************************)
EXTENDS Integers, SequencesExt

(* JsonNode.  num holds bool_val, int_val, or dbl_val cut to an integer,   *)
(* which is all that is ever asked of a Double.                            *)
Node(type) == [type |-> type, num |-> 0, str |-> <<>>, obj |-> <<>>, arr |-> <<>>]
NullNode   == Node("null")

IntNode(n)    == [Node("int") EXCEPT !.num = n]
BoolNode(b)   == [Node("bool") EXCEPT !.num = IF b THEN 1 ELSE 0]
StringNode(s) == [Node("string") EXCEPT !.str = s]

(* operator[], string_or and int_or.                                       *)
Member(n, key)   == IF key \in DOMAIN n.obj THEN n.obj[key] ELSE NullNode
StringOr(n, def) == IF n.type = "string" THEN n.str ELSE def
IntOr(n, def)    == IF n.type \in {"int", "double"} THEN n.num ELSE def
-----------------------------------------------------------------------------
Digits  == <<"0", "1", "2", "3", "4", "5", "6", "7", "8", "9">>
DigitSet == Range(Digits)
IsDigit(c) == c \in DigitSet
Spaces  == {" ", "LF", "CR", "TAB"}

Error       == [ok |-> FALSE, node |-> NullNode, pos |-> 0]
Ok(node, p) == [ok |-> TRUE, node |-> node, pos |-> p]

Peek(s, p) == IF p <= Len(s) THEN s[p] ELSE "eof"

(* The first position from p on that holds no character of C.              *)
Behind(C, s, p) ==
  CHOOSE q \in p .. p + Len(s) :
    Peek(s, q) \notin C /\ \A i \in p .. q - 1 : Peek(s, i) \in C

SkipWs(s, p) == Behind(Spaces, s, p)

Expect(s, p, c) ==
  LET q == SkipWs(s, p) IN IF Peek(s, q) = c THEN Ok(NullNode, q + 1) ELSE Error

(* An escape sequence taken for the letter behind the backslash.           *)
UnescapeLetter(e) == e

Unescape(e) == CASE e = "n" -> "LF" [] e = "r" -> "CR" [] e = "t" -> "TAB"
                 [] e = "u" -> "?" [] OTHER -> e

ParseString(s, p) ==
  LET body[q \in p + 1 .. Len(s) + 1] ==
        IF Peek(s, q) \in {"eof", "\""} THEN [text |-> <<>>, pos |-> q]
        ELSE IF s[q] # "\\" THEN [body[q + 1] EXCEPT !.text = <<s[q]>> \o @]
        ELSE LET e == Peek(s, q + 1)
                 length == IF e = "u" THEN 6 ELSE 2
             IN  [body[Min({q + length, Len(s) + 1})]
                    EXCEPT !.text = <<Unescape(e)>> \o @]
      string == body[p + 1]
  IN  IF Peek(s, string.pos) = "\"" THEN Ok(StringNode(string.text), string.pos + 1)
                                    ELSE Error

(* The number whose digits are ds.                                         *)
Number(ds) == FoldLeft(LAMBDA n, c : 10 * n + (CHOOSE d \in 0 .. 9 : Digits[d + 1] = c), 0, ds)

(* A fraction and an exponent make a Double; a '-' alone is a zero.        *)
ParseNumber(s, p) ==
  LET Run(q)  == Behind(DigitSet, s, q)
      At(q)   == Number(SubSeq(s, q, Run(q) - 1))
      start   == IF Peek(s, p) = "-" THEN p + 1 ELSE p
      point   == Run(start)
      hasFrac == Peek(s, point) = "."
      expo    == IF hasFrac THEN Run(point + 1) ELSE point
      hasExp  == Peek(s, expo) \in {"e", "E"}
      power   == IF Peek(s, expo + 1) \in {"+", "-"} THEN expo + 2 ELSE expo + 1
      digits  == SelectSeq(SubSeq(s, start, expo - 1), IsDigit)
      frac    == IF hasFrac THEN expo - point - 1 ELSE 0
      scale   == (IF ~hasExp THEN 0 ELSE IF Peek(s, expo + 1) = "-" THEN -At(power) ELSE At(power)) - frac
      size    == IF scale >= 0 THEN Number(digits) * 10^scale
                               ELSE Number(digits) \div 10^(-scale)
      node    == [Node(IF hasFrac \/ hasExp THEN "double" ELSE "int")
                    EXCEPT !.num = IF start > p THEN -size ELSE size]
  IN  Ok(node, IF hasExp THEN Run(power) ELSE expo)

ParseWord(s, p, word, node) ==
  IF SubSeq(s, p, Min({p + Len(word) - 1, Len(s)})) = word
  THEN Ok(node, p + Len(word)) ELSE Error

\* What may follow a member or element before the next one; a parser that
\* also takes the end of the text.
MoreOrEnd(c) == c \in {",", "eof"}

More(c) == c = ","

(* The loop of parseObject from position p on: it ends without an error    *)
(* where the text ends.  parse is what is found from any position on.      *)
Members(parse, s, p) ==
  LET q     == SkipWs(s, p)
      key   == IF Peek(s, q) = "\"" THEN ParseString(s, q) ELSE Error
      colon == IF key.ok THEN Expect(s, key.pos, ":") ELSE Error
      value == IF colon.ok THEN parse["value", colon.pos] ELSE Error
      obj   == key.node.str :> value.node
      r     == SkipWs(s, value.pos)
      rest  == parse["members", r + 1]
  IN  CASE p > Len(s) -> Ok(Node("object"), p)
        [] p <= Len(s) /\ ~value.ok -> Error
        [] p <= Len(s) /\ value.ok ->
             CASE More(Peek(s, r)) -> IF rest.ok THEN [rest EXCEPT !.node.obj = @ @@ obj] ELSE Error
               [] Peek(s, r) = "}" -> Ok([Node("object") EXCEPT !.obj = obj], r + 1)
               [] OTHER -> Error

(* The loop of parseArray.                                                 *)
Elements(parse, s, p) ==
  LET value == parse["value", p]
      arr   == <<value.node>>
      r     == SkipWs(s, value.pos)
      rest  == parse["elements", r + 1]
  IN  CASE p > Len(s) -> Ok(Node("array"), p)
        [] p <= Len(s) /\ ~value.ok -> Error
        [] p <= Len(s) /\ value.ok ->
             CASE More(Peek(s, r)) -> IF rest.ok THEN [rest EXCEPT !.node.arr = arr \o @] ELSE Error
               [] Peek(s, r) = "]" -> Ok([Node("array") EXCEPT !.arr = arr], r + 1)
               [] OTHER -> Error

(* An object or array: closed at once, or the loop over what is in it.     *)
ParseValue(parse, s, p0) ==
  LET p == SkipWs(s, p0)
      c == Peek(s, p)
      inside == SkipWs(s, p + 1)
  IN  CASE c = "\"" -> ParseString(s, p)
        [] c = "{" -> IF Peek(s, inside) = "}" THEN Ok(Node("object"), inside + 1)
                                              ELSE parse["members", inside]
        [] c = "[" -> IF Peek(s, inside) = "]" THEN Ok(Node("array"), inside + 1)
                                              ELSE parse["elements", inside]
        [] c = "t" -> ParseWord(s, p, <<"t", "r", "u", "e">>, BoolNode(TRUE))
        [] c = "f" -> ParseWord(s, p, <<"f", "a", "l", "s", "e">>, BoolNode(FALSE))
        [] c = "n" -> ParseWord(s, p, <<"n", "u", "l", "l">>, NullNode)
        [] c = "-" \/ IsDigit(c) -> ParseNumber(s, p)
        [] OTHER -> Error

(* json::parse: what follows the first value is not looked at.             *)
Parse(s) ==
  LET parse[what \in {"value", "members", "elements"}, p \in Nat \ {0}] ==
        CASE what = "value"    -> ParseValue(parse, s, p)
          [] what = "members"  -> Members(parse, s, p)
          [] what = "elements" -> Elements(parse, s, p)
  IN  parse["value", 1]
=============================================================================
