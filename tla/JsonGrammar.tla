----------------------------- MODULE JsonGrammar -----------------------------
(***************************************************************************)
(* What a JSON text is, and the tokens it has: the reference that the      *)
(* tokenizer of Jsmn is held to.  A recursive descent over the text, with  *)
(* positions from 1, that knows nothing of the tokenizer's one pass.  Any  *)
(* run of ordinary characters is taken for a number or literal, and        *)
(* control characters may be in strings, as the tokenizer allows.          *)
(***************************************************************************)
EXTENDS Integers, Sequences

LOCAL Quote == "quote"
LOCAL Backslash == "backslash"
LOCAL Blank == "blank"
LOCAL Hex == {"0", "b"}
LOCAL Special == {"{", "}", "[", "]", ":", ",", Quote, Backslash, Blank, "odd", "NUL"}

\* A part of the text: where what follows it begins (0: it is no such part),
\* its tokens, and the number of its members when it is a list of them.
LOCAL None == [next |-> 0, tokens |-> <<>>, size |-> 0]
LOCAL Ref(type, from, to, n) == [type |-> type, start |-> from, end |-> to, size |-> n]

LOCAL Is(t, p, c) == p \in DOMAIN t /\ t[p] = c

RECURSIVE SkipBlanks(_, _), WordEnd(_, _), ClosingQuote(_, _), Value(_, _), Items(_, _, _)

SkipBlanks(t, p) == IF Is(t, p, Blank) THEN SkipBlanks(t, p + 1) ELSE p

WordEnd(t, p) == IF p \in DOMAIN t /\ t[p] \notin Special THEN WordEnd(t, p + 1) ELSE p

\* Of the string whose characters begin at p, or 0.
ClosingQuote(t, p) ==
  LET short == p + 1 <= Len(t) /\ t[p + 1] \in {Quote, Backslash, "b"}
      long == Is(t, p + 1, "u") /\ p + 5 <= Len(t) /\ \A k \in 2 .. 5 : t[p + k] \in Hex
  IN  CASE p > Len(t) \/ Is(t, p, "NUL") -> 0
        [] Is(t, p, Quote) -> p
        [] Is(t, p, Backslash) ->
             IF short THEN ClosingQuote(t, p + 2)
             ELSE IF long THEN ClosingQuote(t, p + 6) ELSE 0
        [] OTHER -> ClosingQuote(t, p + 1)

LOCAL String(t, p, n) ==
  LET q == ClosingQuote(t, p + 1)
  IN  IF ~Is(t, p, Quote) \/ q = 0 THEN None
      ELSE [next |-> q + 1, tokens |-> <<Ref("string", p, q - 1, n)>>, size |-> 0]

LOCAL Word(t, p) ==
  LET q == WordEnd(t, p)
  IN  IF q = p THEN None
      ELSE [next |-> q, tokens |-> <<Ref("primitive", p - 1, q - 1, 0)>>, size |-> 0]

LOCAL Member(t, p) ==
  LET key == String(t, p, 1)
      colon == SkipBlanks(t, key.next)
      value == Value(t, SkipBlanks(t, colon + 1))
  IN  IF key.next = 0 \/ ~Is(t, colon, ":") \/ value.next = 0 THEN None
      ELSE [value EXCEPT !.tokens = key.tokens \o @]

\* One or more elements or members, up to and with the closing bracket.
Items(t, p, closing) ==
  LET item == IF closing = "}" THEN Member(t, p) ELSE Value(t, p)
      after == SkipBlanks(t, item.next)
      rest == Items(t, SkipBlanks(t, after + 1), closing)
  IN  CASE item.next = 0 -> None
        [] Is(t, after, closing) -> [next |-> after + 1, tokens |-> item.tokens, size |-> 1]
        [] Is(t, after, ",") /\ rest.next # 0 ->
             [next |-> rest.next, tokens |-> item.tokens \o rest.tokens, size |-> rest.size + 1]
        [] OTHER -> None

LOCAL Container(t, p, type, closing) ==
  LET first == SkipBlanks(t, p + 1)
      items == IF Is(t, first, closing)
                 THEN [next |-> first + 1, tokens |-> <<>>, size |-> 0]
                 ELSE Items(t, first, closing)
  IN  IF items.next = 0 THEN None
      ELSE [items EXCEPT !.tokens = <<Ref(type, p - 1, items.next - 1, items.size)>> \o @]

Value(t, p) ==
  CASE Is(t, p, "{") -> Container(t, p, "object", "}")
    [] Is(t, p, "[") -> Container(t, p, "array", "]")
    [] Is(t, p, Quote) -> String(t, p, 0)
    [] OTHER -> Word(t, p)

LOCAL Root(t) == Value(t, SkipBlanks(t, 1))

IsJson(t) == Root(t).next # 0 /\ SkipBlanks(t, Root(t).next) = Len(t) + 1
JsonTokens(t) == Root(t).tokens

=============================================================================
