-------------------------------- MODULE Jsmn --------------------------------
(***************************************************************************)
(* jsmn.h of hw-09 as curl-weather.c builds it (neither JSMN_STRICT nor    *)
(* JSMN_PARENT_LINKS) and calls it (once, with an array of tokens): a      *)
(* tokenizer that reads a text once from left to right, one action per     *)
(* branch of its loops.                                                    *)
(*                                                                         *)
(* A character stands for what the branches tell apart: "blank" for the    *)
(* four white spaces, "b" for the letters that may be escaped, "0" for a   *)
(* digit of \u, Odd for those below 32 and above 126.  Every other string  *)
(* is an ordinary character; a whole word that the tokenizer never looks   *)
(* into is one.  tokens[i] here is tokens[i - 1] there, and 0 as an index  *)
(* is its -1; a token that was not allocated is not in the sequence.       *)
(***************************************************************************)
EXTENDS Integers, Sequences

CONSTANT PoolSize      \* num_tokens

ASSUME PoolAssumption == PoolSize \in Nat \ {0}

Quote == "quote"
Backslash == "backslash"
Odd == "odd"
NUL == "NUL"
Blank == "blank"
Escapes == {Quote, Backslash, "b"}
Hex == {"0", "b"}
Ends == {":", Blank, ",", "]", "}"}      \* what ends a primitive

NoMem == -1
Invalid == -2
Partial == -3

VARIABLES
  js,        \* the text
  pos,       \* of the next character, from 0
  tokens,    \* the allocated tokens; toknext is their number
  toksuper,  \* the token whose size counts what comes next
  count,     \* of the values and keys
  start,     \* where the string or primitive at hand begins
  mode,      \* "idle", in which function's loop, or "parsed"
  r          \* what jsmn_parse() returned

parser == <<js, pos, tokens, toksuper, count, start, mode, r>>

Char(p) == js[p + 1]
AtEnd == ~(pos < Len(js) /\ Char(pos) # NUL)

IsOpen(t) == t.start # -1 /\ t.end = -1
IsContainer(t) == t.type \in {"object", "array"}
Greatest(S) == CHOOSE i \in S \cup {0} : \A j \in S : i >= j

\* (faulty form of Opened: the outermost of the tokens that are open)
OpenedFirst(S) == CHOOSE i \in S \cup {0} :
  LET open == {j \in S : IsOpen(tokens[j])} IN
  IF open = {} THEN i = 0 ELSE i \in open /\ \A j \in open : i <= j

\* The last of the tokens that are open.
Opened(S) == Greatest({i \in S : IsOpen(tokens[i])})

JsmnInit ==
  /\ js = <<>> /\ pos = 0 /\ tokens = <<>> /\ toksuper = 0
  /\ count = 0 /\ start = 0 /\ mode = "idle" /\ r = 0

\* jsmn_init() and the call of jsmn_parse().
CallParse(text) ==
  /\ js' = text /\ pos' = 0 /\ tokens' = <<>> /\ toksuper' = 0 /\ count' = 0
  /\ mode' = "json"
  /\ UNCHANGED <<start, r>>

ReturnR(code) ==
  /\ r' = code /\ mode' = "parsed"
  /\ UNCHANGED <<js, tokens, toksuper, count, start>>

\* Errors inside strings and primitives go back to where these began.
ReturnError(code) == pos' = start /\ ReturnR(code)

PoolIsFull == Len(tokens) >= PoolSize

Token(type, from, to) == [type |-> type, start |-> from, end |-> to, size |-> 0]

\* The new token t, counted by its superior.
Allocated(t) ==
  Append([i \in DOMAIN tokens |->
            IF i = toksuper THEN [tokens[i] EXCEPT !.size = @ + 1] ELSE tokens[i]], t)

NextChar ==
  /\ pos' = pos + 1
  /\ UNCHANGED <<js, start, r>>

-----------------------------------------------------------------------------
(* jsmn_parse() *)

At(c) == mode = "json" /\ ~AtEnd /\ Char(pos) = c

OpenBracket(c, type) ==
  /\ At(c)
  /\ IF PoolIsFull
       THEN ReturnR(NoMem) /\ UNCHANGED pos
       ELSE /\ tokens' = Allocated(Token(type, pos, -1))
            /\ toksuper' = Len(tokens')
            /\ count' = count + 1
            /\ NextChar /\ UNCHANGED mode

\* (faulty form of CloseBracket: it closes what is open, whatever it is)
CloseBracketOfAnyKind(c, type) ==
  /\ At(c)
  /\ LET i == Opened(DOMAIN tokens) IN
     IF i = 0
       THEN ReturnR(Invalid) /\ UNCHANGED pos
       ELSE /\ tokens' = [tokens EXCEPT ![i].end = pos + 1]
            /\ toksuper' = Opened(1 .. i - 1)
            /\ NextChar /\ UNCHANGED <<count, mode>>

CloseBracket(c, type) ==
  /\ At(c)
  /\ LET i == Opened(DOMAIN tokens) IN
     IF i = 0 \/ (i # 0 /\ tokens[i].type # type)
       THEN ReturnR(Invalid) /\ UNCHANGED pos
       ELSE /\ tokens' = [tokens EXCEPT ![i].end = pos + 1]
            /\ toksuper' = Opened(1 .. i - 1)
            /\ NextChar /\ UNCHANGED <<count, mode>>

\* (faulty form of SkipBlank: the loop does not go on)
SkipBlankStays == At(Blank) /\ UNCHANGED parser

SkipBlank == At(Blank) /\ NextChar /\ UNCHANGED <<tokens, toksuper, count, mode>>

Colon ==
  /\ At(":")
  /\ toksuper' = Len(tokens)
  /\ NextChar /\ UNCHANGED <<tokens, count, mode>>

\* (faulty form of Comma: what follows still belongs to the last key)
CommaIgnored ==
  /\ At(",")
  /\ NextChar /\ UNCHANGED <<tokens, toksuper, count, mode>>

Comma ==
  /\ At(",")
  /\ LET open == Opened({i \in DOMAIN tokens : IsContainer(tokens[i])}) IN
     toksuper' = IF toksuper # 0 /\ ~IsContainer(tokens[toksuper]) /\ open # 0
                   THEN open ELSE toksuper
  /\ NextChar /\ UNCHANGED <<tokens, count, mode>>

BeginString ==
  /\ At(Quote)
  /\ mode' = "string" /\ start' = pos /\ pos' = pos + 1
  /\ UNCHANGED <<js, tokens, toksuper, count, r>>

BeginPrimitive ==
  /\ mode = "json" /\ ~AtEnd
  /\ Char(pos) \notin Ends \cup {"{", "[", Quote}
  /\ mode' = "primitive" /\ start' = pos
  /\ UNCHANGED <<js, pos, tokens, toksuper, count, r>>

\* (faulty form of EndText: tokens that are still open are not looked for)
EndTextUnchecked ==
  /\ mode = "json" /\ AtEnd
  /\ ReturnR(count)
  /\ UNCHANGED pos

EndText ==
  /\ mode = "json" /\ AtEnd
  /\ ReturnR(IF Opened(DOMAIN tokens) # 0 THEN Partial ELSE count)
  /\ UNCHANGED pos

-----------------------------------------------------------------------------
(* jsmn_parse_string() and jsmn_parse_primitive() *)

\* The string or primitive ends before character `to`; `next` is read then.
EndToken(type, from, to, next) ==
  IF PoolIsFull
    THEN ReturnError(NoMem)
    ELSE /\ tokens' = Allocated(Token(type, from, to))
         /\ count' = count + 1 /\ pos' = next /\ mode' = "json"
         /\ UNCHANGED <<js, toksuper, start, r>>

InString == mode = "string" /\ ~AtEnd
Escaping == Char(pos) = Backslash /\ pos + 1 < Len(js)

EndString ==
  /\ InString /\ Char(pos) = Quote
  /\ EndToken("string", start + 1, pos, pos + 1)

StringChar ==
  /\ InString /\ Char(pos) # Quote /\ ~Escaping
  /\ NextChar /\ UNCHANGED <<tokens, toksuper, count, mode>>

\* The number of hexadecimal digits after \u, up to four.
Digits == Greatest({n \in 1 .. 4 : \A i \in 1 .. n :
                  pos + 1 + i < Len(js) /\ Char(pos + 1 + i) \in Hex})

EscapedChar ==
  /\ InString /\ Escaping
  /\ LET next == pos + 2 + Digits IN
     CASE Char(pos + 1) \in Escapes ->
            pos' = pos + 2 /\ UNCHANGED <<js, start, r, tokens, toksuper, count, mode>>
       [] Char(pos + 1) = "u" /\ (Digits = 4 \/ next >= Len(js) \/ Char(next) = NUL) ->
            pos' = next /\ UNCHANGED <<js, start, r, tokens, toksuper, count, mode>>
       [] OTHER -> ReturnError(Invalid)

CutString == mode = "string" /\ AtEnd /\ ReturnError(Partial)

PrimitiveChar ==
  /\ mode = "primitive" /\ ~AtEnd /\ Char(pos) \notin Ends
  /\ IF Char(pos) = Odd
       THEN ReturnError(Invalid)
       ELSE NextChar /\ UNCHANGED <<tokens, toksuper, count, mode>>

EndPrimitive ==
  /\ mode = "primitive" /\ (~AtEnd => Char(pos) \in Ends)
  /\ EndToken("primitive", start, pos, pos)

Parse ==
  \/ OpenBracket("{", "object") \/ OpenBracket("[", "array")
  \/ CloseBracket("}", "object") \/ CloseBracket("]", "array")
  \/ SkipBlank \/ Colon \/ Comma \/ BeginString \/ BeginPrimitive \/ EndText
  \/ EndString \/ StringChar \/ EscapedChar \/ CutString
  \/ PrimitiveChar \/ EndPrimitive

-----------------------------------------------------------------------------
(* Properties *)

JsmnTypeOK ==
  /\ pos \in 0 .. Len(js) /\ start \in 0 .. Len(js)
  /\ Len(tokens) <= PoolSize /\ toksuper \in 0 .. Len(tokens) /\ count = Len(tokens)
  /\ mode \in {"idle", "json", "string", "primitive", "parsed"}
  /\ mode = "parsed" /\ r >= 0 => r = count

\* Whatever the text, the tokens lie within what was read and nest: of two, the
\* later one is inside the earlier or behind it; and no token of an accepted
\* text is open (the two scans of the closing bracket, jsmn_parse()).
TokensNest ==
  LET Stop(t) == IF IsOpen(t) THEN Len(js) + 1 ELSE t.end IN
  /\ \A n \in DOMAIN tokens :
       /\ 0 <= tokens[n].start
       /\ IsOpen(tokens[n]) \/ (tokens[n].start <= tokens[n].end /\ tokens[n].end <= Len(js))
       /\ \A k \in 1 .. n - 1 :
            \/ Stop(tokens[k]) <= tokens[n].start
            \/ tokens[k].start <= tokens[n].start /\ Stop(tokens[n]) <= Stop(tokens[k])
                 /\ IsContainer(tokens[k])
  /\ mode = "parsed" /\ r >= 0 => \A n \in DOMAIN tokens : ~IsOpen(tokens[n])

\* The places of the text that a token was made of: the brackets of a container,
\* the characters of the others, with the quotes of a string.
Places(t) ==
  CASE IsContainer(t) -> {t.start, t.end - 1} \cap Nat
    [] t.type = "string" -> t.start - 1 .. t.end
    [] OTHER -> t.start .. t.end - 1

\* What stands there.
Spelled(t) ==
  CASE t.type = "object" -> Char(t.start) = "{" /\ (IsOpen(t) \/ Char(t.end - 1) = "}")
    [] t.type = "array" -> Char(t.start) = "[" /\ (IsOpen(t) \/ Char(t.end - 1) = "]")
    [] t.type = "string" -> Char(t.start - 1) = Quote /\ Char(t.end) = Quote
    [] OTHER -> /\ t.start < t.end
                /\ \A p \in Places(t) : Char(p) \notin {":", Blank, ",", "]", "}", Odd}

Skipped == {Blank, ":", ","}

\* Every character of a text that is accepted, JSON or not, belongs to one token
\* and one only, of the right type, or is a blank, a colon or a comma: nothing is
\* passed over or taken twice, and no bracket closes what one of the other kind
\* has opened (jsmn_parse()).
TokensAreTheText ==
  mode = "parsed" /\ r >= 0 =>
    /\ \A n \in DOMAIN tokens : Spelled(tokens[n])
    /\ \A n, k \in DOMAIN tokens : n = k \/ Places(tokens[n]) \cap Places(tokens[k]) = {}
    /\ \A p \in 0 .. Len(js) - 1 :
         Char(p) \in Skipped \/ \E n \in DOMAIN tokens : p \in Places(tokens[n])

=============================================================================
