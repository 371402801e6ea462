--------------------------- MODULE WeatherProofs ----------------------------
(***************************************************************************)
(* Proofs about Weather and the tokenizer it calls, for every answer of    *)
(* the server, every way in which it comes, and every size of the buffers. *)
(***************************************************************************)
EXTENDS Weather, NumberLemmas

-----------------------------------------------------------------------------
(* The greatest of a set of numbers *)

LEMMA GreatestIs ==
  ASSUME NEW n \in Nat, NEW S \in SUBSET (1 .. n)
  PROVE  /\ Greatest(S) \in S \cup {0} /\ Greatest(S) \in 0 .. n
         /\ \A j \in S : j <= Greatest(S)
         /\ S # {} => Greatest(S) \in S
<1>1. \E x \in S \cup {0} : \A j \in S : x >= j
  <2>1. CASE S = {}
    BY <2>1
  <2>2. CASE S # {}
    <3> DEFINE T == {n - j : j \in S}
    <3>1. T \in SUBSET Nat /\ T # {}
      <4>1. \A j \in S : n - j \in Nat
        OBVIOUS
      <4>2. PICK j \in S : TRUE
        BY <2>2
      <4> QED BY <4>1, <4>2
    <3>2. PICK x \in T : \A y \in T : x <= y
      BY <3>1, LeastExists
    <3>3. PICK m \in S : x = n - m
      BY <3>2
    <3>4. \A j \in S : m >= j
      <4> SUFFICES ASSUME NEW j \in S PROVE m >= j
        OBVIOUS
      <4>1. n - j \in T
        OBVIOUS
      <4>2. n - m <= n - j
        BY <3>2, <3>3, <4>1
      <4>3. n \in Int /\ m \in Int /\ j \in Int
        OBVIOUS
      <4> QED BY ONLY <4>2, <4>3
    <3> QED BY <3>3, <3>4
  <2> QED BY <2>1, <2>2
<1>2. Greatest(S) \in S \cup {0} /\ \A j \in S : Greatest(S) >= j
  BY <1>1 DEF Greatest
<1> DEFINE g == Greatest(S)
<1>3. g \in S \cup {0} /\ \A j \in S : g >= j
  BY <1>2
<1> HIDE DEF g
<1>4. g \in 0 .. n
  BY <1>3
<1>5. S # {} => g \in S
  <2> SUFFICES ASSUME NEW j \in S PROVE g # 0
    BY <1>3
  <2> QED BY <1>3, <1>4
<1> QED BY <1>3, <1>4, <1>5 DEF g

-----------------------------------------------------------------------------
(* The tokenizer: types *)

Tokens == [type: {"object", "array", "string", "primitive"}, start: Nat,
           end: Nat \cup {-1}, size: Nat]

ParserTyped ==
  /\ js \in Seq(STRING) /\ pos \in 0 .. Len(js) /\ start \in 0 .. Len(js)
  /\ tokens \in Seq(Tokens) /\ Len(tokens) <= PoolSize
  /\ toksuper \in 0 .. Len(tokens) /\ count = Len(tokens)
  /\ mode \in {"idle", "json", "string", "primitive", "parsed"} /\ r \in Int
  /\ mode = "parsed" /\ r >= 0 => r = count
  /\ mode = "string" => start < pos
  /\ mode = "primitive" => start <= pos

\* The characters before are in tokens, or between them.
Base == IF mode \in {"string", "primitive"} THEN start ELSE pos

\* A step of the parser leaves the tokens alone, ...
Reads ==
  /\ UNCHANGED <<js, tokens, count>>
  /\ pos' \in 0 .. Len(js) /\ start' \in 0 .. Len(js) /\ toksuper' \in 0 .. Len(tokens)
  /\ mode' \in {"json", "string", "primitive", "parsed"} /\ r' \in Int
  /\ mode' = "string" => start' < pos'
  /\ mode' = "primitive" => start' <= pos'
  /\ mode' = "parsed" /\ r' >= 0 => r' = count /\ \A n \in DOMAIN tokens : ~IsOpen(tokens[n])
  /\ Base <= Base'

\* ... adds one behind all others, ...
Adds ==
  \E t \in Tokens :
    /\ tokens' = Allocated(t)
    /\ Base <= t.start
    /\ \/ t.end = -1 /\ IsContainer(t) /\ t.start <= pos'
       \/ t.start <= t.end /\ t.end <= pos'
    /\ Len(tokens) < PoolSize /\ count' = count + 1 /\ toksuper' \in 0 .. Len(tokens) + 1
    /\ UNCHANGED <<js, start, r>> /\ mode' = "json" /\ pos' \in 0 .. Len(js) /\ Base <= pos'

\* ... or closes the last one that is open.
Closes ==
  \E k \in DOMAIN tokens :
    /\ IsOpen(tokens[k]) /\ \A n \in k + 1 .. Len(tokens) : ~IsOpen(tokens[n])
    /\ tokens' = [tokens EXCEPT ![k].end = pos + 1]
    /\ UNCHANGED <<js, count, start, r, mode>> /\ mode = "json"
    /\ pos' = pos + 1 /\ pos' <= Len(js) /\ toksuper' \in 0 .. Len(tokens)

LEMMA TokensDomain ==
  ASSUME ParserTyped
  PROVE  /\ Len(js) \in Nat /\ Len(tokens) \in Nat /\ DOMAIN tokens = 1 .. Len(tokens)
         /\ \A n \in DOMAIN tokens : tokens[n] \in Tokens
BY LenProperties, ElementOfSeq DEF ParserTyped

LEMMA OpenedIs ==
  ASSUME ParserTyped, NEW S \in SUBSET (DOMAIN tokens)
  PROVE  /\ Opened(S) \in 0 .. Len(tokens)
         /\ Opened(S) # 0 => Opened(S) \in S /\ IsOpen(tokens[Opened(S)])
         /\ \A n \in S : n > Opened(S) => ~IsOpen(tokens[n])
<1> DEFINE O == {n \in S : IsOpen(tokens[n])}
<1>1. Len(tokens) \in Nat /\ DOMAIN tokens = 1 .. Len(tokens) /\ O \in SUBSET (1 .. Len(tokens))
  BY TokensDomain
<1>2. Opened(S) = Greatest(O)
  BY DEF Opened
<1>3. /\ Greatest(O) \in O \cup {0} /\ Greatest(O) \in 0 .. Len(tokens)
      /\ \A j \in O : j <= Greatest(O)
  BY <1>1, GreatestIs
<1> HIDE DEF O
<1> DEFINE g == Opened(S)
<1>4. g \in O \cup {0} /\ g \in 0 .. Len(tokens) /\ \A j \in O : j <= g
  BY <1>2, <1>3
<1> HIDE DEF g
<1>5. \A n \in S : n \in Nat
  BY <1>1
<1>6. \A n \in S : n > g => n \notin O
  BY <1>4, <1>5
<1> QED BY <1>4, <1>6 DEF O, g

-----------------------------------------------------------------------------
(* The tokenizer: what its steps do *)

LEMMA TokenTyped ==
  ASSUME NEW type \in {"object", "array", "string", "primitive"}, NEW from \in Nat,
         NEW to \in Nat \cup {-1}
  PROVE  /\ Token(type, from, to) \in Tokens
         /\ Token(type, from, to).type = type /\ Token(type, from, to).start = from
         /\ Token(type, from, to).end = to
BY DEF Token, Tokens

LEMMA AllocatedIs ==
  ASSUME ParserTyped, NEW t \in Tokens
  PROVE  /\ Allocated(t) \in Seq(Tokens) /\ Len(Allocated(t)) = Len(tokens) + 1
         /\ Allocated(t)[Len(tokens) + 1] = t
         /\ \A n \in 1 .. Len(tokens) :
              /\ Allocated(t)[n].start = tokens[n].start
              /\ Allocated(t)[n].end = tokens[n].end
              /\ Allocated(t)[n].type = tokens[n].type
<1> DEFINE New(n) == IF n = toksuper THEN [tokens[n] EXCEPT !.size = @ + 1] ELSE tokens[n]
           T == [n \in DOMAIN tokens |-> New(n)]
<1>1. Len(tokens) \in Nat /\ DOMAIN tokens = 1 .. Len(tokens)
  BY TokensDomain
<1>2. \A n \in 1 .. Len(tokens) :
        /\ New(n) \in Tokens /\ New(n).start = tokens[n].start
        /\ New(n).end = tokens[n].end /\ New(n).type = tokens[n].type
  <2> SUFFICES ASSUME NEW n \in 1 .. Len(tokens)
               PROVE  /\ New(n) \in Tokens /\ New(n).start = tokens[n].start
                      /\ New(n).end = tokens[n].end /\ New(n).type = tokens[n].type
    OBVIOUS
  <2>1. tokens[n] \in Tokens
    BY <1>1, TokensDomain
  <2> QED BY <2>1 DEF Tokens
<1> HIDE DEF New
<1>3. T \in Seq(Tokens) /\ Len(T) = Len(tokens) /\ \A n \in 1 .. Len(tokens) : T[n] = New(n)
  <2>1. T = [n \in 1 .. Len(tokens) |-> New(n)]
    BY <1>1
  <2> HIDE DEF T
  <2>2. T \in [1 .. Len(tokens) -> Tokens]
    BY <1>2, <2>1
  <2>3. T \in Seq(Tokens)
    BY <1>1, <2>2, SeqDef
  <2>4. Len(T) = Len(tokens)
    BY <1>1, <2>2, <2>3, LenProperties
  <2> QED BY <2>1, <2>3, <2>4
<1>4. Allocated(t) = Append(T, t)
  BY DEF Allocated, New
<1> HIDE DEF T
<1>5. /\ Append(T, t) \in Seq(Tokens) /\ Len(Append(T, t)) = Len(tokens) + 1
      /\ Append(T, t)[Len(tokens) + 1] = t
      /\ \A n \in 1 .. Len(tokens) : Append(T, t)[n] = New(n)
  BY <1>1, <1>3, AppendProperties
<1> QED BY <1>2, <1>4, <1>5

LEMMA ClosedIs ==
  ASSUME ParserTyped, NEW k \in DOMAIN tokens, NEW e \in Nat
  PROVE  /\ [tokens EXCEPT ![k].end = e] \in Seq(Tokens)
         /\ Len([tokens EXCEPT ![k].end = e]) = Len(tokens)
         /\ \A n \in DOMAIN tokens :
              /\ [tokens EXCEPT ![k].end = e][n].start = tokens[n].start
              /\ [tokens EXCEPT ![k].end = e][n].type = tokens[n].type
              /\ [tokens EXCEPT ![k].end = e][n].end = IF n = k THEN e ELSE tokens[n].end
<1> DEFINE T == [tokens EXCEPT ![k].end = e]
<1>1. /\ Len(tokens) \in Nat /\ DOMAIN tokens = 1 .. Len(tokens)
      /\ \A n \in DOMAIN tokens : tokens[n] \in Tokens
  BY TokensDomain
<1>2. [tokens[k] EXCEPT !.end = e] \in Tokens
  BY <1>1 DEF Tokens
<1>3. T = [n \in DOMAIN tokens |-> IF n = k THEN [tokens[k] EXCEPT !.end = e] ELSE tokens[n]]
  BY DEF ParserTyped
<1>4. T \in Seq(Tokens) /\ Len(T) = Len(tokens)
  <2>1. T \in [1 .. Len(tokens) -> Tokens]
    BY <1>1, <1>2, <1>3
  <2> HIDE DEF T
  <2>2. T \in Seq(Tokens)
    BY <1>1, <2>1, SeqDef
  <2> QED BY <1>1, <2>1, <2>2, LenProperties
<1>5. \A n \in DOMAIN tokens :
        /\ T[n].start = tokens[n].start /\ T[n].type = tokens[n].type
        /\ T[n].end = IF n = k THEN e ELSE tokens[n].end
  BY <1>1, <1>3 DEF Tokens
<1> QED BY <1>4, <1>5

LEMMA OpenBracketKind ==
  ASSUME ParserTyped, NEW c, NEW type \in {"object", "array"}, OpenBracket(c, type)
  PROVE  Reads \/ Adds
<1>1. /\ mode = "json" /\ pos \in Nat /\ pos < Len(js) /\ Len(js) \in Nat /\ Base = pos
      /\ Len(tokens) \in Nat
  BY TokensDomain DEF OpenBracket, At, AtEnd, ParserTyped, Base
<1>2. CASE PoolIsFull
  <2>1. UNCHANGED <<js, tokens, toksuper, count, start, pos>> /\ r' = -1 /\ mode' = "parsed"
    BY <1>2 DEF OpenBracket, ReturnR, NoMem
  <2> QED BY <1>1, <2>1 DEF Reads, ParserTyped, Base
<1>3. CASE ~PoolIsFull
  <2> DEFINE t == Token(type, pos, -1)
  <2>1. t \in Tokens /\ t.type = type /\ t.start = pos /\ t.end = -1
    BY <1>1, TokenTyped
  <2>2. /\ tokens' = Allocated(t) /\ toksuper' = Len(tokens') /\ count' = count + 1
        /\ pos' = pos + 1 /\ UNCHANGED <<js, start, r, mode>> /\ Len(tokens) < PoolSize
    BY <1>1, <1>3, PoolAssumption DEF OpenBracket, NextChar, PoolIsFull
  <2> HIDE DEF t
  <2>3. Len(Allocated(t)) = Len(tokens) + 1
    BY <2>1, AllocatedIs
  <2> QED BY <1>1, <2>1, <2>2, <2>3 DEF Adds, IsContainer, Base
<1> QED BY <1>2, <1>3

LEMMA CloseBracketKind ==
  ASSUME ParserTyped, NEW c, NEW type, CloseBracket(c, type)
  PROVE  Reads \/ Closes
<1> DEFINE k == Opened(DOMAIN tokens)
<1>1. /\ mode = "json" /\ pos \in Nat /\ pos < Len(js) /\ Len(js) \in Nat /\ Base = pos
      /\ Len(tokens) \in Nat /\ DOMAIN tokens = 1 .. Len(tokens)
  BY TokensDomain DEF CloseBracket, At, AtEnd, ParserTyped, Base
<1>2. CASE k = 0 \/ (k # 0 /\ tokens[k].type # type)
  <2>1. UNCHANGED <<js, tokens, toksuper, count, start, pos>> /\ r' = -2 /\ mode' = "parsed"
    BY <1>2 DEF CloseBracket, ReturnR, Invalid
  <2> QED BY <1>1, <2>1 DEF Reads, ParserTyped, Base
<1>3. CASE ~(k = 0 \/ (k # 0 /\ tokens[k].type # type))
  <2>1. /\ tokens' = [tokens EXCEPT ![k].end = pos + 1] /\ toksuper' = Opened(1 .. k - 1)
        /\ pos' = pos + 1 /\ UNCHANGED <<js, count, start, r, mode>>
    BY <1>3 DEF CloseBracket, NextChar
  <2>2. /\ k \in 0 .. Len(tokens) /\ (k # 0 => k \in DOMAIN tokens /\ IsOpen(tokens[k]))
        /\ \A n \in DOMAIN tokens : n > k => ~IsOpen(tokens[n])
    BY OpenedIs
  <2> HIDE DEF k
  <2>3. k \in DOMAIN tokens /\ k \in 1 .. Len(tokens)
    BY <1>1, <1>3, <2>2
  <2>4. 1 .. k - 1 \in SUBSET (DOMAIN tokens)
    BY <1>1, <2>3
  <2>5. toksuper' \in 0 .. Len(tokens)
    BY <2>1, <2>4, OpenedIs
  <2>6. \A n \in k + 1 .. Len(tokens) : ~IsOpen(tokens[n])
    BY <1>1, <2>2, <2>3
  <2>7. /\ IsOpen(tokens[k]) /\ \A n \in k + 1 .. Len(tokens) : ~IsOpen(tokens[n])
        /\ tokens' = [tokens EXCEPT ![k].end = pos + 1]
        /\ UNCHANGED <<js, count, start, r, mode>> /\ mode = "json"
        /\ pos' = pos + 1 /\ pos' <= Len(js) /\ toksuper' \in 0 .. Len(tokens)
    <3>1. IsOpen(tokens[k]) /\ \A n \in k + 1 .. Len(tokens) : ~IsOpen(tokens[n])
      BY <2>2, <2>3, <2>6
    <3>2. pos' = pos + 1 /\ pos' <= Len(js)
      BY <1>1, <2>1
    <3> QED BY <1>1, <2>1, <2>5, <3>1, <3>2
  <2> QED BY <2>3, <2>7 DEF Closes
<1> QED BY <1>2, <1>3

LEMMA ReturnErrorKind ==
  ASSUME ParserTyped, mode \in {"string", "primitive"}, NEW code \in {-1, -2, -3},
         ReturnError(code)
  PROVE  Reads
BY DEF ReturnError, ReturnR, ParserTyped, Reads, Base

LEMMA JsonKinds ==
  ASSUME ParserTyped, SkipBlank \/ Colon \/ Comma \/ BeginString \/ BeginPrimitive
  PROVE  Reads
<1>1. /\ mode = "json" /\ pos \in Nat /\ pos < Len(js) /\ Len(js) \in Nat /\ Base = pos
      /\ Len(tokens) \in Nat
  <2>1. mode = "json" /\ ~AtEnd
    BY DEF SkipBlank, Colon, Comma, BeginString, BeginPrimitive, At
  <2> QED BY <2>1, TokensDomain DEF AtEnd, ParserTyped, Base
<1>2. CASE SkipBlank
  BY <1>1, <1>2 DEF SkipBlank, NextChar, ParserTyped, Reads, Base
<1>3. CASE Colon
  BY <1>1, <1>3 DEF Colon, NextChar, ParserTyped, Reads, Base
<1>4. CASE Comma
  <2> DEFINE o == Opened({n \in DOMAIN tokens : IsContainer(tokens[n])})
  <2>1. o \in 0 .. Len(tokens)
    BY OpenedIs
  <2>2. toksuper' \in {toksuper, o} /\ pos' = pos + 1
        /\ UNCHANGED <<js, start, r, tokens, count, mode>>
    BY <1>4 DEF Comma, NextChar
  <2> HIDE DEF o
  <2> QED BY <1>1, <2>1, <2>2 DEF ParserTyped, Reads, Base
<1>5. CASE BeginString
  BY <1>1, <1>5 DEF BeginString, ParserTyped, Reads, Base
<1>6. CASE BeginPrimitive
  <2>1. /\ mode' = "primitive" /\ start' = pos
        /\ UNCHANGED <<js, pos, tokens, toksuper, count, r>>
    BY <1>6 DEF BeginPrimitive
  <2> QED BY <1>1, <2>1 DEF ParserTyped, Reads, Base
<1> QED BY <1>2, <1>3, <1>4, <1>5, <1>6

LEMMA EndTextKind ==
  ASSUME ParserTyped, EndText
  PROVE  Reads
<1> DEFINE k == Opened(DOMAIN tokens)
<1>1. /\ UNCHANGED <<js, tokens, toksuper, count, start, pos>> /\ mode' = "parsed"
      /\ mode = "json" /\ r' = IF k # 0 THEN -3 ELSE count
  BY DEF EndText, ReturnR, Partial
<1>2. k = 0 => \A n \in DOMAIN tokens : ~IsOpen(tokens[n])
  BY OpenedIs, TokensDomain
<1> HIDE DEF k
<1>3. Len(tokens) \in Nat
  BY TokensDomain
<1> QED BY <1>1, <1>2, <1>3 DEF Reads, ParserTyped, Base

LEMMA EndTokenKind ==
  ASSUME ParserTyped, NEW type \in {"string", "primitive"}, NEW from, NEW to, NEW next,
         mode = type, start <= from, from \in Nat, to \in Nat, from <= to, to <= next,
         next \in 0 .. Len(js), EndToken(type, from, to, next)
  PROVE  Reads \/ Adds
<1>1. Len(tokens) \in Nat /\ Base = start
  BY TokensDomain DEF Base
<1>2. CASE PoolIsFull
  BY <1>2, ReturnErrorKind DEF EndToken, NoMem
<1>3. CASE ~PoolIsFull
  <2> DEFINE t == Token(type, from, to)
  <2>1. t \in Tokens /\ t.start = from /\ t.end = to
    BY TokenTyped
  <2>2. /\ tokens' = Allocated(t) /\ count' = count + 1 /\ pos' = next /\ mode' = "json"
        /\ UNCHANGED <<js, toksuper, start, r>> /\ Len(tokens) < PoolSize
    BY <1>1, <1>3, PoolAssumption DEF EndToken, PoolIsFull
  <2> HIDE DEF t
  <2> QED BY <1>1, <2>1, <2>2 DEF Adds, ParserTyped
<1> QED BY <1>2, <1>3

LEMMA StringKinds ==
  ASSUME ParserTyped, EndString \/ StringChar \/ EscapedChar \/ CutString
  PROVE  Reads \/ Adds
<1>1. /\ mode = "string" /\ pos \in Nat /\ Len(js) \in Nat /\ Base = start
      /\ start \in Nat /\ start < pos
  BY TokensDomain
     DEF EndString, StringChar, EscapedChar, CutString, InString, ParserTyped, Base
<1>2. CASE EndString
  <2>1. pos < Len(js) /\ EndToken("string", start + 1, pos, pos + 1)
    BY <1>2 DEF EndString, InString, AtEnd
  <2> QED BY <1>1, <2>1, EndTokenKind
<1>3. CASE StringChar
  <2>1. /\ pos < Len(js) /\ pos' = pos + 1
        /\ UNCHANGED <<js, start, r, tokens, toksuper, count, mode>>
    BY <1>3 DEF StringChar, InString, AtEnd, NextChar
  <2> QED BY <1>1, <2>1 DEF ParserTyped, Reads, Base
<1>4. CASE EscapedChar
  <2> DEFINE D == {n \in 1 .. 4 : \A j \in 1 .. n :
                     pos + 1 + j < Len(js) /\ Char(pos + 1 + j) \in Hex}
  <2>1. Digits \in D \cup {0} /\ Digits \in 0 .. 4
    <3>1. D \in SUBSET (1 .. 4)
      OBVIOUS
    <3> HIDE DEF D
    <3>2. Greatest(D) \in D \cup {0} /\ Greatest(D) \in 0 .. 4
      BY <3>1, GreatestIs
    <3> QED BY <3>2 DEF Digits, D
  <2>2. pos + 1 < Len(js)
    BY <1>4 DEF EscapedChar, Escaping
  <2>3. pos + 2 + Digits <= Len(js)
    <3>1. CASE Digits = 0
      BY <1>1, <2>2, <3>1
    <3>2. CASE Digits # 0
      <4>1. Digits \in D /\ Digits \in 1 .. Digits
        BY <2>1, <3>2
      <4>2. pos + 1 + Digits < Len(js)
        BY <4>1
      <4> QED BY <1>1, <2>1, <4>2
    <3> QED BY <3>1, <3>2
  <2> HIDE DEF D
  <2>4. \/ /\ pos' \in {pos + 2, pos + 2 + Digits}
           /\ UNCHANGED <<js, start, r, tokens, toksuper, count, mode>>
        \/ ReturnError(-2)
    BY <1>4 DEF EscapedChar, Invalid
  <2>5. CASE ReturnError(-2)
    BY <1>1, <2>5, ReturnErrorKind
  <2>6. CASE /\ pos' \in {pos + 2, pos + 2 + Digits}
             /\ UNCHANGED <<js, start, r, tokens, toksuper, count, mode>>
    <3>1. pos' \in 0 .. Len(js) /\ pos' > pos
      BY <1>1, <2>1, <2>2, <2>3, <2>6
    <3> QED BY <1>1, <2>6, <3>1 DEF ParserTyped, Reads, Base
  <2> QED BY <2>4, <2>5, <2>6
<1>5. CASE CutString
  BY <1>1, <1>5, ReturnErrorKind DEF CutString, Partial
<1> QED BY <1>2, <1>3, <1>4, <1>5

LEMMA PrimitiveKinds ==
  ASSUME ParserTyped, PrimitiveChar \/ EndPrimitive
  PROVE  Reads \/ Adds
<1>1. /\ mode = "primitive" /\ pos \in Nat /\ Len(js) \in Nat /\ Base = start
      /\ start \in Nat /\ start <= pos /\ pos <= Len(js)
  BY TokensDomain DEF PrimitiveChar, EndPrimitive, ParserTyped, Base
<1>2. CASE PrimitiveChar
  <2>1. CASE Char(pos) = Odd
    BY <1>1, <1>2, <2>1, ReturnErrorKind DEF PrimitiveChar, Invalid
  <2>2. CASE Char(pos) # Odd
    <3>1. /\ pos < Len(js) /\ pos' = pos + 1
          /\ UNCHANGED <<js, start, r, tokens, toksuper, count, mode>>
      BY <1>2, <2>2 DEF PrimitiveChar, AtEnd, NextChar
    <3> QED BY <1>1, <3>1 DEF ParserTyped, Reads, Base
  <2> QED BY <2>1, <2>2
<1>3. CASE EndPrimitive
  <2>1. EndToken("primitive", start, pos, pos)
    BY <1>3 DEF EndPrimitive
  <2> QED BY <1>1, <2>1, EndTokenKind
<1> QED BY <1>2, <1>3

LEMMA ParseKinds ==
  ASSUME ParserTyped, Parse
  PROVE  Reads \/ Adds \/ Closes
BY OpenBracketKind, CloseBracketKind, JsonKinds, EndTextKind, StringKinds, PrimitiveKinds
   DEF Parse

-----------------------------------------------------------------------------
(* The tokenizer: nesting *)

\* How far a token reaches: to the end of the text, and beyond, while it is open.
Stop(t) == IF IsOpen(t) THEN Len(js) + 1 ELSE t.end

Within(n) ==
  /\ tokens[n].start <= Base
  /\ IF tokens[n].end = -1 THEN IsContainer(tokens[n])
     ELSE tokens[n].start <= tokens[n].end /\ tokens[n].end <= Base

Nested(k, n) ==
  \/ Stop(tokens[k]) <= tokens[n].start
  \/ /\ tokens[k].start <= tokens[n].start /\ Stop(tokens[n]) <= Stop(tokens[k])
     /\ IsContainer(tokens[k])

NestInv ==
  /\ \A n \in DOMAIN tokens : Within(n)
  /\ \A n \in DOMAIN tokens : \A k \in 1 .. n - 1 : Nested(k, n)
  /\ mode = "parsed" /\ r >= 0 => \A n \in DOMAIN tokens : ~IsOpen(tokens[n])

LEMMA NestImplied ==
  ASSUME ParserTyped, NestInv
  PROVE  TokensNest
<1>1. \A n \in DOMAIN tokens : tokens[n] \in Tokens
  BY TokensDomain
<1>2. \A n \in DOMAIN tokens :
        /\ 0 <= tokens[n].start
        /\ IsOpen(tokens[n]) \/ (tokens[n].start <= tokens[n].end /\ tokens[n].end <= Len(js))
  <2> SUFFICES ASSUME NEW n \in DOMAIN tokens
               PROVE  /\ 0 <= tokens[n].start
                      /\ \/ IsOpen(tokens[n])
                         \/ tokens[n].start <= tokens[n].end /\ tokens[n].end <= Len(js)
    OBVIOUS
  <2>1. Within(n) /\ tokens[n] \in Tokens
    BY <1>1 DEF NestInv
  <2>2. Base \in Nat /\ Base <= Len(js) /\ Len(js) \in Nat
    BY TokensDomain DEF Base, ParserTyped
  <2> QED BY <2>1, <2>2 DEF Within, IsOpen, Tokens
<1>3. \A n \in DOMAIN tokens : \A k \in 1 .. n - 1 : Nested(k, n)
  BY DEF NestInv
<1> QED BY <1>2, <1>3 DEF TokensNest, NestInv, Nested, Stop

\* What Nested() says of two tokens depends on their places alone.
LEMMA ReadsNest ==
  ASSUME ParserTyped, NestInv, Reads
  PROVE  NestInv'
<1>1. /\ Base \in Nat /\ Base' \in Nat /\ Base <= Base' /\ UNCHANGED <<js, tokens>>
  <2>1. Base \in Nat /\ Base' \in Nat
    BY TokensDomain DEF Reads, ParserTyped, Base
  <2> QED BY <2>1 DEF Reads
<1>2. ASSUME NEW n \in DOMAIN tokens PROVE Within(n)'
  <2>1. Within(n) /\ tokens[n] \in Tokens
    BY TokensDomain DEF NestInv
  <2> QED BY <1>1, <2>1 DEF Within, IsContainer, Tokens
<1>3. \A n \in DOMAIN tokens : \A k \in 1 .. n - 1 : Nested(k, n)'
  BY <1>1 DEF NestInv, Nested, Stop, IsOpen, IsContainer
<1>4. mode' = "parsed" /\ r' >= 0 => \A n \in DOMAIN tokens : ~IsOpen(tokens[n])'
  BY <1>1 DEF Reads, IsOpen
<1> QED BY <1>1, <1>2, <1>3, <1>4 DEF NestInv

LEMMA AddsNest ==
  ASSUME ParserTyped, NestInv, Adds
  PROVE  NestInv'
<1> DEFINE N == Len(tokens)
<1>1. PICK t \in Tokens :
        /\ tokens' = Allocated(t) /\ Base <= t.start
        /\ \/ t.end = -1 /\ IsContainer(t) /\ t.start <= pos'
           \/ t.start <= t.end /\ t.end <= pos'
        /\ js' = js /\ mode' = "json" /\ pos' \in 0 .. Len(js) /\ Base <= pos'
  BY DEF Adds
<1>2. /\ N \in Nat /\ DOMAIN tokens = 1 .. N /\ DOMAIN tokens' = 1 .. N + 1
      /\ tokens'[N + 1] = t
      /\ \A n \in 1 .. N : /\ tokens'[n].start = tokens[n].start
                         /\ tokens'[n].end = tokens[n].end /\ tokens'[n].type = tokens[n].type
  <2>1. /\ tokens' \in Seq(Tokens) /\ Len(tokens') = N + 1
    BY <1>1, AllocatedIs
  <2>2. DOMAIN tokens' = 1 .. N + 1
    BY <2>1, LenProperties
  <2> QED BY <1>1, <2>2, AllocatedIs, TokensDomain
<1>3. Base \in Nat /\ Base <= Len(js) /\ Len(js) \in Nat /\ Base' = pos' /\ pos' \in Nat
  BY <1>1, TokensDomain DEF Base, ParserTyped
<1>4. ASSUME NEW n \in 1 .. N
      PROVE  /\ Within(n) /\ tokens[n] \in Tokens
             /\ IsContainer(tokens[n])' = IsContainer(tokens[n])
             /\ IsOpen(tokens[n])' = IsOpen(tokens[n]) /\ Stop(tokens[n])' = Stop(tokens[n])
             /\ Stop(tokens[n]) \in Nat
  <2>1. Within(n) /\ tokens[n] \in Tokens
    BY <1>2, TokensDomain DEF NestInv
  <2> QED BY <1>1, <1>2, <1>3, <2>1 DEF IsContainer, IsOpen, Stop, Tokens
<1> HIDE DEF N
<1>5. ASSUME NEW n \in 1 .. N + 1 PROVE Within(n)'
  <2>1. CASE n = N + 1
    BY <1>1, <1>2, <1>3, <2>1 DEF Within, IsContainer, Tokens
  <2>2. CASE n # N + 1
    <3>1. n \in 1 .. N
      BY <1>2, <2>2
    <3>2. Within(n) /\ tokens[n] \in Tokens /\ IsContainer(tokens[n])' = IsContainer(tokens[n])
      BY <1>4, <3>1
    <3> QED BY <1>1, <1>2, <1>3, <3>1, <3>2 DEF Within, Tokens
  <2> QED BY <2>1, <2>2
<1>6. ASSUME NEW n \in 1 .. N + 1, NEW k \in 1 .. n - 1 PROVE Nested(k, n)'
  <2>0. k \in 1 .. N
    BY <1>2
  <2>1. /\ Within(k) /\ tokens[k] \in Tokens
        /\ IsContainer(tokens[k])' = IsContainer(tokens[k])
        /\ IsOpen(tokens[k])' = IsOpen(tokens[k]) /\ Stop(tokens[k])' = Stop(tokens[k])
        /\ tokens'[k].start = tokens[k].start /\ Stop(tokens[k]) \in Nat
    BY <1>2, <1>4, <2>0
  <2>2. CASE n = N + 1
    <3>1. tokens'[n].start = t.start
      BY <1>2, <2>2
    <3>2. CASE IsOpen(tokens[k])
      <4>1. IsContainer(tokens[k]) /\ tokens[k].start <= Base /\ Stop(tokens[k]) = Len(js) + 1
        BY <2>1, <3>2 DEF Within, IsOpen, Stop
      <4>2. Stop(tokens[n])' <= Len(js) + 1
        BY <1>1, <1>2, <1>3, <2>2 DEF Stop, IsOpen, Tokens
      <4> QED BY <1>1, <1>3, <2>1, <3>1, <4>1, <4>2 DEF Nested, Tokens
    <3>3. CASE ~IsOpen(tokens[k])
      <4>1. Stop(tokens[k]) <= Base
        BY <2>1, <3>3 DEF Within, IsOpen, Stop, Tokens
      <4> QED BY <1>1, <1>3, <2>1, <3>1, <4>1 DEF Nested, Tokens
    <3> QED BY <3>2, <3>3
  <2>3. CASE n # N + 1
    <3>1. n \in 1 .. N
      BY <1>2, <2>3
    <3>2. Nested(k, n)
      BY <1>2, <3>1 DEF NestInv
    <3>3. Stop(tokens[n])' = Stop(tokens[n]) /\ tokens'[n].start = tokens[n].start
      BY <1>2, <1>4, <3>1
    <3> QED BY <2>1, <3>2, <3>3 DEF Nested
  <2> QED BY <2>2, <2>3
<1> QED BY <1>1, <1>2, <1>5, <1>6 DEF NestInv

LEMMA ClosesNest ==
  ASSUME ParserTyped, NestInv, Closes
  PROVE  NestInv'
<1> DEFINE N == Len(tokens)
<1>1. PICK c \in DOMAIN tokens :
        /\ IsOpen(tokens[c]) /\ \A n \in c + 1 .. Len(tokens) : ~IsOpen(tokens[n])
        /\ tokens' = [tokens EXCEPT ![c].end = pos + 1] /\ js' = js
        /\ mode = "json" /\ mode' = "json" /\ pos' = pos + 1 /\ pos' <= Len(js)
  BY DEF Closes
<1>2. /\ pos \in Nat /\ Len(js) \in Nat /\ Base = pos /\ Base' = pos + 1
      /\ N \in Nat /\ DOMAIN tokens = 1 .. N
  BY <1>1, TokensDomain DEF Base, ParserTyped
<1>3. /\ DOMAIN tokens' = 1 .. N
      /\ \A n \in 1 .. N : /\ tokens'[n].start = tokens[n].start /\ tokens'[n].type = tokens[n].type
                         /\ tokens'[n].end = IF n = c THEN pos + 1 ELSE tokens[n].end
  <2>1. pos + 1 \in Nat
    BY <1>2
  <2>2. tokens' \in Seq(Tokens) /\ Len(tokens') = N
    BY <1>1, <2>1, ClosedIs
  <2>3. DOMAIN tokens' = 1 .. N
    BY <2>2, LenProperties
  <2> QED BY <1>1, <1>2, <2>1, <2>3, ClosedIs
<1>4. \A n \in 1 .. N : Within(n) /\ tokens[n] \in Tokens
  BY <1>2, TokensDomain DEF NestInv
<1>5. ASSUME NEW n \in 1 .. N
      PROVE  /\ IsContainer(tokens[n])' = IsContainer(tokens[n])
             /\ tokens'[n].start = tokens[n].start /\ Stop(tokens[n]) \in Nat
             /\ IF n = c THEN Stop(tokens[n]) = Len(js) + 1 /\ Stop(tokens[n])' = pos + 1
                ELSE Stop(tokens[n])' = Stop(tokens[n])
  <2>1. tokens[n] \in Tokens
    BY <1>4
  <2> QED BY <1>1, <1>2, <1>3, <2>1 DEF IsContainer, IsOpen, Stop, Tokens
<1> HIDE DEF N
<1>6. ASSUME NEW n \in 1 .. N PROVE Within(n)'
  <2>1. Within(n) /\ tokens[n] \in Tokens /\ IsContainer(tokens[n])' = IsContainer(tokens[n])
    BY <1>4, <1>5
  <2> QED BY <1>1, <1>2, <1>3, <2>1 DEF Within, Tokens
<1>7. ASSUME NEW n \in 1 .. N, NEW k \in 1 .. n - 1 PROVE Nested(k, n)'
  <2>1. k \in 1 .. N /\ Nested(k, n) /\ Within(n) /\ tokens[n] \in Tokens /\ tokens[k] \in Tokens
    <3>1. k \in 1 .. N
      BY <1>2
    <3>2. Nested(k, n)
      BY <1>2 DEF NestInv
    <3> QED BY <1>4, <3>1, <3>2
  <2>2. CASE k = c
    <3>1. ~IsOpen(tokens[n])
      BY <1>1, <1>2, <2>2
    <3>2. Stop(tokens[n]) <= pos /\ tokens[n].start <= pos /\ n # k
      BY <1>2, <2>1, <3>1 DEF Within, IsOpen, Stop, Tokens
    <3>3. tokens[k].start <= tokens[n].start /\ IsContainer(tokens[k])
      BY <1>1, <1>2, <1>5, <2>1, <2>2, <3>2 DEF Nested, Tokens
    <3> QED BY <1>2, <1>5, <2>1, <2>2, <3>2, <3>3 DEF Nested, Tokens
  <2>3. CASE n = c
    <3>1. /\ Stop(tokens[k])' = Stop(tokens[k]) /\ k # c /\ Stop(tokens[k]) \in Nat
          /\ tokens'[k].start = tokens[k].start /\ tokens'[n].start = tokens[n].start
          /\ IsContainer(tokens[k])' = IsContainer(tokens[k])
          /\ Stop(tokens[n]) = Len(js) + 1 /\ Stop(tokens[n])' = pos + 1
      BY <1>5, <2>1, <2>3
    <3> QED BY <1>1, <1>2, <2>1, <2>3, <3>1 DEF Nested
  <2>4. CASE k # c /\ n # c
    BY <1>5, <2>1, <2>4 DEF Nested
  <2> QED BY <2>2, <2>3, <2>4
<1> QED BY <1>1, <1>2, <1>3, <1>6, <1>7 DEF NestInv

LEMMA ParseTypes ==
  ASSUME ParserTyped, Parse
  PROVE  ParserTyped' /\ mode' # "idle"
<1>1. CASE Reads
  BY <1>1 DEF Reads, ParserTyped
<1>2. CASE Adds
  <2>1. PICK t \in Tokens :
          /\ tokens' = Allocated(t) /\ Len(tokens) < PoolSize /\ count' = count + 1
          /\ toksuper' \in 0 .. Len(tokens) + 1 /\ UNCHANGED <<js, start, r>>
          /\ mode' = "json" /\ pos' \in 0 .. Len(js)
    BY <1>2 DEF Adds
  <2>2. tokens' \in Seq(Tokens) /\ Len(tokens') = Len(tokens) + 1 /\ Len(tokens) \in Nat
    BY <2>1, AllocatedIs, TokensDomain
  <2> QED BY <2>1, <2>2, PoolAssumption DEF ParserTyped
<1>3. CASE Closes
  <2>1. PICK c \in DOMAIN tokens :
          /\ tokens' = [tokens EXCEPT ![c].end = pos + 1]
          /\ UNCHANGED <<js, count, start, r, mode>> /\ mode = "json"
          /\ pos' = pos + 1 /\ pos' <= Len(js) /\ toksuper' \in 0 .. Len(tokens)
    BY <1>3 DEF Closes
  <2>2. pos + 1 \in Nat /\ Len(js) \in Nat
    BY TokensDomain DEF ParserTyped
  <2>3. tokens' \in Seq(Tokens) /\ Len(tokens') = Len(tokens)
    BY <2>1, <2>2, ClosedIs
  <2> QED BY <2>1, <2>2, <2>3 DEF ParserTyped
<1> QED BY <1>1, <1>2, <1>3, ParseKinds

LEMMA ParseNests ==
  ASSUME ParserTyped, NestInv, Parse
  PROVE  NestInv'
BY ParseKinds, ReadsNest, AddsNest, ClosesNest

-----------------------------------------------------------------------------
(* The tokenizer: the text *)

Opening(type) == IF type = "object" THEN "{" ELSE "["
Closing(type) == IF type = "object" THEN "}" ELSE "]"

\* Spelled(), of any text
SpelledIn(text, t) ==
  IF IsContainer(t) THEN /\ text[t.start + 1] = Opening(t.type)
                         /\ IsOpen(t) \/ text[t.end - 1 + 1] = Closing(t.type)
  ELSE IF t.type = "string" THEN text[t.start - 1 + 1] = Quote /\ text[t.end + 1] = Quote
  ELSE t.start < t.end /\ \A p \in Places(t) : text[p + 1] \notin Ends \cup {Odd}

\* Each of the first b characters of a text has its token among N, or needs none.
TextOf(text, T, N, b) ==
  /\ \A n \in 1 .. N : SpelledIn(text, T[n]) /\ Places(T[n]) \subseteq 0 .. b - 1
  /\ \A n, k \in 1 .. N : n # k => Places(T[n]) \cap Places(T[k]) = {}
  /\ \A p \in 0 .. b - 1 : text[p + 1] \in Skipped \/ \E n \in 1 .. N : p \in Places(T[n])

\* What has begun: a string, a word that is not empty, or the end of the text.
Begun ==
  /\ mode = "string" => Char(start) = Quote
  /\ mode = "primitive" =>
       /\ \A p \in start .. pos - 1 : Char(p) \notin Ends \cup {Odd}
       /\ pos = start => pos < Len(js) /\ Char(pos) \notin Ends
  /\ mode = "parsed" /\ r >= 0 => pos = Len(js)

WithoutNUL == \A p \in 0 .. Len(js) - 1 : Char(p) # NUL

TextInv == TextOf(js, tokens, Len(tokens), Base) /\ Begun /\ WithoutNUL

\* The three kinds of steps, by what becomes of the characters that were read: they
\* need no token, ...
Skips ==
  /\ UNCHANGED <<js, tokens>>
  /\ Base <= Base' /\ \A p \in Base .. Base' - 1 : Char(p) \in Skipped
  /\ Begun'

\* ... they make a new one, ...
Makes ==
  \E t \in Tokens :
    /\ tokens' = Allocated(t) /\ js' = js /\ mode' = "json" /\ Base <= Base'
    /\ Places(t) = Base .. Base' - 1 /\ SpelledIn(js, t)

\* ... or the one character that was read closes one.
Shuts ==
  \E k \in DOMAIN tokens :
    /\ IsOpen(tokens[k]) /\ IsContainer(tokens[k])
    /\ tokens' = [tokens EXCEPT ![k].end = pos + 1] /\ js' = js
    /\ mode = "json" /\ mode' = "json" /\ pos' = pos + 1
    /\ Char(pos) = Closing(tokens[k].type)

LEMMA PlacesAre ==
  ASSUME NEW t
  PROVE  /\ IsContainer(t) => Places(t) = {t.start, t.end - 1} \cap Nat
         /\ t.type = "string" => Places(t) = t.start - 1 .. t.end
         /\ t.type \notin {"object", "array", "string"} => Places(t) = t.start .. t.end - 1
<1>1. t.type = "string" => ~IsContainer(t)
  BY DEF IsContainer
<1>2. t.type \notin {"object", "array", "string"} => ~IsContainer(t) /\ t.type # "string"
  BY DEF IsContainer
<1> QED BY <1>1, <1>2, Zenon DEF Places

LEMMA ContainerSpelled ==
  ASSUME NEW text, NEW t, IsContainer(t)
  PROVE  SpelledIn(text, t) <=> /\ text[t.start + 1] = Opening(t.type)
                                /\ IsOpen(t) \/ text[t.end - 1 + 1] = Closing(t.type)
BY Zenon DEF SpelledIn

\* What a token was made of depends on its type and place alone.
LEMMA SamePlaces ==
  ASSUME NEW text, NEW t, NEW u, u.type = t.type, u.start = t.start, u.end = t.end
  PROVE  Places(u) = Places(t) /\ (SpelledIn(text, u) <=> SpelledIn(text, t))
<1>1. Places(u) = Places(t) /\ (IsContainer(u) <=> IsContainer(t))
  BY Zenon DEF Places, IsContainer
<1>2. IsOpen(u) <=> IsOpen(t)
  BY DEF IsOpen
<1> QED BY <1>1, <1>2 DEF SpelledIn

LEMMA TextSkips ==
  ASSUME NEW text, NEW T, NEW N, NEW b \in Nat, NEW c \in Nat, b <= c,
         TextOf(text, T, N, b), \A p \in b .. c - 1 : text[p + 1] \in Skipped
  PROVE  TextOf(text, T, N, c)
<1>1. \A n \in 1 .. N : SpelledIn(text, T[n]) /\ Places(T[n]) \subseteq 0 .. c - 1
  <2>1. 0 .. b - 1 \subseteq 0 .. c - 1
    OBVIOUS
  <2> QED BY <2>1 DEF TextOf
<1>2. ASSUME NEW p \in 0 .. c - 1
      PROVE  text[p + 1] \in Skipped \/ \E n \in 1 .. N : p \in Places(T[n])
  <2>1. p \in 0 .. b - 1 \/ p \in b .. c - 1
    OBVIOUS
  <2> QED BY <2>1 DEF TextOf
<1> QED BY <1>1, <1>2 DEF TextOf

LEMMA TextMakes ==
  ASSUME NEW text, NEW T, NEW U, NEW N \in Nat, NEW b \in Nat, NEW c \in Nat, b <= c,
         TextOf(text, T, N, b),
         \A n \in 1 .. N : U[n].type = T[n].type /\ U[n].start = T[n].start /\ U[n].end = T[n].end,
         Places(U[N + 1]) = b .. c - 1, SpelledIn(text, U[N + 1])
  PROVE  TextOf(text, U, N + 1, c)
<1>1. \A n \in 1 .. N : Places(U[n]) = Places(T[n]) /\ SpelledIn(text, U[n])
  BY SamePlaces DEF TextOf
<1>2. \A n \in 1 .. N + 1 : n \in 1 .. N \/ n = N + 1
  OBVIOUS
<1>3. \A n \in 1 .. N : Places(U[n]) \subseteq 0 .. b - 1
  BY <1>1 DEF TextOf
<1>4. 0 .. b - 1 \subseteq 0 .. c - 1 /\ b .. c - 1 \subseteq 0 .. c - 1
      /\ (0 .. b - 1) \cap (b .. c - 1) = {}
  OBVIOUS
<1>5. \A n \in 1 .. N + 1 : SpelledIn(text, U[n]) /\ Places(U[n]) \subseteq 0 .. c - 1
  BY <1>1, <1>2, <1>3, <1>4
<1>6. ASSUME NEW n \in 1 .. N + 1, NEW k \in 1 .. N + 1, n # k
      PROVE  Places(U[n]) \cap Places(U[k]) = {}
  <2>1. CASE n \in 1 .. N /\ k \in 1 .. N
    BY <1>1, <1>6, <2>1 DEF TextOf
  <2>2. CASE n \in 1 .. N /\ k = N + 1
    BY <1>3, <1>4, <2>2
  <2>3. CASE n = N + 1 /\ k \in 1 .. N
    BY <1>3, <1>4, <2>3
  <2> QED BY <1>2, <1>6, <2>1, <2>2, <2>3
<1>7. ASSUME NEW p \in 0 .. c - 1
      PROVE  text[p + 1] \in Skipped \/ \E n \in 1 .. N + 1 : p \in Places(U[n])
  <2>1. CASE p \in 0 .. b - 1
    <3>1. text[p + 1] \in Skipped \/ \E n \in 1 .. N : p \in Places(U[n])
      BY <1>1, <2>1 DEF TextOf
    <3>2. 1 .. N \subseteq 1 .. N + 1
      OBVIOUS
    <3> QED BY <3>1, <3>2
  <2>2. CASE p \in b .. c - 1
    <3>1. N + 1 \in 1 .. N + 1
      OBVIOUS
    <3> QED BY <2>2, <3>1
  <2>3. p \in 0 .. b - 1 \/ p \in b .. c - 1
    OBVIOUS
  <2> QED BY <2>1, <2>2, <2>3
<1> QED BY <1>5, <1>6, <1>7 DEF TextOf

LEMMA TextShuts ==
  ASSUME NEW text, NEW T, NEW U, NEW N \in Nat, NEW b \in Nat, NEW k \in 1 .. N,
         TextOf(text, T, N, b), T[k] \in Tokens, IsOpen(T[k]), IsContainer(T[k]),
         \A n \in 1 .. N : U[n].type = T[n].type /\ U[n].start = T[n].start,
         \A n \in 1 .. N : n # k => U[n].end = T[n].end,
         U[k].end = b + 1,
         text[b + 1] = Closing(T[k].type)
  PROVE  TextOf(text, U, N, b + 1)
<1>0. PICK c \in Nat : c = b + 1
  OBVIOUS
<1>1. \A n \in 1 .. N : n # k => Places(U[n]) = Places(T[n]) /\ SpelledIn(text, U[n])
  BY SamePlaces DEF TextOf
<1>2. Places(U[k]) = Places(T[k]) \cup {b} /\ SpelledIn(text, U[k])
  <2>1. /\ T[k].start \in Nat /\ T[k].end = -1 /\ T[k].type \in {"object", "array"}
        /\ U[k].type = T[k].type /\ U[k].start = T[k].start /\ U[k].end = b + 1
    BY DEF Tokens, IsOpen, IsContainer
  <2>2. Places(T[k]) = {T[k].start}
    <3>1. Places(T[k]) = {T[k].start, -1 - 1} \cap Nat
      BY <2>1, PlacesAre
    <3> QED BY <2>1, <3>1
  <2>3. Places(U[k]) = {T[k].start, b}
    <3>1. IsContainer(U[k])
      BY <2>1 DEF IsContainer
    <3>2. Places(U[k]) = {T[k].start, b + 1 - 1} \cap Nat
      BY <2>1, <3>1, PlacesAre
    <3> QED BY <2>1, <3>2
  <2>4. SpelledIn(text, T[k])
    BY DEF TextOf
  <2>5. SpelledIn(text, U[k])
    <3>1. text[T[k].start + 1] = Opening(T[k].type)
      BY <2>4, ContainerSpelled
    <3>2. IsContainer(U[k])
      BY <2>1 DEF IsContainer
    <3>3. text[U[k].start + 1] = Opening(U[k].type) /\ text[U[k].end - 1 + 1] = Closing(U[k].type)
      <4>1. b + 1 - 1 + 1 = b + 1
        OBVIOUS
      <4> QED BY <2>1, <3>1, <4>1
    <3> QED BY <3>2, <3>3, ContainerSpelled
  <2> QED BY <2>2, <2>3, <2>5
<1>3. \A n \in 1 .. N : Places(T[n]) \subseteq 0 .. b - 1
  BY DEF TextOf
<1>4. 0 .. b - 1 \subseteq 0 .. c - 1 /\ b \in 0 .. c - 1 /\ b \notin 0 .. b - 1
  BY <1>0
<1>5. \A n \in 1 .. N : SpelledIn(text, U[n]) /\ Places(U[n]) \subseteq 0 .. c - 1
  BY <1>1, <1>2, <1>3, <1>4
<1>6. ASSUME NEW n \in 1 .. N, NEW m \in 1 .. N, n # m
      PROVE  Places(U[n]) \cap Places(U[m]) = {}
  <2>1. Places(T[n]) \cap Places(T[m]) = {} /\ b \notin Places(T[n]) /\ b \notin Places(T[m])
    BY <1>3, <1>4, <1>6 DEF TextOf
  <2> QED BY <1>1, <1>2, <1>6, <2>1
<1>7. ASSUME NEW p \in 0 .. c - 1
      PROVE  text[p + 1] \in Skipped \/ \E n \in 1 .. N : p \in Places(U[n])
  <2>1. CASE p = b
    BY <1>2, <2>1
  <2>2. CASE p \in 0 .. b - 1
    <3>1. text[p + 1] \in Skipped \/ \E n \in 1 .. N : p \in Places(T[n])
      BY <2>2 DEF TextOf
    <3> QED BY <1>1, <1>2, <3>1
  <2>3. p = b \/ p \in 0 .. b - 1
    BY <1>0
  <2> QED BY <2>1, <2>2, <2>3
<1>8. TextOf(text, U, N, c)
  BY <1>5, <1>6, <1>7 DEF TextOf
<1> QED BY <1>0, <1>8

LEMMA KindsText ==
  ASSUME ParserTyped, ParserTyped', TextInv, Skips \/ Makes \/ Shuts
  PROVE  TextInv'
<1>1. /\ Base \in Nat /\ Base' \in Nat /\ Len(tokens) \in Nat /\ DOMAIN tokens = 1 .. Len(tokens)
      /\ TextOf(js, tokens, Len(tokens), Base) /\ js' = js
  BY TokensDomain DEF ParserTyped, Base, TextInv, Skips, Makes, Shuts
<1>2. WithoutNUL'
  BY <1>1 DEF TextInv, WithoutNUL, Char
<1>3. CASE Skips
  <2>1. \A p \in Base .. Base' - 1 : js[p + 1] \in Skipped
    BY <1>3 DEF Skips, Char
  <2>2. TextOf(js, tokens, Len(tokens), Base')
    BY <1>1, <1>3, <2>1, TextSkips DEF Skips
  <2> QED BY <1>2, <1>3, <2>2 DEF Skips, TextInv
<1>4. CASE Makes
  <2>1. PICK t \in Tokens :
          /\ tokens' = Allocated(t) /\ mode' = "json" /\ Base <= Base'
          /\ Places(t) = Base .. Base' - 1 /\ SpelledIn(js, t)
    BY <1>4 DEF Makes
  <2>2. /\ Len(tokens') = Len(tokens) + 1 /\ tokens'[Len(tokens) + 1] = t
        /\ \A n \in 1 .. Len(tokens) :
             /\ tokens'[n].type = tokens[n].type /\ tokens'[n].start = tokens[n].start
             /\ tokens'[n].end = tokens[n].end
    BY <2>1, AllocatedIs
  <2>3. TextOf(js, tokens', Len(tokens) + 1, Base')
    BY <1>1, <2>1, <2>2, TextMakes
  <2>4. Begun'
    BY <2>1 DEF Begun
  <2> QED BY <1>1, <1>2, <2>2, <2>3, <2>4 DEF TextInv
<1>5. CASE Shuts
  <2>1. PICK k \in DOMAIN tokens :
          /\ IsOpen(tokens[k]) /\ IsContainer(tokens[k])
          /\ tokens' = [tokens EXCEPT ![k].end = pos + 1]
          /\ mode = "json" /\ mode' = "json" /\ pos' = pos + 1
          /\ Char(pos) = Closing(tokens[k].type)
    BY <1>5 DEF Shuts
  <2>2. Base = pos /\ Base' = pos + 1 /\ pos + 1 \in Nat /\ tokens[k] \in Tokens /\ k \in 1 .. Len(tokens)
    BY <1>1, <2>1, TokensDomain DEF Base
  <2>3. /\ Len(tokens') = Len(tokens)
        /\ \A n \in 1 .. Len(tokens) :
             /\ tokens'[n].type = tokens[n].type /\ tokens'[n].start = tokens[n].start
             /\ tokens'[n].end = IF n = k THEN pos + 1 ELSE tokens[n].end
    BY <1>1, <2>1, <2>2, ClosedIs
  <2>4. js[pos + 1] = Closing(tokens[k].type)
    BY <2>1 DEF Char
  <2>5. TextOf(js, tokens', Len(tokens), pos + 1)
    BY <1>1, <2>1, <2>2, <2>3, <2>4, TextShuts
  <2>6. Begun'
    BY <2>1 DEF Begun
  <2> QED BY <1>1, <1>2, <2>2, <2>3, <2>5, <2>6 DEF TextInv
<1> QED BY <1>3, <1>4, <1>5

LEMMA OpenBracketText ==
  ASSUME ParserTyped, NEW type \in {"object", "array"}, OpenBracket(Opening(type), type)
  PROVE  Skips \/ Makes
<1>1. mode = "json" /\ Char(pos) = Opening(type) /\ pos \in Nat /\ Base = pos
  BY TokensDomain DEF OpenBracket, At, ParserTyped, Base
<1>2. CASE PoolIsFull
  <2>1. UNCHANGED <<js, tokens, pos>> /\ r' = -1 /\ mode' = "parsed"
    BY <1>2 DEF OpenBracket, ReturnR, NoMem
  <2> QED BY <1>1, <2>1 DEF Skips, Begun, Base
<1>3. CASE ~PoolIsFull
  <2> DEFINE t == Token(type, pos, -1)
  <2>1. t \in Tokens /\ t.type = type /\ t.start = pos /\ t.end = -1
    BY <1>1, TokenTyped
  <2>2. tokens' = Allocated(t) /\ pos' = pos + 1 /\ mode' = "json" /\ js' = js
    BY <1>1, <1>3 DEF OpenBracket, NextChar
  <2> HIDE DEF t
  <2>3. Base' = pos + 1 /\ pos + 1 - 1 = pos /\ pos .. pos = {pos}
    BY <1>1, <2>2 DEF Base
  <2>4. Places(t) = {pos}
    <3>1. Places(t) = {pos, -1 - 1} \cap Nat
      BY <2>1, PlacesAre DEF IsContainer
    <3> QED BY <1>1, <3>1
  <2>5. SpelledIn(js, t)
    BY <1>1, <2>1 DEF SpelledIn, IsOpen, IsContainer, Char
  <2> QED BY <1>1, <2>1, <2>2, <2>3, <2>4, <2>5 DEF Makes
<1> QED BY <1>2, <1>3

LEMMA CloseBracketText ==
  ASSUME ParserTyped, NEW type \in {"object", "array"}, CloseBracket(Closing(type), type)
  PROVE  Skips \/ Shuts
<1> DEFINE k == Opened(DOMAIN tokens)
<1>1. mode = "json" /\ Char(pos) = Closing(type) /\ pos \in Nat /\ Base = pos
  BY TokensDomain DEF CloseBracket, At, ParserTyped, Base
<1>2. CASE k = 0 \/ (k # 0 /\ tokens[k].type # type)
  <2>1. UNCHANGED <<js, tokens, pos>> /\ r' = -2 /\ mode' = "parsed"
    BY <1>2 DEF CloseBracket, ReturnR, Invalid
  <2> QED BY <1>1, <2>1 DEF Skips, Begun, Base
<1>3. CASE ~(k = 0 \/ (k # 0 /\ tokens[k].type # type))
  <2>1. /\ tokens' = [tokens EXCEPT ![k].end = pos + 1]
        /\ pos' = pos + 1 /\ js' = js /\ mode' = mode
    BY <1>3 DEF CloseBracket, NextChar
  <2>2. k # 0 => k \in DOMAIN tokens /\ IsOpen(tokens[k])
    BY OpenedIs
  <2> HIDE DEF k
  <2>3. k \in DOMAIN tokens /\ IsOpen(tokens[k]) /\ tokens[k].type = type
    BY <1>3, <2>2
  <2>4. IsContainer(tokens[k]) /\ Char(pos) = Closing(tokens[k].type)
    BY <1>1, <2>3 DEF IsContainer
  <2> QED BY <1>1, <2>1, <2>3, <2>4 DEF Shuts
<1> QED BY <1>2, <1>3

LEMMA ErrorText ==
  ASSUME ParserTyped, mode \in {"string", "primitive"}, NEW code \in {-1, -2, -3},
         ReturnError(code)
  PROVE  Skips
<1>1. UNCHANGED <<js, tokens, start>> /\ pos' = start /\ r' = code /\ mode' = "parsed"
  BY DEF ReturnError, ReturnR
<1>2. Base = start /\ Base' = start /\ start \in Nat
  BY <1>1, TokensDomain DEF Base, ParserTyped
<1> QED BY <1>1, <1>2 DEF Skips, Begun

LEMMA JsonText ==
  ASSUME ParserTyped, SkipBlank \/ Colon \/ Comma \/ BeginString \/ BeginPrimitive
  PROVE  Skips
<1>1. /\ mode = "json" /\ pos \in Nat /\ pos < Len(js) /\ Len(js) \in Nat /\ Base = pos
      /\ UNCHANGED <<js, tokens>>
  <2>1. mode = "json" /\ ~AtEnd
    BY DEF SkipBlank, Colon, Comma, BeginString, BeginPrimitive, At
  <2>2. UNCHANGED <<js, tokens>>
    BY DEF SkipBlank, Colon, Comma, BeginString, BeginPrimitive, NextChar
  <2> QED BY <2>1, <2>2, TokensDomain DEF AtEnd, ParserTyped, Base
<1>2. CASE SkipBlank \/ Colon \/ Comma
  <2>1. mode' = "json" /\ pos' = pos + 1 /\ Char(pos) \in Skipped
    BY <1>1, <1>2 DEF SkipBlank, Colon, Comma, At, NextChar, Skipped
  <2>2. Base' = pos + 1 /\ Begun'
    BY <2>1 DEF Base, Begun
  <2>3. \A p \in pos .. pos + 1 - 1 : p = pos
    BY <1>1
  <2> QED BY <1>1, <2>1, <2>2, <2>3 DEF Skips
<1>3. CASE BeginString
  <2>1. mode' = "string" /\ start' = pos /\ Char(pos) = Quote
    BY <1>3 DEF BeginString, At
  <2>2. Base' = pos /\ Begun'
    BY <1>1, <2>1 DEF Base, Begun, Char
  <2> QED BY <1>1, <2>2 DEF Skips
<1>4. CASE BeginPrimitive
  <2>1. mode' = "primitive" /\ start' = pos /\ pos' = pos /\ Char(pos) \notin Ends
    BY <1>4 DEF BeginPrimitive
  <2>2. Base' = pos
    BY <2>1 DEF Base
  <2>3. Begun'
    BY <1>1, <2>1 DEF Begun, Char
  <2> QED BY <1>1, <2>2, <2>3 DEF Skips
<1> QED BY <1>2, <1>3, <1>4

LEMMA AtEndIs ==
  ASSUME ParserTyped, WithoutNUL
  PROVE  AtEnd <=> pos = Len(js)
<1>1. pos \in Nat /\ Len(js) \in Nat /\ pos <= Len(js)
  BY TokensDomain DEF ParserTyped
<1>2. pos < Len(js) => Char(pos) # NUL
  BY <1>1 DEF WithoutNUL
<1> QED BY <1>1, <1>2 DEF AtEnd

LEMMA EndTextText ==
  ASSUME ParserTyped, WithoutNUL, EndText
  PROVE  Skips
<1>1. UNCHANGED <<js, tokens, pos>> /\ mode' = "parsed" /\ mode = "json" /\ AtEnd
  BY DEF EndText, ReturnR
<1>2. Base = pos /\ Base' = pos /\ pos \in Nat /\ pos = Len(js)
  BY <1>1, AtEndIs, TokensDomain DEF Base, ParserTyped
<1> QED BY <1>1, <1>2 DEF Skips, Begun

LEMMA EndTokenText ==
  ASSUME ParserTyped, NEW type \in {"string", "primitive"}, NEW from \in Nat, NEW to \in Nat,
         NEW next \in Nat, mode = type, start <= next, EndToken(type, from, to, next),
         \A t \in Tokens : t.type = type /\ t.start = from /\ t.end = to =>
                            Places(t) = start .. next - 1 /\ SpelledIn(js, t)
  PROVE  Skips \/ Makes
<1>1. CASE PoolIsFull
  BY <1>1, ErrorText DEF EndToken, NoMem
<1>2. CASE ~PoolIsFull
  <2> DEFINE t == Token(type, from, to)
  <2>1. t \in Tokens /\ t.type = type /\ t.start = from /\ t.end = to
    BY TokenTyped
  <2>2. tokens' = Allocated(t) /\ pos' = next /\ mode' = "json" /\ js' = js
    BY <1>2 DEF EndToken
  <2> HIDE DEF t
  <2>3. Base = start /\ Base' = next
    BY <2>2 DEF Base
  <2>4. Places(t) = start .. next - 1 /\ SpelledIn(js, t)
    BY <2>1
  <2> QED BY <2>1, <2>2, <2>3, <2>4 DEF Makes
<1> QED BY <1>1, <1>2

LEMMA StringText ==
  ASSUME ParserTyped, Begun, WithoutNUL, EndString \/ StringChar \/ EscapedChar \/ CutString
  PROVE  Skips \/ Makes
<1>1. /\ mode = "string" /\ pos \in Nat /\ Len(js) \in Nat /\ start \in Nat /\ start < pos
      /\ Char(start) = Quote
  BY TokensDomain
     DEF EndString, StringChar, EscapedChar, CutString, InString, ParserTyped, Begun
<1>2. CASE EndString
  <2>1. EndToken("string", start + 1, pos, pos + 1) /\ Char(pos) = Quote
    BY <1>2 DEF EndString
  <2>2. ASSUME NEW t \in Tokens, t.type = "string", t.start = start + 1, t.end = pos
        PROVE  Places(t) = start .. pos + 1 - 1 /\ SpelledIn(js, t)
    <3>1. start + 1 - 1 = start /\ pos + 1 - 1 = pos
      BY <1>1
    <3>2. Places(t) = t.start - 1 .. t.end
      BY <2>2, PlacesAre
    <3>3. t.start - 1 = start /\ t.end = pos + 1 - 1 /\ t.end = pos
      <4>1. t.start = start + 1 /\ t.end = pos
        BY <2>2
      <4> QED BY <1>1, <4>1
    <3>4. SpelledIn(js, t)
      <4>1. js[t.start - 1 + 1] = Quote /\ js[t.end + 1] = Quote
        BY <1>1, <2>1, <3>3 DEF Char
      <4>2. t.type = "string" /\ ~IsContainer(t)
        BY <2>2 DEF IsContainer
      <4> QED BY <4>1, <4>2 DEF SpelledIn
    <3> QED BY <3>2, <3>3, <3>4
  <2>3. start <= pos + 1 /\ start + 1 \in Nat /\ pos + 1 \in Nat
    BY <1>1
  <2> QED BY <1>1, <2>1, <2>2, <2>3, EndTokenText
<1>3. CASE UNCHANGED <<js, start, tokens, mode>>
  <2>1. Base = start /\ Base' = start
    BY <1>1, <1>3 DEF Base
  <2>2. Begun'
    BY <1>1, <1>3 DEF Begun, Char
  <2> QED BY <1>1, <1>3, <2>1, <2>2 DEF Skips
<1>4. CASE ReturnError(-2) \/ ReturnError(-3)
  BY <1>1, <1>4, ErrorText
<1>5. CASE StringChar
  BY <1>3, <1>5 DEF StringChar, NextChar
<1>6. CASE EscapedChar
  <2>1. UNCHANGED <<js, start, tokens, mode>> \/ ReturnError(-2)
    BY <1>6 DEF EscapedChar, Invalid
  <2> QED BY <1>3, <1>4, <2>1
<1>7. CASE CutString
  BY <1>4, <1>7 DEF CutString, Partial
<1> QED BY <1>2, <1>5, <1>6, <1>7

LEMMA PrimitiveText ==
  ASSUME ParserTyped, Begun, WithoutNUL, PrimitiveChar \/ EndPrimitive
  PROVE  Skips \/ Makes
<1>1. /\ mode = "primitive" /\ pos \in Nat /\ Len(js) \in Nat /\ start \in Nat /\ start <= pos
      /\ \A p \in start .. pos - 1 : Char(p) \notin Ends \cup {Odd}
      /\ pos = start => pos < Len(js) /\ Char(pos) \notin Ends
  BY TokensDomain DEF PrimitiveChar, EndPrimitive, ParserTyped, Begun
<1>2. CASE PrimitiveChar
  <2>1. CASE Char(pos) = Odd
    BY <1>1, <1>2, <2>1, ErrorText DEF PrimitiveChar, Invalid
  <2>2. CASE Char(pos) # Odd
    <3>1. pos' = pos + 1 /\ UNCHANGED <<js, start, tokens, mode>> /\ Char(pos) \notin Ends
      BY <1>2, <2>2 DEF PrimitiveChar, NextChar
    <3>2. Base = start /\ Base' = start
      BY <1>1, <3>1 DEF Base
    <3>3. \A p \in start .. pos + 1 - 1 : Char(p) \notin Ends \cup {Odd}
      <4>1. \A p \in start .. pos + 1 - 1 : p = pos \/ p \in start .. pos - 1
        BY <1>1
      <4> QED BY <1>1, <2>2, <3>1, <4>1
    <3>4. Begun'
      BY <1>1, <3>1, <3>3 DEF Begun, Char
    <3> QED BY <1>1, <3>1, <3>2, <3>4 DEF Skips
  <2> QED BY <2>1, <2>2
<1>3. CASE EndPrimitive
  <2>1. EndToken("primitive", start, pos, pos) /\ (~AtEnd => Char(pos) \in Ends)
    BY <1>3 DEF EndPrimitive
  <2>2. start < pos
    BY <1>1, <2>1, AtEndIs
  <2>3. ASSUME NEW t \in Tokens, t.type = "primitive", t.start = start, t.end = pos
        PROVE  Places(t) = start .. pos - 1 /\ SpelledIn(js, t)
    <3>1. Places(t) = start .. pos - 1
      BY <2>3, PlacesAre
    <3>2. t.type # "string" /\ ~IsContainer(t)
      BY <2>3 DEF IsContainer
    <3>3. t.start < t.end /\ \A p \in Places(t) : js[p + 1] \notin Ends \cup {Odd}
      BY <1>1, <2>2, <2>3, <3>1 DEF Char
    <3>4. SpelledIn(js, t)
      BY <3>2, <3>3 DEF SpelledIn
    <3> QED BY <3>1, <3>4
  <2> QED BY <1>1, <2>1, <2>3, EndTokenText
<1> QED BY <1>2, <1>3

LEMMA ParseTexts ==
  ASSUME ParserTyped, TextInv, Parse
  PROVE  TextInv'
<1>1. Begun /\ WithoutNUL
  BY DEF TextInv
<1>2. /\ Opening("object") = "{" /\ Opening("array") = "["
      /\ Closing("object") = "}" /\ Closing("array") = "]"
  BY Zenon DEF Opening, Closing
<1>3. /\ OpenBracket("{", "object") \/ OpenBracket("[", "array") => Skips \/ Makes
      /\ CloseBracket("}", "object") \/ CloseBracket("]", "array") => Skips \/ Shuts
  <2>1. /\ OpenBracket(Opening("object"), "object") => Skips \/ Makes
        /\ OpenBracket(Opening("array"), "array") => Skips \/ Makes
        /\ CloseBracket(Closing("object"), "object") => Skips \/ Shuts
        /\ CloseBracket(Closing("array"), "array") => Skips \/ Shuts
    BY OpenBracketText, CloseBracketText
  <2> QED BY <1>2, <2>1, Zenon
<1>4. Skips \/ Makes \/ Shuts
  BY <1>1, <1>3, Zenon, JsonText, EndTextText, StringText, PrimitiveText
     DEF Parse
<1> QED BY <1>4, KindsText, ParseTypes

LEMMA TextImplied ==
  ASSUME ParserTyped, TextInv
  PROVE  TokensAreTheText
<1> SUFFICES ASSUME mode = "parsed", r >= 0
             PROVE  /\ \A n \in DOMAIN tokens : Spelled(tokens[n])
                    /\ \A n, k \in DOMAIN tokens :
                         n = k \/ Places(tokens[n]) \cap Places(tokens[k]) = {}
                    /\ \A p \in 0 .. Len(js) - 1 :
                         Char(p) \in Skipped \/ \E n \in DOMAIN tokens : p \in Places(tokens[n])
  BY DEF TokensAreTheText
<1>1. Base = Len(js) /\ DOMAIN tokens = 1 .. Len(tokens)
  BY TokensDomain DEF TextInv, Begun, Base
<1>2. TextOf(js, tokens, Len(tokens), Len(js))
  BY <1>1 DEF TextInv
<1>3. ASSUME NEW t, SpelledIn(js, t) PROVE Spelled(t)
  <2>1. CASE t.type = "object"
    <3>1. /\ js[t.start + 1] = Opening("object")
          /\ IsOpen(t) \/ js[t.end - 1 + 1] = Closing("object")
      BY <1>3, <2>1 DEF SpelledIn, IsContainer
    <3> QED BY <2>1, <3>1, Zenon DEF Spelled, Char, Opening, Closing
  <2>2. CASE t.type = "array"
    <3>1. /\ js[t.start + 1] = Opening("array")
          /\ IsOpen(t) \/ js[t.end - 1 + 1] = Closing("array")
      BY <1>3, <2>2 DEF SpelledIn, IsContainer
    <3> QED BY <2>2, <3>1, Zenon DEF Spelled, Char, Opening, Closing
  <2>3. CASE t.type = "string"
    BY <1>3, <2>3 DEF SpelledIn, Spelled, Char, IsContainer
  <2>4. CASE t.type \notin {"object", "array", "string"}
    <3>1. t.start < t.end /\ \A p \in Places(t) : js[p + 1] \notin Ends \cup {Odd}
      BY <1>3, <2>4 DEF SpelledIn, IsContainer
    <3> QED BY <2>4, <3>1, Zenon DEF Spelled, Char, Ends
  <2> QED BY <2>1, <2>2, <2>3, <2>4
<1>4. \A n \in DOMAIN tokens : Spelled(tokens[n])
  BY <1>1, <1>2, <1>3 DEF TextOf
<1> QED BY <1>1, <1>2, <1>4 DEF TextOf, Char

-----------------------------------------------------------------------------
(* The program: types *)

TextFields == {"wind_dir", "cityname"}
AllFields == Fields \cup {"max", "min"}

FieldTyped(f, v) ==
  v = Unset \/ IF f \in TextFields THEN v \in Seq(STRING) /\ Len(v) < NameSize ELSE v \in Int

ProgramTyped ==
  /\ pc \in {"global_init", "easy_init", "setopt", "perform", "received", "failed", "terminate",
             "parse", "first", "extremes", "compare", "exited", "undefined"}
  /\ city \in Seq(STRING) /\ answer \in Seq(STRING) /\ json \in Seq(STRING)
  /\ sent \in 0 .. Len(answer) /\ Len(json) = sent /\ sent <= BufSize
  /\ handles \subseteq {"global", "easy"}
  /\ DOMAIN wth = AllFields /\ \A f \in AllFields : FieldTyped(f, wth[f])
  /\ report # Unset => status = "success"
  /\ (pc = "exited") = (status # Unset) /\ status \in {Unset, "success", "failure"}
  /\ i \in 1 .. PoolSize + 1

\* Where main() is, and where the parser.
Stages ==
  /\ pc = "parse" \/ pc = "exited" \/ pc = "undefined"
       \/ IF pc \in {"first", "extremes", "compare"} THEN mode = "parsed" /\ r >= 0
          ELSE mode = "idle"
  /\ pc = "parse" => mode # "idle"
  /\ mode = "idle" => start = 0

IInv == ParserTyped /\ NestInv /\ ProgramTyped /\ Stages

LEMMA TypesImplied ==
  ASSUME IInv
  PROVE  TypeOK
<1>1. JsmnTypeOK
  BY DEF IInv, ParserTyped, JsmnTypeOK
<1>2. \A f \in DOMAIN wth : \/ wth[f] = Unset
                         \/ IF f \in {"wind_dir", "cityname"}
                              THEN Len(wth[f]) < NameSize ELSE wth[f] \in Int
  BY DEF IInv, ProgramTyped, FieldTyped, TextFields
<1> QED BY <1>1, <1>2 DEF IInv, ProgramTyped, TypeOK

LEMMA InitInv ==
  ASSUME Init
  PROVE  IInv
<1>1. /\ js = <<>> /\ pos = 0 /\ tokens = <<>> /\ toksuper = 0
      /\ count = 0 /\ start = 0 /\ mode = "idle" /\ r = 0
  BY DEF Init, JsmnInit
<1>2. /\ <<>> \in Seq(STRING) /\ <<>> \in Seq(Tokens) /\ Len(<<>>) = 0
      /\ DOMAIN <<>> = {}
  BY EmptySeq
<1>3. ParserTyped
  BY <1>1, <1>2, PoolAssumption DEF ParserTyped
<1>4. NestInv
  BY <1>1, <1>2 DEF NestInv
<1>5. ProgramTyped
  <2>1. city \in Seq(STRING) /\ answer \in Seq(STRING) /\ Len(answer) \in Nat
    <3>1. PICK q \in Requests : city = q[1] /\ answer = q[2]
      BY DEF Init
    <3>2. city \in Seq(STRING) /\ answer \in Seq(STRING)
      BY <3>1, WeatherAssumption
    <3> QED BY <3>2, LenProperties
  <2>2. DOMAIN wth = AllFields /\ \A f \in AllFields : FieldTyped(f, wth[f])
    BY DEF Init, AllFields, FieldTyped
  <2>3. pc = "global_init" /\ sent = 0 /\ json = <<>> /\ handles = {} /\ i = 1
        /\ report = Unset /\ status = Unset
    BY DEF Init
  <2> QED BY <1>2, <2>1, <2>2, <2>3, WeatherAssumption, PoolAssumption DEF ProgramTyped
<1>6. Stages
  BY <1>1 DEF Init, Stages
<1> QED BY <1>3, <1>4, <1>5, <1>6 DEF IInv

LEMMA ParserKept ==
  ASSUME ParserTyped, NestInv, UNCHANGED parser
  PROVE  ParserTyped' /\ NestInv'
<1>1. UNCHANGED <<js, pos, tokens, toksuper, count, start, mode, r>>
  BY DEF parser
<1>2. ParserTyped'
  BY <1>1 DEF ParserTyped
<1>3. NestInv'
  BY <1>1 DEF NestInv, Within, Nested, Stop, IsOpen, IsContainer, Base
<1> QED BY <1>2, <1>3

-----------------------------------------------------------------------------
(* The program: the transfer *)

LEMMA CopiedIs ==
  ASSUME NEW text \in Seq(STRING)
  PROVE  Copied(text) \in Seq(STRING) /\ Len(Copied(text)) = Len(text)
<1>1. Len(text) \in Nat /\ text \in [1 .. Len(text) -> STRING]
  BY LenProperties
<1>2. Copied(text) \in [1 .. Len(text) -> STRING]
  BY <1>1 DEF Copied, NUL
<1>3. Copied(text) \in Seq(STRING)
  BY <1>1, <1>2, SeqDef
<1> QED BY <1>1, <1>2, <1>3, LenProperties

LEMMA TextIs ==
  ASSUME json \in Seq(STRING)
  PROVE  Text \in Seq(STRING) /\ \A p \in 0 .. Len(Text) - 1 : Text[p + 1] # NUL
<1> DEFINE I == {k \in 1 .. Len(json) : json[k] = NUL}
           nul == IF I # {} THEN Min(I) ELSE 0
<1>1. Text = IF nul = 0 THEN json ELSE SubSeq(json, 1, nul - 1)
  BY DEF Text, SelectInSeq
<1>2. Len(json) \in Nat /\ json \in [1 .. Len(json) -> STRING]
  BY LenProperties
<1>3. nul \in 0 .. Len(json) /\ \A k \in 1 .. Len(json) : nul = 0 \/ k < nul => json[k] # NUL
  <2>1. CASE I = {}
    BY <1>2, <2>1
  <2>2. CASE I # {}
    <3>1. I \in SUBSET Nat
      BY <1>2
    <3>2. \E x \in I : \A y \in I : x <= y
      BY <2>2, <3>1, LeastExists
    <3>3. Min(I) \in I /\ \A y \in I : Min(I) <= y
      BY <3>2 DEF Min
    <3>4. nul = Min(I) /\ nul \in 1 .. Len(json)
      BY <2>2, <3>3
    <3>5. ASSUME NEW k \in 1 .. Len(json), k < nul PROVE json[k] # NUL
      <4>1. k \in I => nul <= k
        BY <3>3, <3>4
      <4> HIDE DEF nul
      <4> QED BY <1>2, <3>4, <3>5, <4>1
    <3> HIDE DEF nul, I
    <3> QED BY <1>2, <3>4, <3>5
  <2> QED BY <2>1, <2>2
<1> HIDE DEF nul
<1>4. \A k \in 1 .. nul - 1 : json[k] \in STRING
  BY <1>2, <1>3
<1> HIDE DEF I
<1>5. /\ SubSeq(json, 1, nul - 1) \in Seq(STRING)
      /\ nul # 0 => Len(SubSeq(json, 1, nul - 1)) = nul - 1
      /\ \A k \in 1 .. nul - 1 : SubSeq(json, 1, nul - 1)[k] = json[k]
  BY <1>2, <1>3, <1>4, SubSeqProperties
<1>6. CASE nul = 0
  <2>1. Text = json /\ \A p \in 0 .. Len(json) - 1 : p + 1 \in 1 .. Len(json)
    BY <1>1, <1>2, <1>6
  <2> QED BY <1>2, <1>3, <1>6, <2>1
<1>7. CASE nul # 0
  <2>1. Text = SubSeq(json, 1, nul - 1) /\ Len(Text) = nul - 1
    BY <1>1, <1>5, <1>7
  <2>2. \A p \in 0 .. nul - 1 - 1 : /\ p + 1 \in 1 .. nul - 1 /\ p + 1 < nul
                                    /\ p + 1 \in 1 .. Len(json)
    BY <1>2, <1>3, <1>7
  <2> QED BY <1>3, <1>5, <2>1, <2>2
<1> QED BY <1>6, <1>7

LEMMA TransferStep ==
  ASSUME IInv, GlobalInit \/ EasyInit \/ Setopt \/ Cleanup \/ Received \/ TransferFails
  PROVE  IInv'
<1>1. /\ UNCHANGED <<city, answer, sent, json, wth, i, report>> /\ UNCHANGED parser
      /\ pc \in {"global_init", "easy_init", "setopt", "perform", "received", "failed"}
      /\ handles' \in {handles, {}, {"global"}, handles \cup {"easy"}, handles \ {"global"}}
      /\ \/ /\ pc' \in {"easy_init", "setopt", "perform", "received", "failed", "terminate"}
            /\ UNCHANGED status
         \/ pc' = "exited" /\ status' = "failure"
  BY DEF GlobalInit, EasyInit, Setopt, Cleanup, Received, TransferFails, Exit, request, result
<1>2. ParserTyped' /\ NestInv' /\ UNCHANGED <<mode, start, r>>
  BY <1>1, ParserKept DEF IInv, parser
<1>3. mode = "idle"
  BY <1>1 DEF IInv, Stages
<1>4. ProgramTyped'
  <2>1. status = Unset /\ report = Unset
    BY <1>1, WeatherAssumption DEF IInv, ProgramTyped
  <2> QED BY <1>1, <2>1, WeatherAssumption DEF IInv, ProgramTyped
<1>5. Stages'
  BY <1>1, <1>2, <1>3 DEF IInv, Stages
<1> QED BY <1>2, <1>4, <1>5 DEF IInv

LEMMA WriteCbStep ==
  ASSUME IInv, NEW n \in 1 .. Len(answer) - sent, WriteCb(n)
  PROVE  IInv'
<1>1. /\ UNCHANGED <<city, answer, handles, wth, i, report, status>> /\ UNCHANGED parser
      /\ pc = "perform" /\ pc' \in {"perform", "failed"}
  BY DEF WriteCb, request, result
<1>2. ParserTyped' /\ NestInv' /\ UNCHANGED <<mode, start, r>>
  BY <1>1, ParserKept DEF IInv, parser
<1>3. /\ json \in Seq(STRING) /\ answer \in Seq(STRING) /\ sent \in 0 .. Len(answer)
      /\ Len(json) = sent /\ Len(answer) \in Nat /\ BufSize \in Nat /\ sent <= BufSize
      /\ \A k \in 1 .. Len(answer) : answer[k] \in STRING
  BY LenProperties, ElementOfSeq, WeatherAssumption DEF IInv, ProgramTyped
<1>4. json' \in Seq(STRING) /\ sent' \in 0 .. Len(answer) /\ Len(json') = sent' /\ sent' <= BufSize
  <2>1. CASE Len(json) + n > BufSize
    BY <1>3, <2>1 DEF WriteCb
  <2>2. CASE ~(Len(json) + n > BufSize)
    <3> DEFINE piece == SubSeq(answer, sent + 1, sent + n)
    <3>1. json' = json \o Copied(piece) /\ sent' = sent + n
      BY <2>2 DEF WriteCb
    <3>2. piece \in Seq(STRING) /\ Len(piece) = n
      <4>1. sent + n \in Nat /\ sent \in Nat /\ sent <= sent + n /\ sent + n <= Len(answer)
        BY <1>3
      <4> QED BY <1>3, <4>1, PieceIs
    <3> HIDE DEF piece
    <3>3. Copied(piece) \in Seq(STRING) /\ Len(Copied(piece)) = n
      BY <3>2, CopiedIs
    <3>4. json' \in Seq(STRING) /\ Len(json') = sent + n
      BY <1>3, <3>1, <3>3, ConcatProperties
    <3> QED BY <1>3, <2>2, <3>1, <3>4
  <2> QED BY <2>1, <2>2
<1>5. ProgramTyped'
  BY <1>1, <1>4 DEF IInv, ProgramTyped
<1>6. Stages'
  BY <1>1, <1>2 DEF IInv, Stages
<1> QED BY <1>2, <1>5, <1>6 DEF IInv

-----------------------------------------------------------------------------
(* The program: parse_json() *)

LEMMA CallJsmnStep ==
  ASSUME IInv, CallJsmn
  PROVE  IInv'
<1>1. pc = "terminate" /\ mode = "idle" /\ start = 0 /\ status = Unset
  BY WeatherAssumption DEF CallJsmn, IInv, Stages, ProgramTyped
<1>2. CASE /\ pc' = "parse" /\ wth' = [wth EXCEPT !["max"] = -100, !["min"] = 100]
           /\ CallParse(Text)
           /\ UNCHANGED <<request, sent, json, handles, i, report, status>>
  <2>1. /\ js' = Text /\ pos' = 0 /\ tokens' = <<>> /\ toksuper' = 0 /\ count' = 0
        /\ mode' = "json" /\ start' = 0 /\ r' = r
    BY <1>1, <1>2 DEF CallParse
  <2>2. /\ <<>> \in Seq(Tokens) /\ Len(<<>>) = 0 /\ DOMAIN <<>> = {}
        /\ js' \in Seq(STRING) /\ Len(js') \in Nat
    BY <2>1, TextIs, EmptySeq, LenProperties DEF IInv, ProgramTyped
  <2>3. ParserTyped'
    BY <2>1, <2>2, PoolAssumption DEF IInv, ParserTyped
  <2>4. NestInv'
    BY <2>1, <2>2 DEF NestInv
  <2>5. DOMAIN wth' = AllFields /\ \A f \in AllFields : FieldTyped(f, wth'[f])
    <3>1. DOMAIN wth' = AllFields
      BY <1>2 DEF IInv, ProgramTyped
    <3>2. ASSUME NEW f \in AllFields PROVE FieldTyped(f, wth'[f])
      <4>1. FieldTyped(f, wth[f]) /\ DOMAIN wth = AllFields
        BY DEF IInv, ProgramTyped
      <4>2. CASE f \in {"max", "min"}
        <5>1. wth'[f] \in {-100, 100}
          BY <1>2, <4>1, <4>2
        <5> QED BY <4>2, <5>1 DEF FieldTyped, TextFields
      <4>3. CASE f \notin {"max", "min"}
        BY <1>2, <4>1, <4>3
      <4> QED BY <4>2, <4>3
    <3> QED BY <3>1, <3>2
  <2>6. ProgramTyped'
    BY <1>2, <1>1, <2>5 DEF IInv, ProgramTyped, request
  <2>7. Stages'
    BY <1>2, <2>1 DEF Stages
  <2> QED BY <2>3, <2>4, <2>6, <2>7 DEF IInv
<1>3. CASE Len(json) + 1 >= BufSize /\ Undefined /\ UNCHANGED parser
  <2>1. /\ pc' = "undefined" /\ UNCHANGED <<city, answer, sent, json, handles, wth, i, report, status>>
    BY <1>3 DEF Undefined, request, result
  <2>2. ParserTyped' /\ NestInv' /\ UNCHANGED <<mode, start, r>>
    BY <1>3, ParserKept DEF IInv, parser
  <2>3. ProgramTyped'
    BY <1>1, <2>1 DEF IInv, ProgramTyped
  <2>4. Stages'
    BY <1>1, <2>1, <2>2 DEF Stages
  <2> QED BY <2>2, <2>3, <2>4 DEF IInv
<1> QED BY <1>2, <1>3 DEF CallJsmn

LEMMA TokenizeStep ==
  ASSUME IInv, Tokenize
  PROVE  IInv'
<1>1. /\ pc = "parse" /\ UNCHANGED <<pc, city, answer, sent, json, handles, wth, i, report, status>>
      /\ Parse
  BY DEF Tokenize, request, result
<1>2. ParserTyped' /\ NestInv' /\ mode' # "idle"
  BY <1>1, ParseTypes, ParseNests DEF IInv
<1>3. ProgramTyped'
  BY <1>1 DEF IInv, ProgramTyped
<1>4. Stages'
  BY <1>1, <1>2 DEF Stages
<1> QED BY <1>2, <1>3, <1>4 DEF IInv

LEMMA QuietStep ==
  ASSUME IInv, ParseReturns \/ FirstDone \/ SecondDone
  PROVE  IInv'
<1>1. /\ UNCHANGED <<city, answer, sent, json, handles, wth, report>> /\ UNCHANGED parser
      /\ i' \in {i, 1}
      /\ \/ /\ pc' \in {"first", "extremes", "compare"} /\ UNCHANGED status
            /\ \/ pc = "parse" /\ mode = "parsed" /\ ~(r < 0)
               \/ pc \in {"first", "extremes"}
         \/ pc' = "exited" /\ status' = "failure" /\ pc = "parse"
  BY DEF ParseReturns, FirstDone, SecondDone, Exit, request, result
<1>2. ParserTyped' /\ NestInv' /\ UNCHANGED <<mode, start, r>>
  BY <1>1, ParserKept DEF IInv, parser
<1>3. status = Unset /\ report = Unset
  BY <1>1, WeatherAssumption DEF IInv, ProgramTyped
<1>4. ProgramTyped'
  BY <1>1, <1>3, WeatherAssumption, PoolAssumption DEF IInv, ProgramTyped
<1>5. Stages'
  BY <1>1, <1>2 DEF IInv, Stages, ParserTyped
<1> QED BY <1>2, <1>4, <1>5 DEF IInv

\* No token of an accepted text is open, so that a copy of one fits.
LEMMA CopyIs ==
  ASSUME IInv, mode = "parsed", r >= 0, NEW k \in DOMAIN tokens, NEW size \in Nat \ {0}
  PROVE  Copy(k, size) \in Seq(STRING) /\ Len(Copy(k, size)) < size
<1> DEFINE a == tokens[k].start
           b == IF tokens[k].end - a >= size THEN a + size - 1 ELSE tokens[k].end
<1>1. tokens[k] \in Tokens /\ ~IsOpen(tokens[k]) /\ Within(k)
  BY TokensDomain DEF IInv, NestInv
<1>2. Base \in Nat /\ Base <= Len(js) /\ Len(js) \in Nat /\ js \in Seq(STRING)
  BY TokensDomain DEF IInv, ParserTyped, Base
<1>3. a \in Nat /\ tokens[k].end \in Nat /\ a <= tokens[k].end /\ tokens[k].end <= Len(js)
  BY <1>1, <1>2 DEF Within, IsOpen, Tokens
<1>4. b \in Nat /\ a <= b /\ b <= Len(js) /\ b - a < size
  BY <1>2, <1>3
<1>5. Copy(k, size) = SubSeq(js, a + 1, b)
  BY DEF Copy
<1> HIDE DEF a, b
<1> QED BY <1>2, <1>3, <1>4, <1>5, PieceIs

LEMMA IntIs ==
  ASSUME NEW n \in Int, NEW d \in Nat \ {0}
  PROVE  Whole(n, d) \in Int /\ AsInt(Whole(n, d)) \in Int \cup {Unset}
<1>1. Whole(n, d) \in Int
  BY DEF Whole
<1> QED BY <1>1 DEF AsInt

LEMMA AtofTyped == ASSUME NEW text PROVE Atof(text) \in Int /\ Atoi(text) \in Int \cup {Unset}
<1>1. Atof(text) \in Int
  BY WeatherAssumption DEF Atof
<1> QED BY <1>1, IntIs DEF Atoi

LEMMA FieldValueTyped ==
  ASSUME IInv, mode = "parsed", r >= 0, NEW k \in DOMAIN tokens, NEW f \in Fields
  PROVE  FieldTyped(f, FieldValue(f, k))
<1>1. CASE f \in TextFields
  <2>1. FieldValue(f, k) = Copy(k, NameSize)
    BY <1>1 DEF FieldValue, TextFields
  <2> QED BY <1>1, <2>1, CopyIs, WeatherAssumption DEF FieldTyped
<1>2. CASE f \notin TextFields
  <2>1. FieldValue(f, k) \in {Atof(Copy(k, TmpSize)), Atoi(Copy(k, TmpSize)),
                            AsInt(Whole(Atof(Copy(k, TmpSize)) * 254, 1000))}
    BY <1>2 DEF FieldValue, TextFields
  <2>2. \A x \in Int : x * 254 \in Int
    OBVIOUS
  <2>3. FieldValue(f, k) \in Int \cup {Unset}
    <3>1. AsInt(Whole(Atof(Copy(k, TmpSize)) * 254, 1000)) \in Int \cup {Unset}
      BY <2>2, AtofTyped, IntIs
    <3> QED BY <2>1, <3>1, AtofTyped
  <2> QED BY <1>2, <2>3 DEF FieldTyped
<1> QED BY <1>1, <1>2

LEMMA LoopMoves ==
  ASSUME IInv, pc \in {"first", "extremes"}, pc' = pc, i < PoolSize + 1, i' = i + 1,
         UNCHANGED <<city, answer, sent, json, handles, report, status>>, UNCHANGED parser,
         DOMAIN wth' = AllFields, \A f \in AllFields : FieldTyped(f, wth'[f])
  PROVE  IInv'
<1>1. ParserTyped' /\ NestInv' /\ UNCHANGED <<mode, start, r>>
  BY ParserKept DEF IInv, parser
<1>2. ProgramTyped'
  BY PoolAssumption DEF IInv, ProgramTyped
<1>3. Stages'
  BY <1>1 DEF IInv, Stages
<1> QED BY <1>1, <1>2, <1>3 DEF IInv

LEMMA EndsUndefined ==
  ASSUME IInv, pc \in {"first", "extremes", "compare"}, Undefined, UNCHANGED parser
  PROVE  IInv'
<1>1. pc' = "undefined" /\ UNCHANGED <<city, answer, sent, json, handles, wth, i, report, status>>
  BY DEF Undefined, request, result
<1>2. ParserTyped' /\ NestInv' /\ UNCHANGED <<js, tokens, mode, start, r>>
  BY ParserKept DEF IInv, parser
<1>3. status = Unset /\ mode = "parsed"
  BY WeatherAssumption DEF IInv, ProgramTyped, Stages
<1>4. ProgramTyped'
  BY <1>1, <1>3 DEF IInv, ProgramTyped
<1>5. Stages'
  BY <1>1, <1>2, <1>3 DEF IInv, Stages
<1> QED BY <1>2, <1>4, <1>5 DEF IInv

LEMMA FirstLoopStep ==
  ASSUME IInv, FirstLoop
  PROVE  IInv'
<1>1. /\ pc = "first" /\ i <= First /\ UNCHANGED parser /\ i \in Nat /\ i >= 1
      /\ mode = "parsed" /\ r >= 0 /\ i < PoolSize + 1 /\ First \in Nat
      /\ DOMAIN wth = AllFields /\ \A f \in AllFields : FieldTyped(f, wth[f])
      /\ Len(tokens) \in Nat /\ DOMAIN tokens = 1 .. Len(tokens)
  BY WeatherAssumption, PoolAssumption, TokensDomain DEF FirstLoop, IInv, Stages, ProgramTyped
<1>2. CASE /\ i \in DOMAIN tokens
           /\ wth' = [f \in DOMAIN wth |->
                        IF ~(f \in Fields /\ JsonEq(tokens[i], Key(f))) THEN wth[f]
                        ELSE IF ValueAt(f, i) \in DOMAIN tokens THEN FieldValue(f, ValueAt(f, i))
                        ELSE Unset]
           /\ i' = i + 1 /\ UNCHANGED <<pc, request, sent, json, handles, report, status>>
  <2>1. ASSUME NEW f \in AllFields PROVE FieldTyped(f, wth'[f])
    <3>1. /\ \/ wth'[f] \in {wth[f], Unset}
             \/ /\ f \in Fields /\ ValueAt(f, i) \in DOMAIN tokens
                /\ wth'[f] = FieldValue(f, ValueAt(f, i))
          /\ FieldTyped(f, wth[f])
      BY <1>1, <1>2
    <3>2. FieldTyped(f, Unset)
      BY DEF FieldTyped
    <3> QED BY <1>1, <3>1, <3>2, FieldValueTyped
  <2>2. DOMAIN wth' = AllFields
    BY <1>1, <1>2
  <2> QED BY <1>1, <1>2, <2>1, <2>2, LoopMoves DEF request
<1>3. CASE /\ i \notin DOMAIN tokens
           /\ i' = i + 1 /\ UNCHANGED <<pc, request, sent, json, handles, wth, report, status>>
  BY <1>1, <1>3, LoopMoves DEF request
<1>4. CASE Undefined
  BY <1>1, <1>4, EndsUndefined
<1> QED BY <1>2, <1>3, <1>4 DEF FirstLoop

LEMMA SecondLoopStep ==
  ASSUME IInv, SecondLoop
  PROVE  IInv'
<1> DEFINE value == IF i + 1 \in DOMAIN tokens THEN Atoi(Copy(i + 1, TmpSize)) ELSE Unset
           Day(f, key, Beyond(_)) ==
             IF ~JsonEq(tokens[i], key) THEN wth[f]
             ELSE IF Unset \in {value, wth[f]} THEN Unset
             ELSE IF Beyond(value) THEN value ELSE wth[f]
<1>1. /\ pc = "extremes" /\ i <= r /\ UNCHANGED parser /\ i \in Nat /\ i >= 1
      /\ mode = "parsed" /\ r >= 0 /\ r = Len(tokens) /\ Len(tokens) <= PoolSize
      /\ DOMAIN wth = AllFields /\ \A f \in AllFields : FieldTyped(f, wth[f])
      /\ Len(tokens) \in Nat /\ DOMAIN tokens = 1 .. Len(tokens)
  <2>1. pc = "extremes" /\ i <= r /\ UNCHANGED parser
    BY DEF SecondLoop
  <2>2. ParserTyped /\ mode = "parsed" /\ r >= 0
    BY <2>1 DEF IInv, Stages
  <2>3. /\ r = Len(tokens) /\ Len(tokens) <= PoolSize /\ Len(tokens) \in Nat
        /\ DOMAIN tokens = 1 .. Len(tokens)
    BY <2>2, TokensDomain DEF ParserTyped
  <2>4. /\ i \in Nat /\ i >= 1 /\ DOMAIN wth = AllFields
        /\ \A f \in AllFields : FieldTyped(f, wth[f])
    BY PoolAssumption DEF IInv, ProgramTyped
  <2> QED BY <2>1, <2>2, <2>3, <2>4
<1>2. value = Unset \/ value \in Int
  BY AtofTyped
<1>3. CASE /\ wth' = [wth EXCEPT !["max"] = Day("max", "maxtempC", LAMBDA v : wth["max"] < v),
                                !["min"] = Day("min", "mintempC", LAMBDA v : wth["min"] > v)]
           /\ i' = i + 1 /\ UNCHANGED <<pc, request, sent, json, handles, report, status>>
  <2>1. /\ Day("max", "maxtempC", LAMBDA v : wth["max"] < v) \in {wth["max"], Unset, value}
        /\ Day("min", "mintempC", LAMBDA v : wth["min"] > v) \in {wth["min"], Unset, value}
    OBVIOUS
  <2> HIDE DEF value, Day
  <2>2. ASSUME NEW f \in AllFields PROVE FieldTyped(f, wth'[f])
    <3>1. FieldTyped(f, wth[f])
      BY <1>1
    <3>2. CASE f \in {"max", "min"}
      <4>1. wth'[f] \in {wth[f], Unset, value}
        BY <1>1, <1>3, <2>1, <3>2
      <4>2. f \notin TextFields
        BY <3>2 DEF TextFields
      <4> QED BY <1>2, <3>1, <4>1, <4>2 DEF FieldTyped
    <3>3. CASE f \notin {"max", "min"}
      BY <1>1, <1>3, <3>1, <3>3
    <3> QED BY <3>2, <3>3
  <2>3. DOMAIN wth' = AllFields
    BY <1>1, <1>3
  <2>4. i < PoolSize + 1
    BY <1>1, PoolAssumption
  <2> QED BY <1>1, <1>3, <2>2, <2>3, <2>4, LoopMoves DEF request
<1>4. CASE Undefined
  BY <1>1, <1>4, EndsUndefined
<1> QED BY <1>1, <1>3, <1>4 DEF SecondLoop

LEMMA CompareStep ==
  ASSUME IInv, Compare
  PROVE  IInv'
<1>1. pc = "compare" /\ UNCHANGED parser
  BY DEF Compare
<1>2. CASE Undefined
  BY <1>1, <1>2, EndsUndefined
<1>3. CASE /\ UNCHANGED <<city, answer, sent, json, handles, wth, i>>
           /\ pc' = "exited" /\ status' = "success"
  <2>1. ParserTyped' /\ NestInv' /\ UNCHANGED <<mode, start, r>>
    BY <1>1, ParserKept DEF IInv, parser
  <2>2. ProgramTyped'
    BY <1>3, WeatherAssumption DEF IInv, ProgramTyped
  <2>3. Stages'
    BY <1>3, <2>1 DEF IInv, Stages
  <2> QED BY <2>1, <2>2, <2>3 DEF IInv
<1> QED BY <1>2, <1>3 DEF Compare, Exit, request, result

LEMMA StepInv ==
  ASSUME IInv, [Next]_vars
  PROVE  IInv'
<1>1. CASE UNCHANGED vars
  <2>1. UNCHANGED <<pc, city, answer, sent, json, handles, wth, i, report, status>> /\ UNCHANGED parser
    BY <1>1 DEF vars
  <2>2. ParserTyped' /\ NestInv' /\ UNCHANGED <<js, tokens, mode, start, r>>
    BY <2>1, ParserKept DEF IInv, parser
  <2>3. ProgramTyped'
    BY <2>1 DEF IInv, ProgramTyped
  <2>4. Stages'
    BY <2>1, <2>2 DEF IInv, Stages
  <2> QED BY <2>2, <2>3, <2>4 DEF IInv
<1>2. CASE Program
  BY <1>2, TransferStep, CallJsmnStep, TokenizeStep, QuietStep, FirstLoopStep, SecondLoopStep,
     CompareStep DEF Program
<1>3. CASE Server
  BY <1>3, TransferStep, WriteCbStep DEF Server
<1> QED BY <1>1, <1>2, <1>3 DEF Next, Finished

THEOREM Invariance == Spec => []IInv
<1>1. Init => IInv
  BY InitInv
<1>2. IInv /\ [Next]_vars => IInv'
  BY StepInv
<1> QED BY <1>1, <1>2, PTL DEF Spec

-----------------------------------------------------------------------------
(* The program: the text of its tokens *)

LEMMA NoText ==
  ASSUME tokens = <<>>, pos = 0, mode \in {"idle", "json"}, WithoutNUL
  PROVE  TextInv
<1>1. Len(tokens) = 0 /\ Base = 0
  BY EmptySeq DEF Base
<1>2. TextOf(js, tokens, 0, 0)
  BY DEF TextOf
<1> QED BY <1>1, <1>2 DEF TextInv, Begun

LEMMA StepText ==
  ASSUME IInv, TextInv, [Next]_vars
  PROVE  TextInv'
<1>1. CASE UNCHANGED parser
  <2>1. UNCHANGED <<js, pos, tokens, start, mode, r>>
    BY <1>1 DEF parser
  <2> QED BY <2>1 DEF TextInv, Base, Begun, WithoutNUL, Char
<1>2. CASE Tokenize
  BY <1>2, ParseTexts DEF Tokenize, IInv
<1>3. CASE CallJsmn
  <2>1. CASE CallParse(Text)
    <3>1. js' = Text /\ pos' = 0 /\ tokens' = <<>> /\ mode' = "json"
      BY <2>1 DEF CallParse
    <3>2. WithoutNUL'
      BY <3>1, TextIs DEF IInv, ProgramTyped, WithoutNUL, Char
    <3>3. Len(tokens') = 0 /\ Base' = 0
      BY <3>1, EmptySeq DEF Base
    <3>4. TextOf(js', tokens', 0, 0)
      BY DEF TextOf
    <3> QED BY <3>1, <3>2, <3>3, <3>4 DEF TextInv, Begun
  <2> QED BY <1>1, <1>3, <2>1 DEF CallJsmn
<1>4. Next => CallJsmn \/ Tokenize \/ UNCHANGED parser
  BY DEF Next, Program, Server, Finished, vars, GlobalInit, EasyInit, Setopt, Cleanup, ParseReturns,
         FirstLoop, FirstDone, SecondLoop, SecondDone, Compare, Received, TransferFails, WriteCb
<1> QED BY <1>1, <1>2, <1>3, <1>4 DEF vars

THEOREM TextInvariance == Spec => [](IInv /\ TextInv)
<1>1. Init => TextInv
  BY NoText, EmptySeq DEF Init, JsmnInit, WithoutNUL
<1>2. IInv /\ TextInv /\ [Next]_vars => TextInv'
  BY StepText
<1> QED BY <1>1, <1>2, Invariance, PTL DEF Spec

-----------------------------------------------------------------------------
(* The report *)

Early == {"global_init", "easy_init", "setopt", "perform", "received", "failed", "terminate", "parse"}

\* The extremes are those of the first n tokens, unless a key ends the tokens or
\* one of the values is none of an int.
Highest(n) ==
  (n = r /\ n > 0 => ~JsonEq(tokens[n], "maxtempC")) /\ Unset \notin Values("maxtempC", n) =>
    /\ wth["max"] \in Values("maxtempC", n) \cup {-100}
    /\ \A v \in Values("maxtempC", n) \cup {-100} : v <= wth["max"]

Lowest(n) ==
  (n = r /\ n > 0 => ~JsonEq(tokens[n], "mintempC")) /\ Unset \notin Values("mintempC", n) =>
    /\ wth["min"] \in Values("mintempC", n) \cup {100}
    /\ \A v \in Values("mintempC", n) \cup {100} : wth["min"] <= v

SaysFirst(n) == \A f \in Fields : wth[f] = Said(f, n)

\* What main() holds at each stage is what the tokens say so far.
ReportInv ==
  /\ pc \in Early => i = 1 /\ \A f \in Fields : wth[f] = Unset
  /\ pc \in {"parse", "first"} => wth["max"] = -100 /\ wth["min"] = 100
  /\ pc = "first" => i <= First + 1 /\ \A n \in Nat : n = i - 1 => SaysFirst(n)
  /\ pc \in {"extremes", "compare"} => SaysFirst(First)
  /\ pc = "extremes" => i <= r + 1 /\ \A n \in Nat : n = i - 1 => Highest(n) /\ Lowest(n)
  /\ pc = "compare" => \A n \in Nat : n = r => Highest(n) /\ Lowest(n)
  /\ ReportIsOfTheTokens

\* The tokens that matter for a field or an extreme, one further.
LEMMA SaidNext ==
  ASSUME ParserTyped, NEW f, NEW n \in Nat \ {0}
  PROVE  /\ Said(f, 0) = Unset
         /\ Said(f, n) = IF n \in DOMAIN tokens /\ JsonEq(tokens[n], Key(f))
                           THEN IF ValueAt(f, n) \in DOMAIN tokens
                                  THEN FieldValue(f, ValueAt(f, n)) ELSE Unset
                           ELSE Said(f, n - 1)
<1> DEFINE K(m) == {l \in 1 .. m \cap DOMAIN tokens : JsonEq(tokens[l], Key(f))}
<1>1. ASSUME NEW m \in Nat
      PROVE  /\ K(m) \in SUBSET (1 .. m)
             /\ Greatest(K(m)) \in K(m) \cup {0} /\ Greatest(K(m)) \in 0 .. m
             /\ \A j \in K(m) : j <= Greatest(K(m))
  <2>1. K(m) \in SUBSET (1 .. m)
    OBVIOUS
  <2> HIDE DEF K
  <2> QED BY <2>1, GreatestIs
<1>2. Said(f, 0) = Unset
  <2>1. Greatest(K(0)) = 0
    <3> HIDE DEF K
    <3> QED BY <1>1
  <2> QED BY <2>1 DEF Said
<1>3. CASE n \in DOMAIN tokens /\ JsonEq(tokens[n], Key(f))
  <2>1. n \in K(n)
    BY <1>3
  <2>2. Greatest(K(n)) = n
    <3> HIDE DEF K
    <3> QED BY <1>1, <2>1
  <2> QED BY <1>2, <1>3, <2>2 DEF Said
<1>4. CASE ~(n \in DOMAIN tokens /\ JsonEq(tokens[n], Key(f)))
  <2>1. K(n) = K(n - 1)
    <3>1. \A l \in 1 .. n : l = n \/ l \in 1 .. n - 1
      OBVIOUS
    <3>2. 1 .. n - 1 \subseteq 1 .. n
      OBVIOUS
    <3> QED BY <1>4, <3>1, <3>2
  <2>2. Said(f, n) = Said(f, n - 1)
    BY <2>1 DEF Said
  <2> QED BY <1>2, <1>4, <2>2
<1> QED BY <1>3, <1>4

LEMMA ValuesNext ==
  ASSUME NEW key, NEW n \in Nat \ {0}
  PROVE  /\ Values(key, 0) = {}
         /\ Values(key, n) = Values(key, n - 1) \cup
              (IF JsonEq(tokens[n], key) THEN {Atoi(Copy(n + 1, TmpSize))} ELSE {})
<1> DEFINE V(m) == Atoi(Copy(m + 1, TmpSize))
           K(m) == {l \in 1 .. m : JsonEq(tokens[l], key)}
<1>1. \A m : Values(key, m) = {V(l) : l \in K(m)}
  BY DEF Values
<1>2. K(0) = {}
  OBVIOUS
<1>3. K(n) = K(n - 1) \cup (IF JsonEq(tokens[n], key) THEN {n} ELSE {})
  <2>1. 1 .. n = (1 .. n - 1) \cup {n}
    OBVIOUS
  <2> QED BY <2>1
<1> HIDE DEF V, K
<1>4. Values(key, n) = Values(key, n - 1) \cup (IF JsonEq(tokens[n], key) THEN {V(n)} ELSE {})
  BY <1>1, <1>3
<1> QED BY <1>1, <1>2, <1>4 DEF V

LEMMA ValuesTyped == ASSUME NEW key, NEW n PROVE Values(key, n) \subseteq Int \cup {Unset}
BY AtofTyped DEF Values

\* What the tokens say is settled once they are.
LEMMA SaidKept ==
  ASSUME UNCHANGED <<js, tokens>>, NEW f, NEW n
  PROVE  Said(f, n)' = Said(f, n) /\ Values(f, n)' = Values(f, n)
         /\ \A k : JsonEq(tokens[k], f)' <=> JsonEq(tokens[k], f)
BY DEF Said, Values, JsonEq, FieldValue, Copy

LEMMA StageReport ==
  ASSUME IInv, ReportInv, report = Unset, UNCHANGED <<wth, i, report>>,
         pc' \notin {"parse", "first", "extremes", "compare"}, pc' \in Early => pc \in Early
  PROVE  ReportInv'
BY DEF ReportInv, ReportIsOfTheTokens

LEMMA CallJsmnReport ==
  ASSUME IInv, ReportInv, report = Unset, CallJsmn
  PROVE  ReportInv'
<1>1. pc = "terminate" /\ pc \in Early
  BY DEF CallJsmn, Early
<1>2. CASE Undefined
  BY <1>1, <1>2, StageReport DEF Undefined, result, Early
<1>3. CASE /\ pc' = "parse" /\ wth' = [wth EXCEPT !["max"] = -100, !["min"] = 100]
           /\ UNCHANGED <<i, report>>
  <2>1. DOMAIN wth = AllFields
    BY DEF IInv, ProgramTyped
  <2>2. wth'["max"] = -100 /\ wth'["min"] = 100 /\ \A f \in Fields : wth'[f] = wth[f]
    BY <1>3, <2>1 DEF AllFields, Fields
  <2> QED BY <1>1, <1>3, <2>2 DEF ReportInv, ReportIsOfTheTokens
<1> QED BY <1>2, <1>3 DEF CallJsmn

LEMMA ParseReport ==
  ASSUME IInv, ReportInv, report = Unset, Tokenize \/ ParseReturns
  PROVE  ReportInv'
<1>1. pc = "parse" /\ UNCHANGED <<wth, i, report>>
  BY DEF Tokenize, ParseReturns, result
<1>2. CASE pc' = "parse"
  BY <1>1, <1>2 DEF ReportInv, ReportIsOfTheTokens, Early
<1>3. CASE pc' = "exited"
  BY <1>1, <1>3, StageReport DEF Early
<1>4. CASE pc' = "first" /\ UNCHANGED parser
  <2>1. i = 1 /\ \A f \in Fields : wth[f] = Unset
    BY <1>1 DEF ReportInv, Early
  <2>2. \A f \in Fields : Said(f, 0)' = Unset
    <3>1. UNCHANGED <<js, tokens>>
      BY <1>4 DEF parser
    <3>2. \A f \in Fields : Said(f, 0) = Unset
      BY SaidNext DEF IInv
    <3> QED BY <3>1, <3>2, SaidKept
  <2>3. SaysFirst(0)'
    BY <1>1, <2>1, <2>2 DEF SaysFirst
  <2>4. i' <= First + 1 /\ \A n \in Nat : n = i' - 1 => n = 0
    BY <1>1, <2>1, WeatherAssumption
  <2> QED BY <1>1, <1>4, <2>3, <2>4 DEF ReportInv, ReportIsOfTheTokens, Early
<1> QED BY <1>1, <1>2, <1>3, <1>4 DEF Tokenize, ParseReturns, Exit

LEMMA FirstLoopReport ==
  ASSUME IInv, ReportInv, report = Unset, FirstLoop
  PROVE  ReportInv'
<1>1. /\ pc = "first" /\ i <= First /\ i \in Nat \ {0} /\ UNCHANGED <<js, tokens, r>>
      /\ First \in Nat /\ DOMAIN wth = AllFields /\ ParserTyped
  BY WeatherAssumption, PoolAssumption DEF FirstLoop, IInv, ProgramTyped, parser
<1>2. CASE Undefined
  BY <1>2, StageReport DEF Undefined, result, Early
<1>3. CASE /\ i' = i + 1 /\ UNCHANGED <<pc, report>>
           /\ \/ /\ i \in DOMAIN tokens
                 /\ wth' = [f \in DOMAIN wth |->
                              IF ~(f \in Fields /\ JsonEq(tokens[i], Key(f))) THEN wth[f]
                              ELSE IF ValueAt(f, i) \in DOMAIN tokens
                                THEN FieldValue(f, ValueAt(f, i))
                              ELSE Unset]
              \/ i \notin DOMAIN tokens /\ wth' = wth
  <2>1. SaysFirst(i - 1)
    BY <1>1 DEF ReportInv
  <2>2. ASSUME NEW f \in Fields PROVE wth'[f] = Said(f, i)
    <3>1. wth[f] = Said(f, i - 1)
      BY <2>1 DEF SaysFirst
    <3>2. Said(f, i) = IF i \in DOMAIN tokens /\ JsonEq(tokens[i], Key(f))
                         THEN IF ValueAt(f, i) \in DOMAIN tokens
                                THEN FieldValue(f, ValueAt(f, i)) ELSE Unset
                         ELSE Said(f, i - 1)
      BY <1>1, SaidNext
    <3>3. f \in DOMAIN wth
      BY <1>1 DEF AllFields
    <3> QED BY <1>3, <3>1, <3>2, <3>3
  <2>3. PICK n \in Nat : n = i
    BY <1>1
  <2>4. SaysFirst(n)'
    BY <1>1, <2>2, <2>3, SaidKept DEF SaysFirst
  <2>5. wth'["max"] = wth["max"] /\ wth'["min"] = wth["min"]
    BY <1>1, <1>3 DEF AllFields, Fields
  <2>6. i' <= First + 1 /\ \A m \in Nat : m = i' - 1 => m = n
    BY <1>1, <1>3, <2>3
  <2> QED BY <1>1, <1>3, <2>4, <2>5, <2>6 DEF ReportInv, ReportIsOfTheTokens, Early
<1> QED BY <1>2, <1>3 DEF FirstLoop

LEMMA DoneReport ==
  ASSUME IInv, ReportInv, report = Unset, FirstDone \/ SecondDone
  PROVE  ReportInv'
<1>1. /\ UNCHANGED <<wth, report>> /\ UNCHANGED <<js, tokens, r>> /\ First \in Nat /\ i \in Nat
      /\ r \in Nat /\ mode = "parsed"
  BY WeatherAssumption, PoolAssumption
     DEF FirstDone, SecondDone, result, parser, IInv, Stages, ParserTyped, ProgramTyped
<1>2. \A n : SaysFirst(n) => SaysFirst(n)'
  BY <1>1, SaidKept DEF SaysFirst
<1>3. \A n : (Highest(n) => Highest(n)') /\ (Lowest(n) => Lowest(n)')
  BY <1>1, SaidKept DEF Highest, Lowest
<1>4. CASE FirstDone
  <2>1. pc = "first" /\ i > First /\ pc' = "extremes" /\ i' = 1
    BY <1>4 DEF FirstDone
  <2>2. SaysFirst(First)
    <3>1. First = i - 1
      BY <1>1, <2>1 DEF ReportInv
    <3> QED BY <1>1, <2>1, <3>1 DEF ReportInv
  <2>3. Highest(0) /\ Lowest(0)
    <3>1. \A key : Values(key, 0) = {}
      BY ValuesNext
    <3> QED BY <2>1, <3>1 DEF ReportInv, Highest, Lowest
  <2>4. i' <= r' + 1 /\ \A n \in Nat : n = i' - 1 => n = 0
    BY <1>1, <2>1
  <2> QED BY <1>1, <1>2, <1>3, <2>1, <2>2, <2>3, <2>4 DEF ReportInv, ReportIsOfTheTokens, Early
<1>5. CASE SecondDone
  <2>1. pc = "extremes" /\ i > r /\ pc' = "compare" /\ r = i - 1 /\ SaysFirst(First)
    BY <1>1, <1>5 DEF SecondDone, ReportInv
  <2>2. Highest(r) /\ Lowest(r)
    BY <1>1, <2>1 DEF ReportInv
  <2>3. \A n \in Nat : n = r' => n = r
    BY <1>1
  <2> QED BY <1>1, <1>2, <1>3, <2>1, <2>2, <2>3 DEF ReportInv, ReportIsOfTheTokens, Early
<1> QED BY <1>4, <1>5

LEMMA SecondLoopReport ==
  ASSUME IInv, ReportInv, report = Unset, SecondLoop
  PROVE  ReportInv'
<1> DEFINE value == IF i + 1 \in DOMAIN tokens THEN Atoi(Copy(i + 1, TmpSize)) ELSE Unset
           Day(f, key, Beyond(_)) ==
             IF ~JsonEq(tokens[i], key) THEN wth[f]
             ELSE IF Unset \in {value, wth[f]} THEN Unset
             ELSE IF Beyond(value) THEN value ELSE wth[f]
<1>1. /\ pc = "extremes" /\ i <= r /\ i \in Nat \ {0} /\ r = Len(tokens) /\ mode = "parsed"
      /\ UNCHANGED <<js, tokens, r>> /\ DOMAIN wth = AllFields
      /\ Len(tokens) \in Nat /\ DOMAIN tokens = 1 .. Len(tokens)
  <2>1. pc = "extremes" /\ i <= r /\ UNCHANGED <<js, tokens, r>>
    BY DEF SecondLoop, parser
  <2>2. ParserTyped /\ mode = "parsed" /\ r >= 0
    BY <2>1 DEF IInv, Stages
  <2>3. r = Len(tokens) /\ Len(tokens) \in Nat /\ DOMAIN tokens = 1 .. Len(tokens)
    BY <2>2, TokensDomain DEF ParserTyped
  <2>4. i \in Nat \ {0} /\ DOMAIN wth = AllFields
    BY PoolAssumption DEF IInv, ProgramTyped
  <2> QED BY <2>1, <2>2, <2>3, <2>4
<1>2. CASE Undefined
  BY <1>2, StageReport DEF Undefined, result, Early
<1>3. CASE /\ wth' = [wth EXCEPT !["max"] = Day("max", "maxtempC", LAMBDA v : wth["max"] < v),
                                !["min"] = Day("min", "mintempC", LAMBDA v : wth["min"] > v)]
           /\ i' = i + 1 /\ UNCHANGED <<pc, report>>
  <2>1. /\ wth'["max"] = Day("max", "maxtempC", LAMBDA v : wth["max"] < v)
        /\ wth'["min"] = Day("min", "mintempC", LAMBDA v : wth["min"] > v)
        /\ \A f \in Fields : wth'[f] = wth[f]
    BY <1>1, <1>3 DEF AllFields, Fields
  <2>2. PICK n \in Nat : n = i
    BY <1>1
  <2>3. PICK a : a = Atoi(Copy(n + 1, TmpSize))
    OBVIOUS
  <2>4. n < r => value = a
    BY <1>1, <2>2, <2>3
  <2>5. a \in Int \cup {Unset} /\ Unset \notin Int
    BY <2>3, AtofTyped, WeatherAssumption
  <2>6. Highest(n - 1) /\ Lowest(n - 1) /\ n - 1 # r
    BY <1>1, <2>2 DEF ReportInv
  <2>7. Highest(n)'
    <3> DEFINE S == Values("maxtempC", n - 1) \cup {-100}
    <3>2. Values("maxtempC", n) = Values("maxtempC", n - 1) \cup
            (IF JsonEq(tokens[n], "maxtempC") THEN {a} ELSE {})
      BY <1>1, <2>2, <2>3, ValuesNext
    <3>6. CASE Unset \in Values("maxtempC", n)
      BY <1>1, <3>6, SaidKept DEF Highest
    <3> SUFFICES ASSUME Unset \notin Values("maxtempC", n) PROVE Highest(n)'
      BY <3>6
    <3>1. /\ wth["max"] \in S /\ (\A v \in S : v <= wth["max"]) /\ S \subseteq Int
          /\ JsonEq(tokens[n], "maxtempC") => a \in Int
      <4>1. Unset \notin Values("maxtempC", n - 1)
        BY <3>2
      <4> QED BY <2>5, <2>6, <3>2, <4>1, ValuesTyped DEF Highest
    <3>3. CASE ~JsonEq(tokens[n], "maxtempC")
      <4>1. wth'["max"] = wth["max"] /\ Values("maxtempC", n) = Values("maxtempC", n - 1)
        BY <2>1, <2>2, <3>2, <3>3
      <4> QED BY <1>1, <3>1, <4>1, SaidKept DEF Highest
    <3>4. CASE JsonEq(tokens[n], "maxtempC") /\ n < r
      <4>1. wth'["max"] = IF wth["max"] < a THEN a ELSE wth["max"]
        BY <2>1, <2>2, <2>4, <2>5, <3>1, <3>4
      <4>2. PICK m \in Int : m = wth["max"]
        BY <3>1
      <4>3. /\ Values("maxtempC", n) \cup {-100} = S \cup {a}
            /\ wth'["max"] \in S \cup {a} /\ \A v \in S \cup {a} : v <= wth'["max"]
        <5>1. Values("maxtempC", n) \cup {-100} = S \cup {a}
          BY <3>2, <3>4
        <5> HIDE DEF S
        <5> QED BY <3>1, <3>4, <4>1, <4>2, <5>1
      <4> QED BY <1>1, <4>3, SaidKept DEF Highest
    <3>5. CASE JsonEq(tokens[n], "maxtempC") /\ n = r
      <4>1. n > 0
        BY <1>1, <2>2
      <4> QED BY <1>1, <3>5, <4>1, SaidKept DEF Highest
    <3> QED BY <1>1, <2>2, <3>3, <3>4, <3>5
  <2>8. Lowest(n)'
    <3> DEFINE S == Values("mintempC", n - 1) \cup {100}
    <3>2. Values("mintempC", n) = Values("mintempC", n - 1) \cup
            (IF JsonEq(tokens[n], "mintempC") THEN {a} ELSE {})
      BY <1>1, <2>2, <2>3, ValuesNext
    <3>6. CASE Unset \in Values("mintempC", n)
      BY <1>1, <3>6, SaidKept DEF Lowest
    <3> SUFFICES ASSUME Unset \notin Values("mintempC", n) PROVE Lowest(n)'
      BY <3>6
    <3>1. /\ wth["min"] \in S /\ (\A v \in S : wth["min"] <= v) /\ S \subseteq Int
          /\ JsonEq(tokens[n], "mintempC") => a \in Int
      <4>1. Unset \notin Values("mintempC", n - 1)
        BY <3>2
      <4> QED BY <2>5, <2>6, <3>2, <4>1, ValuesTyped DEF Lowest
    <3>3. CASE ~JsonEq(tokens[n], "mintempC")
      <4>1. wth'["min"] = wth["min"] /\ Values("mintempC", n) = Values("mintempC", n - 1)
        BY <2>1, <2>2, <3>2, <3>3
      <4> QED BY <1>1, <3>1, <4>1, SaidKept DEF Lowest
    <3>4. CASE JsonEq(tokens[n], "mintempC") /\ n < r
      <4>1. wth'["min"] = IF wth["min"] > a THEN a ELSE wth["min"]
        BY <2>1, <2>2, <2>4, <2>5, <3>1, <3>4
      <4>2. PICK m \in Int : m = wth["min"]
        BY <3>1
      <4>3. /\ Values("mintempC", n) \cup {100} = S \cup {a}
            /\ wth'["min"] \in S \cup {a} /\ \A v \in S \cup {a} : wth'["min"] <= v
        <5>1. Values("mintempC", n) \cup {100} = S \cup {a}
          BY <3>2, <3>4
        <5> HIDE DEF S
        <5> QED BY <3>1, <3>4, <4>1, <4>2, <5>1
      <4> QED BY <1>1, <4>3, SaidKept DEF Lowest
    <3>5. CASE JsonEq(tokens[n], "mintempC") /\ n = r
      <4>1. n > 0
        BY <1>1, <2>2
      <4> QED BY <1>1, <3>5, <4>1, SaidKept DEF Lowest
    <3> QED BY <1>1, <2>2, <3>3, <3>4, <3>5
  <2>9. SaysFirst(First)'
    <3>1. SaysFirst(First)
      BY <1>1 DEF ReportInv
    <3> QED BY <1>1, <2>1, <3>1, SaidKept DEF SaysFirst
  <2>10. i' <= r' + 1 /\ \A m \in Nat : m = i' - 1 => m = n
    BY <1>1, <1>3, <2>2
  <2> QED BY <1>1, <1>3, <2>7, <2>8, <2>9, <2>10 DEF ReportInv, ReportIsOfTheTokens, Early
<1> QED BY <1>2, <1>3 DEF SecondLoop

LEMMA CompareReport ==
  ASSUME IInv, ReportInv, report = Unset, Compare
  PROVE  ReportInv'
<1>1. /\ pc = "compare" /\ UNCHANGED <<js, tokens, r, city, wth, i>>
      /\ pc' \in {"exited", "undefined"}
      /\ mode = "parsed" /\ r >= 0 /\ r \in Nat /\ SaysFirst(First) /\ Highest(r) /\ Lowest(r)
  BY DEF Compare, Undefined, Exit, parser, request, result, IInv, Stages, ParserTyped, ReportInv
<1>2. CASE UNCHANGED report
  BY <1>1, <1>2, StageReport DEF Early
<1>3. CASE SameCity /\ report' = [city |-> city, wth |-> wth, rain |-> Rain(wth["precip"])]
  <2>1. report'.wth = wth
    BY <1>3
  <2>2. \A f \in Fields : report'.wth[f] = Said(f, First)
    BY <1>1, <2>1 DEF SaysFirst
  <2>3. Said("cityname", First) # Unset => IsPrefix(city, Said("cityname", First))
    <3>1. wth["cityname"] = Said("cityname", First)
      BY <1>1 DEF SaysFirst, Fields
    <3> QED BY <1>3, <3>1 DEF SameCity
  <2>4. ReportIsOfTheTokens'
    <3>1. (r > 0 => ~JsonEq(tokens[r], "maxtempC")) /\ Unset \notin Values("maxtempC", r) =>
            /\ wth["max"] \in Values("maxtempC", r) \cup {-100}
            /\ \A v \in Values("maxtempC", r) \cup {-100} : v <= wth["max"]
      BY <1>1 DEF Highest
    <3>2. (r > 0 => ~JsonEq(tokens[r], "mintempC")) /\ Unset \notin Values("mintempC", r) =>
            /\ wth["min"] \in Values("mintempC", r) \cup {100}
            /\ \A v \in Values("mintempC", r) \cup {100} : wth["min"] <= v
      BY <1>1 DEF Lowest
    <3>3. PICK n : n = r
      OBVIOUS
    <3>4. /\ \A f : Said(f, First)' = Said(f, First) /\ Values(f, n)' = Values(f, n)
          /\ \A k, f : JsonEq(tokens[k], f)' <=> JsonEq(tokens[k], f)
      BY <1>1, SaidKept
    <3> QED BY <1>1, <2>1, <2>2, <2>3, <3>1, <3>2, <3>3, <3>4 DEF ReportIsOfTheTokens
  <2> QED BY <1>1, <2>4 DEF ReportInv, Early
<1> QED BY <1>2, <1>3 DEF Compare, Undefined, result

LEMMA StepReport ==
  ASSUME IInv, ReportInv, [Next]_vars
  PROVE  ReportInv'
<1>1. CASE UNCHANGED vars
  <2>1. UNCHANGED <<pc, city, wth, i, report>> /\ UNCHANGED <<js, tokens, r>>
    BY <1>1 DEF vars, parser
  <2>2. \A n : SaysFirst(n) => SaysFirst(n)'
    BY <2>1, SaidKept DEF SaysFirst
  <2>3. \A n : (Highest(n) => Highest(n)') /\ (Lowest(n) => Lowest(n)')
    BY <2>1, SaidKept DEF Highest, Lowest
  <2>4. ReportIsOfTheTokens'
    <3>1. PICK n : n = r
      OBVIOUS
    <3>2. /\ \A f : Said(f, First)' = Said(f, First) /\ Values(f, n)' = Values(f, n)
          /\ \A k, f : JsonEq(tokens[k], f)' <=> JsonEq(tokens[k], f)
      BY <2>1, SaidKept
    <3> QED BY <2>1, <3>1, <3>2 DEF ReportInv, ReportIsOfTheTokens
  <2> QED BY <2>1, <2>2, <2>3, <2>4 DEF ReportInv
<1>2. ASSUME Program \/ Server PROVE report = Unset
  <2>1. pc # "exited"
    BY <1>2 DEF Program, Server, GlobalInit, EasyInit, Setopt, Cleanup, CallJsmn, Tokenize,
                ParseReturns, FirstLoop, FirstDone, SecondLoop, SecondDone, Compare,
                Received, TransferFails, WriteCb
  <2>2. status = Unset
    BY <2>1 DEF IInv, ProgramTyped
  <2> QED BY <2>2, WeatherAssumption DEF IInv, ProgramTyped
<1>3. CASE Server \/ GlobalInit \/ EasyInit \/ Setopt \/ Cleanup
  <2>1. pc \in Early /\ UNCHANGED <<wth, i, report>>
    BY <1>3 DEF Server, Received, TransferFails, WriteCb, GlobalInit, EasyInit, Setopt, Cleanup,
                result, Early
  <2>2. pc' \notin {"parse", "first", "extremes", "compare"}
    BY <1>3 DEF Server, Received, TransferFails, WriteCb, GlobalInit, EasyInit, Setopt, Cleanup, Exit
  <2> QED BY <1>2, <1>3, <2>1, <2>2, StageReport DEF Program
<1>4. CASE Program
  BY <1>2, <1>3, <1>4, CallJsmnReport, ParseReport, FirstLoopReport, DoneReport, SecondLoopReport,
     CompareReport DEF Program
<1> QED BY <1>1, <1>3, <1>4 DEF Next, Finished

THEOREM ReportInvariance == Spec => [](IInv /\ ReportInv)
<1>1. Init => ReportInv
  BY DEF Init, ReportInv, ReportIsOfTheTokens, Early
<1>2. IInv /\ ReportInv /\ [Next]_vars => ReportInv'
  BY StepReport
<1> QED BY <1>1, <1>2, Invariance, PTL DEF Spec

-----------------------------------------------------------------------------
(* The edges *)

\* A field without a value has none among the first tokens; an extreme is without
\* one only after a value that is none.
LEMMA UnsetFields ==
  ASSUME IInv, ReportInv, pc = "compare", NEW f \in DOMAIN wth, wth[f] = Unset
  PROVE  \/ \E g \in Fields : Said(g, First) = Unset
         \/ \E key \in {"maxtempC", "mintempC"} :
              JsonEq(tokens[Len(tokens)], key) \/ Unset \in Values(key, Len(tokens))
<1>1. /\ DOMAIN wth = AllFields /\ r = Len(tokens) /\ r \in Nat
      /\ SaysFirst(First) /\ Highest(r) /\ Lowest(r)
  BY DEF IInv, ProgramTyped, Stages, ParserTyped, ReportInv
<1>2. Unset \notin Int
  BY WeatherAssumption
<1>3. CASE f \in Fields
  BY <1>1, <1>3 DEF SaysFirst
<1>4. CASE f = "max"
  <2>1. ASSUME ~JsonEq(tokens[r], "maxtempC"), Unset \notin Values("maxtempC", r) PROVE FALSE
    BY <1>1, <1>2, <1>4, <2>1 DEF Highest
  <2> QED BY <1>1, <2>1
<1>5. CASE f = "min"
  <2>1. ASSUME ~JsonEq(tokens[r], "mintempC"), Unset \notin Values("mintempC", r) PROVE FALSE
    BY <1>1, <1>2, <1>5, <2>1 DEF Lowest
  <2> QED BY <1>1, <2>1
<1> QED BY <1>1, <1>3, <1>4, <1>5 DEF AllFields

\* Each step that may go beyond what was written is taken at an edge only.
LEMMA StepEdges ==
  ASSUME IInv, ReportInv, UndefinedOnlyAtTheEdges, [Next]_vars
  PROVE  UndefinedOnlyAtTheEdges'
<1> DEFINE Edge == \/ Len(tokens) < First + 4
                   \/ \E f \in Fields : Said(f, First) = Unset
                   \/ \E key \in {"maxtempC", "mintempC"} :
                        JsonEq(tokens[Len(tokens)], key) \/ Unset \in Values(key, Len(tokens))
<1>1. ASSUME UNCHANGED parser, Edge PROVE Edge'
  <2>1. UNCHANGED <<js, tokens>>
    BY <1>1 DEF parser
  <2>2. PICK n : n = Len(tokens)
    OBVIOUS
  <2>3. /\ \A f : Said(f, First)' = Said(f, First) /\ Values(f, n)' = Values(f, n)
        /\ \A k, f : JsonEq(tokens[k], f)' <=> JsonEq(tokens[k], f)
    BY <2>1, SaidKept
  <2> QED BY <1>1, <2>1, <2>2, <2>3
<1>2. ASSUME UNCHANGED parser, mode = "parsed", Edge PROVE UndefinedOnlyAtTheEdges'
  <2>1. mode' = "parsed" /\ Edge'
    BY <1>1, <1>2 DEF parser
  <2> QED BY <2>1 DEF UndefinedOnlyAtTheEdges
<1>3. ASSUME pc \in {"first", "extremes", "compare"}
      PROVE  /\ mode = "parsed" /\ i \in Nat /\ i >= 1 /\ r = Len(tokens) /\ First \in Nat
             /\ Len(tokens) \in Nat /\ DOMAIN tokens = 1 .. Len(tokens)
  BY <1>3, TokensDomain, WeatherAssumption, PoolAssumption
     DEF IInv, Stages, ProgramTyped, ParserTyped
<1>4. CASE UNCHANGED vars
  <2>1. UNCHANGED <<pc, json>> /\ UNCHANGED parser /\ mode' = mode
    BY <1>4 DEF vars, parser
  <2>2. CASE pc = "undefined" /\ mode # "idle"
    <3>1. Edge'
      BY <1>1, <2>1, <2>2 DEF UndefinedOnlyAtTheEdges
    <3> QED BY <2>1, <2>2, <3>1 DEF UndefinedOnlyAtTheEdges
  <2>3. CASE ~(pc = "undefined" /\ mode # "idle")
    BY <2>1, <2>3 DEF UndefinedOnlyAtTheEdges
  <2> QED BY <2>2, <2>3
<1>5. CASE CallJsmn /\ pc' = "undefined"
  <2>1. pc = "terminate" /\ mode = "idle" /\ Len(json) \in Nat /\ BufSize \in Nat
    BY <1>5, WeatherAssumption, LenProperties DEF CallJsmn, IInv, Stages, ProgramTyped
  <2>2. Len(json) + 1 >= BufSize /\ json' = json /\ mode' = mode
    BY <1>5 DEF CallJsmn, Undefined, parser
  <2>3. Len(json) >= BufSize - 1
    BY <2>1, <2>2
  <2> QED BY <2>1, <2>2, <2>3 DEF UndefinedOnlyAtTheEdges
<1>6. CASE FirstLoop /\ pc' = "undefined"
  <2>1. pc = "first" /\ i <= First /\ UNCHANGED parser
        /\ (i \in DOMAIN tokens => \E f \in Fields : ValueAt(f, i) \notin DOMAIN tokens)
    BY <1>6 DEF FirstLoop
  <2>2. Len(tokens) < First + 4
    <3>1. CASE i \notin DOMAIN tokens
      BY <1>3, <2>1, <3>1
    <3>2. CASE i \in DOMAIN tokens
      <4>1. PICK f \in Fields : ValueAt(f, i) \notin DOMAIN tokens
        BY <2>1, <3>2
      <4>2. ValueAt(f, i) \in {i + 1, i + 4}
        BY DEF ValueAt
      <4> QED BY <1>3, <2>1, <4>1, <4>2
    <3> QED BY <3>1, <3>2
  <2> QED BY <1>2, <1>3, <2>1, <2>2
<1>7. CASE SecondLoop /\ pc' = "undefined"
  <2>1. /\ pc = "extremes" /\ i <= r /\ UNCHANGED parser /\ i + 1 \notin DOMAIN tokens
        /\ \E key \in {"maxtempC", "mintempC"} : JsonEq(tokens[i], key)
    BY <1>7 DEF SecondLoop
  <2>2. i = Len(tokens)
    BY <1>3, <2>1
  <2> QED BY <1>2, <1>3, <2>1, <2>2
<1>8. CASE Compare /\ pc' = "undefined"
  <2>1. pc = "compare" /\ UNCHANGED parser /\ \E f \in DOMAIN wth : wth[f] = Unset
    BY <1>8 DEF Compare, Exit
  <2>2. Edge
    BY <2>1, UnsetFields
  <2> QED BY <1>2, <1>3, <2>1, <2>2
<1>9. ASSUME Next, ~UNCHANGED vars, pc' = "undefined"
      PROVE  CallJsmn \/ FirstLoop \/ SecondLoop \/ Compare
  <2>1. ASSUME Tokenize PROVE FALSE
    BY <1>9, <2>1 DEF Tokenize
  <2> QED BY <1>9, <2>1 DEF Next, Program, Server, Finished, GlobalInit, EasyInit, Setopt, Cleanup,
             ParseReturns, FirstDone, SecondDone, Received, TransferFails, WriteCb, Exit
<1>10. CASE pc' # "undefined"
  BY <1>10 DEF UndefinedOnlyAtTheEdges
<1> QED BY <1>4, <1>5, <1>6, <1>7, <1>8, <1>9, <1>10

-----------------------------------------------------------------------------
(* Theorems *)

\* Whatever the server answers and however it is cut into pieces, the buffer, the
\* parser and its tokens, the copied fields and the exit status keep their
\* bounds (curl-weather.c and jsmn.h).
THEOREM TypeCorrect == Spec => []TypeOK
<1>1. IInv => TypeOK
  BY TypesImplied
<1> QED BY <1>1, Invariance, PTL

\* Of every text, whole, cut or no JSON at all, jsmn_parse() makes tokens that lie
\* within it and nest, none of them open once the text was accepted.
THEOREM TokensAlwaysNest == Spec => []TokensNest
<1>1. IInv => TokensNest
  BY NestImplied DEF IInv
<1> QED BY <1>1, Invariance, PTL

\* Of every text that jsmn_parse() accepts, each character that is not a blank, a
\* colon or a comma belongs to one token and one only, of the right type.
THEOREM TokensAreAlwaysTheText == Spec => []TokensAreTheText
<1>1. IInv /\ TextInv => TokensAreTheText
  BY TextImplied DEF IInv
<1> QED BY <1>1, TextInvariance, PTL

\* What the program prints is what the tokens of the answer say: the last value of
\* each key among the first, and the extremes of the days among all.
THEOREM ReportsAreOfTheTokens == Spec => []ReportIsOfTheTokens
<1>1. ReportInv => ReportIsOfTheTokens
  BY DEF ReportInv
<1> QED BY <1>1, ReportInvariance, PTL

\* The program uses memory that is not its own, was never written or holds no int
\* at the edges only: a full buffer, a text of few tokens, a field with no value
\* among the first of them or with none that an int can hold, and a last token
\* that is a key (main(), parse_json() and print_weather()).
THEOREM UndefinedOnlyThere == Spec => []UndefinedOnlyAtTheEdges
<1>1. Init => UndefinedOnlyAtTheEdges
  BY DEF Init, UndefinedOnlyAtTheEdges
<1>2. IInv /\ ReportInv /\ UndefinedOnlyAtTheEdges /\ [Next]_vars => UndefinedOnlyAtTheEdges'
  BY StepEdges
<1> QED BY <1>1, <1>2, ReportInvariance, PTL DEF Spec
=============================================================================
