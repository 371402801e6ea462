------------------------------- MODULE Weather ------------------------------
(***************************************************************************)
(* curl-weather.c of hw-09: one run of a program that asks a server for    *)
(* the weather of a city, collects the answer in a buffer of fixed size,   *)
(* has jsmn.h cut it into tokens and looks for keys among them.            *)
(*                                                                         *)
(* libcurl and the server are outside: the answer comes in pieces of any   *)
(* length, and the transfer may fail at any time.  Numbers of the answer   *)
(* are single characters whose value in hundredths is Hundredths[c].       *)
(***************************************************************************)
EXTENDS Jsmn, SequencesExt

CONSTANTS
  Requests,    \* <<argv[1], what the server answers to it>>
  Hundredths,  \* [characters that are numbers -> 100 * their value]
  BufSize,     \* sizeof(JSON)
  First,       \* the tokens that the first loop looks at: 64
  TmpSize,     \* sizeof(tmp_str)
  NameSize,    \* sizeof(wind_dir) and sizeof(cityname)
  IntMax,      \* INT_MAX
  Unset        \* what a variable holds that was never written, or whose number is
               \* not one of its type: anything

ASSUME WeatherAssumption ==
  /\ Requests \subseteq Seq(STRING) \X Seq(STRING)
  /\ BufSize \in Nat \ {0} /\ First \in Nat /\ First + 4 <= PoolSize
  /\ TmpSize \in Nat \ {0} /\ NameSize \in Nat \ {0} /\ IntMax \in Nat
  /\ \A c \in DOMAIN Hundredths : Hundredths[c] \in Int
  /\ Unset \notin Int \cup {"success", "failure"}

VARIABLES
  pc,       \* where main() is
  city,     \* argv[1]
  answer,   \* what the server sends
  sent,     \* the characters of it that were received
  json,     \* the first JSON_location characters of JSON; NULs follow
  handles,  \* what of libcurl is to be cleaned up
  wth,      \* struct weather, by the keys of the answer
  i,        \* parse_json()'s loop variable, from 1
  report,   \* what print_weather() printed, or Unset
  status    \* of the program's exit, or Unset

vars == <<pc, city, answer, sent, json, handles, wth, i, report, status, parser>>
request == <<city, answer>>
result == <<wth, i, report>>

Key(field) ==
  CASE field = "feelslike" -> "FeelsLikeC"   [] field = "precip" -> "precipMM"
    [] field = "pressure" -> "pressureInches" [] field = "temperature" -> "temp_C"
    [] field = "wind_speed" -> "windspeedKmph" [] field = "humidity" -> "humidity"
    [] field = "wind_dir" -> "winddir16Point" [] field = "cityname" -> "areaName"

Fields == {"feelslike", "humidity", "precip", "pressure", "temperature",
           "wind_speed", "wind_dir", "cityname"}

Init ==
  /\ JsmnInit
  /\ pc = "global_init" /\ \E q \in Requests : city = q[1] /\ answer = q[2]
  /\ sent = 0 /\ json = <<>> /\ handles = {}
  /\ wth = [f \in Fields \cup {"max", "min"} |-> Unset]
  /\ i = 1 /\ report = Unset /\ status = Unset

-----------------------------------------------------------------------------
(* The transfer *)

Exit(code) == pc' = "exited" /\ status' = code

GlobalInit ==
  /\ pc = "global_init"
  /\ \/ handles' = {"global"} /\ pc' = "easy_init" /\ UNCHANGED status
     \/ Exit("failure") /\ UNCHANGED handles
  /\ UNCHANGED <<request, sent, json, result, parser>>

EasyInit ==
  /\ pc = "easy_init"
  /\ \/ handles' = handles \cup {"easy"} /\ pc' = "setopt" /\ UNCHANGED status
     \/ handles' = handles \ {"global"} /\ Exit("failure")
  /\ UNCHANGED <<request, sent, json, result, parser>>

\* The five curl_easy_setopt(), any of which may fail.
Setopt ==
  /\ pc = "setopt"
  /\ pc' \in {"perform", "failed"}
  /\ UNCHANGED <<request, sent, json, handles, result, status, parser>>

\* strncpy() copies up to the first NUL and fills the rest of n with NULs.
Copied(text) ==
  [k \in DOMAIN text |-> IF \E j \in 1 .. k : text[j] = NUL THEN NUL ELSE text[k]]

\* (faulty form of WriteCb: the size of the buffer is not asked)
WriteCbUnbounded(n) ==
  /\ pc = "perform"
  /\ json' = json \o Copied(SubSeq(answer, sent + 1, sent + n))
  /\ sent' = sent + n
  /\ UNCHANGED <<pc, request, handles, result, status, parser>>

\* write_cb() with n characters; a result other than n ends the transfer.
WriteCb(n) ==
  /\ pc = "perform"
  /\ IF Len(json) + n > BufSize
       THEN pc' = "failed" /\ UNCHANGED <<sent, json>>
       ELSE /\ json' = json \o Copied(SubSeq(answer, sent + 1, sent + n))
            /\ sent' = sent + n
            /\ UNCHANGED pc
  /\ UNCHANGED <<request, handles, result, status, parser>>

Received ==
  /\ pc = "perform" /\ sent = Len(answer)
  /\ pc' = "received"
  /\ UNCHANGED <<request, sent, json, handles, result, status, parser>>

TransferFails ==
  /\ pc = "perform" /\ pc' = "failed"
  /\ UNCHANGED <<request, sent, json, handles, result, status, parser>>

Cleanup ==
  /\ pc \in {"received", "failed"}
  /\ handles' = {}
  /\ IF pc = "received" THEN pc' = "terminate" /\ UNCHANGED status ELSE Exit("failure")
  /\ UNCHANGED <<request, sent, json, result, parser>>

-----------------------------------------------------------------------------
(* parse_json() *)

\* What memory that was never written holds ends the program, if it is used
\* as an offset into the text, or as a string.
Undefined ==
  /\ pc' = "undefined"
  /\ UNCHANGED <<request, sent, json, handles, result, status>>

Text == LET nul == SelectInSeq(json, LAMBDA c : c = NUL)
        IN  IF nul = 0 THEN json ELSE SubSeq(json, 1, nul - 1)

\* (faulty form of CallJsmn: the NUL is written one character further)
CallJsmnFurther ==
  /\ pc = "terminate"
  /\ \/ /\ pc' = "parse"
        /\ wth' = [wth EXCEPT !["max"] = -100, !["min"] = 100]
        /\ CallParse(Text)
        /\ UNCHANGED <<request, sent, json, handles, i, report, status>>
     \/ Len(json) + 2 >= BufSize /\ Undefined /\ UNCHANGED parser

\* (faulty form of CallJsmn: both extremes start from 0)
CallJsmnFromZero ==
  /\ pc = "terminate"
  /\ \/ /\ pc' = "parse"
        /\ wth' = [wth EXCEPT !["max"] = 0, !["min"] = 0]
        /\ CallParse(Text)
        /\ UNCHANGED <<request, sent, json, handles, i, report, status>>
     \/ Len(json) + 1 >= BufSize /\ Undefined /\ UNCHANGED parser

\* JSON[JSON_location+1] = '\0', max and min set, and the text tokenized.  The
\* assignment, and strlen() of a full buffer, may go beyond the array.
CallJsmn ==
  /\ pc = "terminate"
  /\ \/ /\ pc' = "parse"
        /\ wth' = [wth EXCEPT !["max"] = -100, !["min"] = 100]
        /\ CallParse(Text)
        /\ UNCHANGED <<request, sent, json, handles, i, report, status>>
     \/ Len(json) + 1 >= BufSize /\ Undefined /\ UNCHANGED parser

Tokenize ==
  /\ pc = "parse" /\ Parse
  /\ UNCHANGED <<pc, request, sent, json, handles, result, status>>

ParseReturns ==
  /\ pc = "parse" /\ mode = "parsed"
  /\ IF r < 0 THEN Exit("failure") ELSE pc' = "first" /\ UNCHANGED status
  /\ UNCHANGED <<request, sent, json, handles, result, parser>>

\* jsoneq(), of an allocated token
JsonEq(t, key) ==
  /\ t.type = "string"
  /\ SubSeq(js, t.start + 1, t.end) = <<key>>

\* The text of token k as copied to an array of the given size.
Copy(k, size) ==
  LET t == tokens[k] IN SubSeq(js, t.start + 1, IF t.end - t.start >= size
                                                  THEN t.start + size - 1 ELSE t.end)

Atof(text) == IF text # <<>> /\ text[1] \in DOMAIN Hundredths THEN Hundredths[text[1]] ELSE 0

\* A conversion to int drops the fraction, of a negative number too.
Whole(n, d) == IF n >= 0 THEN n \div d ELSE -((-n) \div d)
AsInt(n) == IF n \in -IntMax - 1 .. IntMax THEN n ELSE Unset
Atoi(text) == AsInt(Whole(Atof(text), 100))

\* What the token at k makes of the field f.
FieldValue(f, k) ==
  CASE f \in {"wind_dir", "cityname"} -> Copy(k, NameSize)
    [] f = "precip" -> Atof(Copy(k, TmpSize))
    [] f = "pressure" -> AsInt(Whole(Atof(Copy(k, TmpSize)) * 254, 1000))
    [] OTHER -> Atoi(Copy(k, TmpSize))

ValueAt(f, k) == IF f = "cityname" THEN k + 4 ELSE k + 1

\* One of the first tokens, whether or not the answer has so many.
FirstLoop ==
  /\ pc = "first" /\ i <= First
  /\ \/ /\ i \in DOMAIN tokens
        /\ wth' = [f \in DOMAIN wth |->
                     IF ~(f \in Fields /\ JsonEq(tokens[i], Key(f))) THEN wth[f]
                     ELSE IF ValueAt(f, i) \in DOMAIN tokens THEN FieldValue(f, ValueAt(f, i))
                     ELSE Unset]
        /\ i' = i + 1 /\ UNCHANGED <<pc, request, sent, json, handles, report, status>>
     \/ /\ i \notin DOMAIN tokens          \* and what is there is no key
        /\ i' = i + 1 /\ UNCHANGED <<pc, request, sent, json, handles, wth, report, status>>
     \/ /\ i \in DOMAIN tokens =>
             \E f \in Fields : JsonEq(tokens[i], Key(f)) /\ ValueAt(f, i) \notin DOMAIN tokens
        /\ Undefined
  /\ UNCHANGED parser

\* (faulty form of FirstDone: the last of the first tokens is not looked at)
FirstDoneEarly ==
  /\ pc = "first" /\ i >= First
  /\ pc' = "extremes" /\ i' = 1
  /\ UNCHANGED <<request, sent, json, handles, wth, report, status, parser>>

FirstDone ==
  /\ pc = "first" /\ i > First
  /\ pc' = "extremes" /\ i' = 1
  /\ UNCHANGED <<request, sent, json, handles, wth, report, status, parser>>

\* One token of all r, for the extremes of the days.
SecondLoop ==
  /\ pc = "extremes" /\ i <= r
  /\ LET value == IF i + 1 \in DOMAIN tokens THEN Atoi(Copy(i + 1, TmpSize)) ELSE Unset
         Day(f, key, Beyond(_)) ==
           IF ~JsonEq(tokens[i], key) THEN wth[f]
           ELSE IF Unset \in {value, wth[f]} THEN Unset
           ELSE IF Beyond(value) THEN value ELSE wth[f]
     IN  \/ /\ wth' = [wth EXCEPT !["max"] = Day("max", "maxtempC", LAMBDA v : wth["max"] < v),
                                  !["min"] = Day("min", "mintempC", LAMBDA v : wth["min"] > v)]
            /\ i' = i + 1 /\ UNCHANGED <<pc, request, sent, json, handles, report, status>>
         \/ /\ i + 1 \notin DOMAIN tokens
            /\ \E key \in {"maxtempC", "mintempC"} : JsonEq(tokens[i], key)
            /\ Undefined
  /\ UNCHANGED parser

SecondDone ==
  /\ pc = "extremes" /\ i > r
  /\ pc' = "compare"
  /\ UNCHANGED <<request, sent, json, handles, result, status, parser>>

-----------------------------------------------------------------------------
(* The report *)

Rain(precip) ==
  IF precip = Unset THEN Unset
  ELSE IF precip < 1 THEN "none" ELSE IF precip < 100 THEN "light" ELSE "heavy"

\* strncmp() up to the length of argv[1], with a cityname that may be unset
SameCity == wth["cityname"] # Unset => IsPrefix(city, wth["cityname"])
OtherCity == wth["cityname"] # Unset => ~IsPrefix(city, wth["cityname"])

\* A field that was not found among the first tokens is printed all the same: it
\* holds anything, and cityname and wind_dir need not even end.
Compare ==
  /\ pc = "compare"
  /\ \/ /\ SameCity /\ Exit("success")
        /\ report' = [city |-> city, wth |-> wth, rain |-> Rain(wth["precip"])]
        /\ UNCHANGED <<request, sent, json, handles, wth, i>>
     \/ /\ OtherCity /\ Exit("success")
        /\ UNCHANGED <<request, sent, json, handles, result>>
     \/ SameCity /\ (\E f \in DOMAIN wth : wth[f] = Unset) /\ Undefined
  /\ UNCHANGED parser

Finished == pc \in {"exited", "undefined"} /\ UNCHANGED vars

Program ==
  \/ GlobalInit \/ EasyInit \/ Setopt \/ Cleanup \/ CallJsmn \/ Tokenize \/ ParseReturns
  \/ FirstLoop \/ FirstDone \/ SecondLoop \/ SecondDone \/ Compare

Server == Received \/ TransferFails \/ \E n \in 1 .. Len(answer) - sent : WriteCb(n)

Next == Program \/ Server \/ Finished

\* libcurl sets no limit to the time of a transfer, so that the server owes nothing.
Spec == Init /\ [][Next]_vars /\ WF_vars(Program)

-----------------------------------------------------------------------------
(* Properties *)

TypeOK ==
  /\ pc \in {"global_init", "easy_init", "setopt", "perform", "received", "failed", "terminate",
             "parse", "first", "extremes", "compare", "exited", "undefined"}
  /\ sent \in 0 .. Len(answer)
  /\ Len(json) = sent /\ sent <= BufSize
  /\ handles \subseteq {"global", "easy"}
  /\ \A f \in DOMAIN wth : \/ wth[f] = Unset
                          \/ IF f \in {"wind_dir", "cityname"}
                               THEN Len(wth[f]) < NameSize ELSE wth[f] \in Int
  /\ report # Unset => status = "success"
  /\ (pc = "exited") = (status # Unset) /\ status \in {Unset, "success", "failure"}
  /\ i \in 1 .. PoolSize + 1 /\ JsmnTypeOK

\* What the tokens up to the n-th say of a field: the value of the last key for it.
Said(f, n) ==
  LET k == Greatest({m \in 1 .. n \cap DOMAIN tokens : JsonEq(tokens[m], Key(f))})
  IN  IF k # 0 /\ ValueAt(f, k) \in DOMAIN tokens THEN FieldValue(f, ValueAt(f, k)) ELSE Unset

\* The values of a key among the tokens up to the n-th.
Values(key, n) ==
  {Atoi(Copy(m + 1, TmpSize)) : m \in {l \in 1 .. n : JsonEq(tokens[l], key)}}

\* The program uses memory that is not its own, or was never written, only when
\* the answer fills the buffer to its last character; when the parsed text has
\* fewer tokens than the first loop looks at with the value of its last key; when
\* one of the fields has no key among the first tokens, or a value no int can hold;
\* or when the last of all tokens is a key of the second loop, or a day has a value
\* no int can hold (main(), parse_json(), print_weather()).
UndefinedOnlyAtTheEdges ==
  pc = "undefined" =>
    IF mode = "idle" THEN Len(json) >= BufSize - 1
    ELSE \/ Len(tokens) < First + 4
         \/ \E f \in Fields : Said(f, First) = Unset
         \/ \E key \in {"maxtempC", "mintempC"} :
              JsonEq(tokens[Len(tokens)], key) \/ Unset \in Values(key, Len(tokens))

\* What is printed is what the tokens say, the city that was asked for among it:
\* the last value among the first tokens, the extremes of all values among all,
\* and -100 and 100 where no day is beyond (parse_json(), main()).  A key that
\* ends the tokens has no value, and one that no int can hold is anything.
ReportIsOfTheTokens ==
  report # Unset =>
    /\ r >= 0
    /\ \A f \in Fields : report.wth[f] = Said(f, First)
    /\ Said("cityname", First) # Unset => IsPrefix(city, Said("cityname", First))
    /\ (r > 0 => ~JsonEq(tokens[r], "maxtempC")) /\ Unset \notin Values("maxtempC", r) =>
         LET S == Values("maxtempC", r) \cup {-100} IN
         report.wth["max"] \in S /\ \A v \in S : v <= report.wth["max"]
    /\ (r > 0 => ~JsonEq(tokens[r], "mintempC")) /\ Unset \notin Values("mintempC", r) =>
         LET S == Values("mintempC", r) \cup {100} IN
         report.wth["min"] \in S /\ \A v \in S : report.wth["min"] <= v

\* Once the transfer has ended, well or not, the program ends: jsmn_parse() and
\* the loops over the tokens come to an end on every text.
ProgramEnds == pc \in {"received", "failed"} ~> pc \in {"exited", "undefined"}

=============================================================================
