------------------------------ MODULE MCWeather ------------------------------
(***************************************************************************)
(* Answers for Weather: texts that are JSON and texts that are not, and    *)
(* weather documents with all that may befall them on their way.           *)
(***************************************************************************)
EXTENDS Weather, JsonGrammar

\* Every text of up to four characters, those that come seldom apart, and what
\* \u allows.
ShortTexts ==
  BoundedSeq({"{", "}", "[", "]", ":", ",", Quote, "b"}, 4)
  \cup BoundedSeq({"[", Quote, Blank, Odd, NUL, Backslash}, 4)
  \cup {<<Quote, Backslash, "u">> \o s : s \in BoundedSeq({"0", "x", Quote}, 5)}

\* Every document of up to two levels with up to two members in each.
Join(a, b) == a \o <<",">> \o b
Lists(V) == {<<>>} \cup V \cup {Join(a, b) : a, b \in V}
Pair(key, text) == <<Quote, key, Quote, ":">> \o text
Level(V) ==
  V \cup {<<"[">> \o s \o <<"]">> : s \in Lists(V)}
    \cup {<<"{">> \o s \o <<"}">> : s \in Lists({Pair("x", v) : v \in V})}
Documents == Level({<<"b">>, <<Quote, Quote>>}) \cup Level(Level({<<"b">>}))

-----------------------------------------------------------------------------
\* What the weather is, and the document that says so.
Quoted(text) == <<Quote>> \o text \o <<Quote>>
Member2(key, text) == Pair(key, Quoted(text))

DayText(day) ==
  <<"{">> \o Join(Member2("maxtempC", <<day.max>>), Member2("mintempC", <<day.min>>)) \o <<"}">>

WeatherText(w) ==
  <<"{">> \o Join(Join(Member2("temp_C", <<w.temp>>), Member2("precipMM", <<w.precip>>)),
                  Join(Pair("areaName", <<"[", "{">> \o Member2("value", w.area) \o <<"}", "]">>),
                       Pair("weather", <<"[">> \o FoldLeft(Join, DayText(w.days[1]),
                              [d \in 1 .. Len(w.days) - 1 |-> DayText(w.days[d + 1])])
                                       \o <<"]">>)))
          \o <<"}">>

Days == {[max |-> "9", min |-> "7"], [max |-> "-5.5", min |-> "-110"]}
Weathers ==
  [temp : {"7"}, precip : {"0.5"}, area : {<<"Mos", "cow", "!">>, <<"Om", "sk">>},
   days : [1 .. 2 -> Days]]
  \cup [temp : {"-5.5"}, precip : {"0", "9"}, area : {<<"Mos">>}, days : [1 .. 1 -> Days] \cup [1 .. 3 -> Days]]

\* A document whose first tokens have every field: no day follows.
FullText(value, text) ==
  <<"{">> \o FoldLeft(Join, Member2("temp_C", <<value>>),
                [n \in 1 .. 6 |-> Member2(<<"FeelsLikeC", "humidity", "precipMM", "pressureInches",
                                            "windspeedKmph", "winddir16Point">>[n], <<value>>)])
          \o <<",">> \o Pair("areaName", <<"[", "{">> \o Member2("value", text) \o <<"}", "]", "}">>)
Full == {"7", "-5.5", "0.5"}

\* Documents with a number that no int can hold.
Large == {FullText("999", <<"Mos">>)} \cup
  {WeatherText([temp |-> "7", precip |-> "0", area |-> <<"Mos">>,
                days |-> <<[max |-> m, min |-> n], [max |-> "9", min |-> "7"]>>]) :
     m, n \in {"7", "999"}}

\* Followed by blanks, to the end of the buffer and beyond.
Padded == {WeatherText(w) \o s : w \in {v \in Weathers : Len(v.days) = 2},
                                 s \in {<<Blank>>, <<Blank, Blank>>, <<Blank, Blank, Blank>>}}

\* With a NUL somewhere.
StruckWeather == [temp |-> "7", precip |-> "0", area |-> <<"Mos">>,
                  days |-> <<[max |-> "9", min |-> "-5.5"]>>]
Struck == LET t == WeatherText(StruckWeather)
          IN  {SubSeq(t, 1, k) \o <<NUL>> \o SubSeq(t, k + 1, Len(t)) : k \in 0 .. Len(t)}

MCRequests ==
  {<<"Mos">>} \X (ShortTexts \cup Documents \cup Padded \cup Struck \cup Large)
  \cup {<<"Mos">>, <<"Om">>} \X {FullText(c, <<"Mos">>) : c \in Full}
  \cup {<<"Mos">>, <<"Mos", "cow">>} \X {WeatherText(w) : w \in Weathers}
MCHundredths == [c \in {"-110", "-5.5", "0", "0.5", "7", "9", "999"} |->
  CASE c = "-110" -> -11000 [] c = "-5.5" -> -550 [] c = "0" -> 0 [] c = "0.5" -> 50
    [] c = "7" -> 700 [] c = "9" -> 900 [] c = "999" -> 99900]

\* What the program prints of each number that an int can hold: as a number of
\* degrees, kilometres or percent, and as a pressure in millimetres.
Printed == [c \in DOMAIN MCHundredths \ {"999"} |->
  CASE c = "-110" -> -110 [] c = "-5.5" -> -5 [] c \in {"0", "0.5"} -> 0
    [] c = "7" -> 7 [] c = "9" -> 9]
Millimetres == [c \in Full |-> CASE c = "7" -> 177 [] c = "-5.5" -> -139 [] c = "0.5" -> 12]

-----------------------------------------------------------------------------
\* A JSON text gives exactly the tokens that its grammar has, with their
\* places and the number of members of each, or NOMEM when the array is too
\* short for them (jsmn_parse()).
ParsesJson ==
  mode = "parsed" /\ IsJson(js) =>
    IF Len(JsonTokens(js)) <= PoolSize
      THEN r = Len(JsonTokens(js)) /\ tokens = JsonTokens(js)
      ELSE r = NoMem

\* Nothing is reported of a weather document that did not come whole: a transfer
\* that failed, a buffer that was full and a NUL in the middle all end in an error
\* (write_cb(), main() and jsmn_parse() together).  Only of a text of which
\* nothing is left does the program go on, since no token is no error.
NoReportOfATruncatedAnswer ==
  report # Unset =>
    /\ sent = Len(answer)
    /\ LET whole == SelectSeq(answer, LAMBDA c : c # NUL)
       IN  \A w \in Weathers \cup {StruckWeather} :
             IsPrefix(WeatherText(w), whole) => IsPrefix(WeatherText(w), js) \/ js = <<>>

\* What is printed of a weather document is what it says, each number without its
\* fraction: of the city, the temperature and precipitation now, and the extremes
\* of all days, of which no maximum can be below -100 (parse_json(),
\* print_weather()).
ReportIsTrue ==
  report # Unset =>
    /\ \A w \in Weathers :
         IsPrefix(WeatherText(w), js) =>
           /\ IsPrefix(report.city, w.area)
           /\ report.wth["temperature"] = Printed[w.temp]
           /\ report.rain = (CASE w.precip = "0" -> "none" [] w.precip = "0.5" -> "light" [] OTHER -> "heavy")
           /\ report.wth["max"] = Max({Printed[w.days[d].max] : d \in DOMAIN w.days})
           /\ report.wth["min"] = Min({Printed[w.days[d].min] : d \in DOMAIN w.days})
    /\ \A c \in Full :
         js = FullText(c, <<"Mos">>) =>
           /\ report.city = <<"Mos">> /\ report.wth["wind_dir"] = <<c>>
           /\ \A f \in {"temperature", "feelslike", "humidity", "wind_speed"} :
                report.wth[f] = Printed[c]
           /\ report.wth["pressure"] = Millimetres[c]

=============================================================================
