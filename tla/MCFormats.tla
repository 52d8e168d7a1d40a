------------------------------- MODULE MCFormats -------------------------------
(***************************************************************************)
(* The tasks of Formats that TLC is given: those of MCYamlRoundTrip, and   *)
(* the texts and the objects of JSON below.                                *)
(***************************************************************************)
EXTENDS MCYamlRoundTrip, Formats

\* hash * 33 + c from 5381, with the characters of a char that is signed.  The
\* remainder by 5 * 13 * 23 is all the table uses; exact up to ten octets.
MCHashOf(key) ==
    FoldLeft(LAMBDA h, c : ((33 * h) + (IF c < 128 THEN c ELSE c - 256) + 1495) % 1495, 5381, key)

Plain == Style(0, {})
Indented == Style(2, {})        \* how Workspace.m saves
Styles == {Plain, Indented, Style(0, {"COMPACT", "SORT_KEYS"}),
           Style(3, {"COMPACT", "ENSURE_ASCII", "PRESERVE_ORDER"}),
           Style(0, {"ENCODE_ANY", "ENSURE_ASCII"})}

Question(text, isJson) ==
    JsonTask(text, IF isJson THEN "yes" ELSE "no", Unknown, {}, {}, {Plain})
Meaning(text, value) == JsonTask(text, "yes", value, {}, {}, Styles)
NotJson(text) == JsonTask(text, "no", Unknown, {}, {}, {})
Open(text, flags) == JsonTask(text, "open", Unknown, flags, {}, Styles)

InArray(text) == Ascii("[") \o text \o Ascii("]")
InString(octets) == InArray(Ascii("\"") \o octets \o Ascii("\""))

Joined(xs, ys) == {x \o y : x \in xs, y \in ys}

-------------------------------------------------------------------------------
(* The grammar: sequences of tokens, by the length of a sentence.           *)

TokenSet == {"{", "}", "[", "]", ":", ",", "a", "1"}
TokenText(token) == IF token = "a" THEN Ascii("\"a\"") ELSE Ascii(token)
SentenceText(tokens) == FlattenSeq([i \in DOMAIN tokens |-> TokenText(tokens[i]) \o Ascii(" ")])

\* Values, items and members of up to n tokens, as RFC 4627 defines them.
RECURSIVE JsonValues(_), JsonItems(_), JsonMembers(_)
JsonValues(n) ==
    IF n < 1 THEN {}
    ELSE {<<"a">>, <<"1">>}
         \cup {<<"[">> \o items \o <<"]">> : items \in {<<>>} \cup JsonItems(n - 2)}
         \cup {<<"{">> \o inner \o <<"}">> : inner \in {<<>>} \cup JsonMembers(n - 2)}
JsonItems(n) ==
    IF n < 1 THEN {}
    ELSE JsonValues(n) \cup Joined({v \o <<",">> : v \in JsonValues(n - 2)}, JsonItems(n - 2))
JsonMembers(n) ==
    IF n < 3 THEN {}
    ELSE LET one(k) == Joined({<<"a", ":">>}, JsonValues(k))
         IN one(n) \cup Joined({m \o <<",">> : m \in one(n - 4)}, JsonMembers(n - 4))

Sentences == {v \in JsonValues(7) : Len(v) <= 7 /\ v[1] \in {"[", "{"}}
Spoilt == {RemoveAt(v, i) : <<v, i>> \in {<<v, i>> \in Sentences \X (1..7) : i <= Len(v)}}
GrammarTasks ==
    LET sentences == Sentences
    IN {Question(SentenceText(tokens), tokens \in sentences) :
            tokens \in UNION {sentences, Spoilt, Words(TokenSet, 4)}}

-------------------------------------------------------------------------------
(* Numbers, strings and octets, by definitions that build what is allowed.  *)

DigitRuns == Words(AsciiAmong("01"), 3) \ {<<>>}
Numbers ==
    LET whole == {Ascii("0")} \cup Joined({Ascii("1")}, Words(AsciiAmong("01"), 3))
        fraction == {<<>>} \cup Joined({Ascii(".")}, DigitRuns)
        exponent == {<<>>} \cup Joined({Ascii("e"), Ascii("e-")}, DigitRuns)
    IN Joined(Joined({<<>>, Ascii("-")}, whole), Joined(fraction, exponent))
NumberTasks ==
    LET numbers == Numbers \cup {<<>>}
    IN {Question(InArray(word), word \in numbers) : word \in Words(AsciiAmong("-01.e"), 4)}

Units == {Ascii("a"), Ascii("n"), Ascii("\\\""), Ascii("\\\\"), Ascii("\\n")}
Bodies == {FlattenSeq(w) : w \in Words(Units, 4)}
StringTasks ==
    LET bodies == Bodies
    IN {Question(InString(word), word \in bodies) : word \in Words(AsciiAmong("\\\"an\n"), 4)}

OctetAlphabet == {97, 195, 224, 237, 240, 128, 160}
Characters ==
    {s \in Words(OctetAlphabet, 4) \ {<<>>} :
        /\ Width(s[1]) = Len(s)
        /\ LET code == Decode(s, 1, Len(s)) IN ValidCode(code) /\ Encode(code) = s}
OctetTasks ==
    LET texts == {FlattenSeq(w) : w \in Words(Characters, 3)}
    IN {Question(InString(octets), octets \in texts) :
            octets \in UNION {Words(OctetAlphabet, 3), Joined({<<240>>}, Words(OctetAlphabet, 3))}}

-------------------------------------------------------------------------------
(* What some texts mean.                                                    *)

Str(letters) == StringValue(Ascii(letters))
Only(value) == ArrayValue(<<value>>)
Num(letters) == IntegerValue(Ascii(letters))
Decimal(negative, digits, point) ==
    RealValue([negative |-> negative, digits |-> Ascii(digits), point |-> point])
Object(pairs) == FoldLeft(LAMBDA o, p : ObjectSet(o, Ascii(p[1]), p[2]), NewObject, pairs)

Meanings ==
    {Meaning(InArray(Ascii(p[1])), Only(Num(p[2]))) : p \in {
        <<"0", "0">>, <<"-0", "0">>, <<"-12", "-12">>,
        <<"9223372036854775807", "9223372036854775807">>,
        <<"-9223372036854775808", "-9223372036854775808">> }}
    \cup {Meaning(InArray(Ascii(p[1])), Only(Decimal(p[2], p[3], p[4]))) : p \in {
        <<"0.0", FALSE, "", 0>>, <<"-0e1", TRUE, "", 0>>, <<"10.50", FALSE, "105", 2>>,
        <<"1e5", FALSE, "1", 6>>, <<"1E+16", FALSE, "1", 17>>, <<"12e16", FALSE, "12", 18>>,
        <<"-0.00012", TRUE, "12", -3>>, <<"0.000012", FALSE, "12", -4>>, <<"1e-400", FALSE, "", 0>>,
        <<"1.7976931348623157e308", FALSE, "17976931348623157", 309>> }}
    \cup {Meaning(InString(Ascii(p[1])), Only(StringValue(p[2]))) : p \in {
        <<"\\u0041\\u00e9", <<65, 195, 169>> >>, <<"\\uD83D\\uDE80", <<240, 159, 154, 128>> >>,
        <<"\\u001f\\b\\f\\r\\t\\/", <<31, 8, 12, 13, 9, 47>> >>, <<"\\uffff\\u0800", <<239, 191, 191, 224, 160, 128>> >>,
        <<"", <<>> >> }}
    \cup {Meaning(Ascii("{\"b\": [true, {}], \"a\": {\"f\": null}, \"k\": false}"),
                  Object(<< <<"k", Simple("false")>>, <<"a", Object(<< <<"f", Simple("null")>> >>)>>,
                            <<"b", ArrayValue(<<Simple("true"), NewObject>>)>> >>)),
          Meaning(Ascii("{\"a\":1,\"f\":2,\"a\":3}"), Object(<< <<"f", Num("2")>>, <<"a", Num("3")>> >>))}

NoMeanings ==
    {NotJson(InArray(Ascii(letters))) : letters \in {
        "9223372036854775808", "-9223372036854775809", "1e309", "1.8e308", "\"\\ud83d\"", "\"\\ude80\"",
        "\"\\u0000\"", "\"\\ud83dx\"", "\"\\ud83d\\u0041\"", "\"\\u00\"", "tru", "truefalse", "nulL",
        "\"a\"1", "+1", "'a'" }}
    \cup {NotJson(<<0>>), NotJson(Ascii("[1]]")), NotJson(Ascii("[1")),
          NotJson(Ascii("[") \o <<195, 169>> \o Ascii("]"))}

\* What the library takes for more than RFC 4627 does, and where it stops.
Leftovers ==
    {Open(InString(Ascii(letters)), {}) : letters \in {"\\u00zz", "\\ud8g0\\udcgg", "\\u00-1", "\\ud83d\\u-"}}
    \cup {Open(Ascii("{\"a\":1,\"a\":2}"), {"REJECT_DUPLICATES"}),
          Open(Ascii("[] x"), {"DISABLE_EOF_CHECK"})}

-------------------------------------------------------------------------------
(* Objects that change: their keys share buckets of the table, before and   *)
(* after it grows.                                                          *)

Keys(letters) == {Ascii(letters[i]) : i \in DOMAIN letters}
TableTasks ==
    {JsonTask(Ascii("{\"a\":1,\"f\":2,\"k\":3,\"b\":4}"), "open", Unknown, {},
              Keys(<<"a", "f", "n", "p">>), {Indented, Style(0, {"PRESERVE_ORDER"})}),
     JsonTask(Ascii("{}"), "open", Unknown, {}, Keys(<<"a", "f", "k">>), {Style(0, {"SORT_KEYS"})})}

MCJsonTasks == UNION {GrammarTasks, NumberTasks, StringTasks, OctetTasks, Meanings, NoMeanings,
                      Leftovers, TableTasks}
===============================================================================
