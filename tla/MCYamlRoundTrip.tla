----------------------------- MODULE MCYamlRoundTrip ----------------------------
(***************************************************************************)
(* The tasks of YamlRoundTrip that TLC is given.                           *)
(***************************************************************************)
EXTENDS YamlRoundTrip

Settings(width, unicode, canonical) ==
    [encoding |-> "any", indent |-> 2, width |-> width, unicode |-> unicode,
     canonical |-> canonical, break |-> <<"\n">>]
Narrow == Settings(5, FALSE, FALSE)
Default == Settings(0, TRUE, FALSE)
Canonical == Settings(-1, TRUE, TRUE)

Codes(text) == [i \in DOMAIN text |-> Code[text[i]]]
Source(text) == EncodedText(Codes(text), "utf-8")

Words(alphabet, n) == UNION {[1..k -> alphabet] : k \in 0..n}

-------------------------------------------------------------------------------
(* Events: all short texts over two alphabets, and longer ones that bring   *)
(* the parts of the grammar together.                                       *)

Short == UNION {Words({"a", " ", "\n", "-", ":", "?"}, 4),
                Words({"a", " ", "\n", "[", "]", "{", "}", ",", ":"}, 3),
                Words({"a", " ", "\n", "\"", "'", "|", ">", "#", "\t", "!", "&", "*"}, 3)}

Lines(letters) == {Chars(letters[i]) : i \in DOMAIN letters}
Long == Lines(<<
    "a: b\nc:\n- d\n- - e\n  - f\n", "? a\n: b\n? [c, d]\n: {e: f, g}\n", "{a: [b, {c: d}], ? e : f}",
    "[a: b, ? c : d, e]", "- &x a\n- *x\n- &y [*x, *y]\n", "--- !t a\n...\n--- |\n a\n\n  b\n",
    "%TAG !e! tag:x,\n--- !e!y\n- !!str a\n- !<u> b\n", "%YAML 1.1\n---\na\n...\n# end\n",
    "|2-\n   a\n  b\n\n", ">\n a b c\n d\n\n e\n", "\"a\\n b\\\n  c\\x41\"", "'it''s\n\n two'",
    "a b c d e f g h i", "- 'a b c d e f'\n- \"a b c  d e f\"\n", "a:\n  b:\n    - c\n  d: e\nf: g\n",
    "!<a> {}\n", "- !a []\n- ! b\n- '- c'\n", "---\n---\n...\na", "|+\n a\n\n---\nb", "a: |\n  b\n c\nd: e",
    "? |\n  a\n: - b\n", "[[a, b], {c: d}]\n", "- \n- a\n-\n", "a:\nb: \n", ">-\n  a\n   b c d\n  e\n" >>)
    \cup {<<"a", "NEL", "b">>, <<"\"", "SNOWMAN", "\"">>, <<"'", "a", "LS", "b", "'">>,
          <<"|", "\n", " ", "a", "PS", " ", "b">>, <<"ROCKET", ":", " ", "b">>}

EventTasks == UNION {
    {Task("events", Source(text), {}, <<>>, Narrow) : text \in UNION {Short, Long}},
    {Task("events", Source(text), {}, <<>>, settings) :
            text \in Long, settings \in {Default, Canonical}},
    {Task("events", Marks[order] \o EncodedText(Codes(text), order), {}, <<>>, Default) :
            text \in Lines(<< "a: b\n", "- 'c'\n" >>) \cup {<<"ROCKET">>},
            order \in {"utf-16le", "utf-16be"}} }

-------------------------------------------------------------------------------
(* Documents: nodes that are shared, nested, or contain themselves.         *)

Documents == Lines(<<
    "&x [*x]", "&x {a: *x}", "- &x a\n- *x\n- *x\n", "- &x [a]\n- &y {*x : *x}\n- *y\n",
    "[&x [], *x, &y {}, *y]", "a\n---\nb\n---\n- c\n", "- !t &x a\n- *x\n", "? &x [a, b]\n: *x\n",
    "&x {? &y [*x] : *y}", "*x", "- &x a\n- &x b\n", "[&x a, [*x, &y b], *y]",
    "%TAG !e! tag:x,\n--- !e!a\n- &x !!str b\n- *x\n", "- ! a\n- !!str 1\n- !!int 2\n- \"c d e f\"\n",
    "--- |\n a\n--- >\n b\n c\n", "", "[a", "{a: [b, c: d]}", "- &x [&y [&z [*x, *y, *z]]]\n" >>)
DocumentTasks ==
    {Task("documents", Source(text), {}, <<>>, settings) :
        text \in Documents, settings \in {Narrow, Default, Canonical}}

-------------------------------------------------------------------------------
(* Objects.                                                                 *)

Strings == {StringObject(text) :
              text \in Lines(<< "", "a", "- b", " c", "d\ne", "f: g", "#", "\n", "a b c d e" >>)
                       \cup {<<"a", "NEL">>, <<"SNOWMAN">>, <<"a", "SNOWMAN">>, <<"ROCKET">>, <<"a", End, "b">>}}
Entry(key, value) == <<StringObject(Chars(key)), value>>
Values ==
    Strings
    \cup {ArrayObject(<<>>), DictionaryObject(<<>>)}
    \cup {ArrayObject(<<s, ArrayObject(<<s>>), s>>) : s \in Strings}
    \cup {DictionaryObject(<<Entry("b", ArrayObject(<<s>>)), Entry("a", s)>>) : s \in Strings}
    \cup {DictionaryObject(<< <<s, s>>, <<StringObject(Chars("k k")), DictionaryObject(<<>>)>> >>) :
            s \in Strings}
ObjectTasks ==
    {Task("objects", <<>>, {}, objects, [Default EXCEPT !.encoding = "utf-8", !.unicode = FALSE]) :
        objects \in {<<v>> : v \in Values}
                    \cup {<<v, ArrayObject(<<v>>)>> : v \in {StringObject(<<"a">>), ArrayObject(<<>>)}}}

-------------------------------------------------------------------------------
(* The reader: all short sequences of octets from an alphabet with leading  *)
(* and trailing octets of every width, and texts in UTF-16.                 *)

OctetSet == {97, 195, 226, 240, 128, 159, 169}
Wide == {s \in Words(OctetSet, 4) : s # <<>> /\ Width(s[1]) = Len(s)}
Candidates == {c \in {Decode(s, 1, Len(s)) : s \in Wide} : ValidCode(c) /\ IsPermitted(c)}

\* The texts that are encoded by these octets, by the definition of Encode.
RECURSIVE TextsOf(_, _)
TextsOf(octets, candidates) ==
    IF octets = <<>> THEN {<<>>}
    ELSE UNION {{<<c>> \o rest : rest \in TextsOf(Drop(octets, Len(Encode(c))), candidates)} :
                    c \in {d \in candidates : Begins(octets, Encode(d))}}

Texts16 == Words({97, 133, 8232, 128640, 65279}, 2)
ReaderTasks == LET candidates == Candidates IN UNION {
    {Task("reader", octets, TextsOf(octets, candidates), <<>>, Default) : octets \in Words(OctetSet, 4)},
    {Task("reader", Marks["utf-8"] \o octets, TextsOf(octets, candidates), <<>>, Default) :
            octets \in Words(OctetSet, 2)},
    {Task("reader", Marks[order] \o EncodedText(text, order), {text}, <<>>, Default) :
            text \in Texts16, order \in {"utf-16le", "utf-16be"}},
    {Task("reader", Marks[order] \o Tail(EncodedText(text, order)), {}, <<>>, Default) :
            text \in Texts16 \ {<<>>}, order \in {"utf-16le", "utf-16be"}} }

MCTasks == UNION {EventTasks, DocumentTasks, ObjectTasks, ReaderTasks}
===============================================================================
