--------------------------- MODULE MCConversions ---------------------------
EXTENDS Conversions

At == <<"@">>
NoUpper == [c \in {} |-> "a"]

Line(n) == [i \in 1 .. n |-> IF i = 2 THEN "\n" ELSE "a"]

TestWords == {<<"a">>, <<"b">>, <<"a", "b">>, <<"b", "a">>}
TestDelims == {<<" ">>, <<"\r", "\n">>}
TestStrings ==
  {<<>>, <<"a">>, <<"a", "b">>, <<"\"">>, <<"a", "\\", "b">>, <<"\\", "\"">>,
   <<"a", "\r", "\n", "\"">>, <<"a", ":", "@">>, <<"[", "a", ":", "]">>,
   <<"a", "\"", " ", "b">>, <<"8bit">>, <<"shy">>, <<"a", "shy", "b">>, <<"wide", "a">>,
   Line(9), Line(10), Line(99), Line(100)}
\* one that fits between quotes and one that does not
TestLongStrings == {[i \in 1 .. n |-> "a"] : n \in {1022, 1023}}
TestKeys == {<<>>, <<"a">>, <<"%", "s">>, <<"a", "$", "1", "b">>}
TestLengths == {0, 1, 300, 32000, 64972}

Key == [kind |-> "key"]
Wide(n) == [kind |-> "wide", width |-> n]
Text(s) == [kind |-> "text", text |-> s]
Back(c) == [kind |-> "group", which |-> c]
Seqs(S, n) == UNION {[1 .. k -> S] : k \in 0 .. n}
TestFilters ==
  Seqs({Key, Wide(1), Wide(12), Text(<<"(">>), Text(<<"%", "%", "s">>), Text(<<"%", "d">>)}, 3)
TestTemplates == Seqs({Back("0"), Back("1"), Back("9"), Text(<<"x">>), Text(<<"$", "x">>)}, 3)
TestHosts ==
  Seqs({" ", "a"}, 4)

\* the code's own first tag, "flim07"
flim07 == <<15, 21, 18, 22, 0, 7>>
=============================================================================
