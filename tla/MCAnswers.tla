----------------------------- MODULE MCAnswers -----------------------------
(***************************************************************************)
(* Instances of Answers for TLC.                                           *)
(***************************************************************************)
EXTENDS Answers

\* A text of these kinds of tokens, whose strings are told apart by their places.
Written(kinds) ==
    [i \in DOMAIN kinds |->
        IF kinds[i] \in {"S", "R", "N"}
        THEN [kind |-> kinds[i], parts |-> <<i>>] ELSE Mark(kinds[i])]

\* The same, but that the strings recur after so many places.
Recurring(kinds, period) ==
    [i \in DOMAIN kinds |->
        [Written(kinds)[i] EXCEPT !.parts = IF @ = <<>> THEN @ ELSE <<i % period>>]]

Piece(text, done) == [kind |-> "piece", text |-> text, done |-> done]

\* Any one text that begins like an object, or an array, in a stream of one line.
ShortText ==
    {<<"{", "S", ":">> \o t : t \in BoundedSeq({"S", "N", "1", "{", "}", "[", "]", ",", ":"}, 4)}
    \cup
    {<<"[">> \o t : t \in BoundedSeq({"S", "1", "]", ",", "{", "}"}, 4)}

\* Longer texts: several keys, several bare strings before a key, three strings that run together,
\* nested responses, a block between words, several blocks.
LongText ==
    {<<"{", "S", ":", "S", ",", "S", ",", "S", ",", "S", ":", "S", "}">>,
     <<"{", "S", ":", "S", ",", "S", ":", "[", "S", ",", "S", "]", "}">>,
     <<"{", "S", ":", "S", "S", "S", "}">>,
     <<"{", "S", ":", "S", "S", "S", "S", ",", "S", ":", "S", "}">>,
     <<"{", "R", ":", "S", "}">>,
     <<"{", "R", ":", "S", ",", "S", "}">>,
     <<"{", "R", ":", "[", "S", "]", "}">>,
     <<"{", "R", ":", "1", "}">>,
     <<"{", "S", ":", "{", "R", ":", "[", "]", "}", "}">>,
     <<"{", "R", ":", "S", ",", "R", ":", "{", "}", "}">>,
     <<"S", "fence", "{", "S", ":", "S", "}", "fence", "S">>,
     <<"fence", "{", "S", ":", "S", "}">>,
     <<"fence", "[", "S", "]", "fence", "fence", "[", "]", "fence">>}

\* Keys that recur: in one object twice, thrice, with a value that nests or was merged, in
\* an object within and around another, in two objects of an array.
TwinText ==
    {Recurring(<<"{", "S", ":", "S", ",", "S", ":", "S", "}">>, 4),
     Recurring(<<"{", "S", ":", "S", ",", "S", ":", "S", ",", "S", ":", "S", "}">>, 4),
     Recurring(<<"{", "S", ":", "S", ",", "S", ":", "S", ",", "S", ":", "S", ",",
                 "S", ":", "S", "}">>, 8),
     Recurring(<<"{", "S", ":", "S", ",", "S", ",", "S", ":", "[", "S", "]", "}">>, 6),
     Recurring(<<"{", "S", ":", "{", "S", ":", "S", "}", "}">>, 3),
     Recurring(<<"{", "S", ":", "{", "S", ":", "S", "}", ",", "S", ":", "S", "}">>, 4),
     Recurring(<<"{", "S", ":", "{", "S", ":", "S", ",", "S", ":", "S", "}", ",",
                 "S", ":", "[", "]", "}">>, 4),
     Recurring(<<"[", "{", "S", ":", "S", "}", ",", "{", "S", ":", "S", "}", "]">>, 6),
     Recurring(<<"[", "{", "R", ":", "S", ",", "R", ":", "S", "}", "]">>, 7)}

OneLine ==
    {[status |-> "ok", lines |-> <<Piece(t, TRUE)>>, ending |-> "eof"] :
        t \in TwinText \cup {Written(kinds) : kinds \in ShortText \cup LongText}}

\* Streams of up to three lines.
MCLine ==
    {Piece(<<[kind |-> "S", parts |-> <<1>>]>>, FALSE), Piece(<<Mark("[")>>, FALSE),
     Piece(<<Mark("]")>>, TRUE), Piece(<<>>, TRUE)}
    \cup {[kind |-> k, text |-> <<>>, done |-> FALSE] : k \in LineKind \ {"piece"}}

MCStream ==
    OneLine \cup
    {[status |-> "ok", lines |-> l, ending |-> e] : l \in BoundedSeq(MCLine, 3), e \in Ending}
    \cup {[status |-> "error", lines |-> <<>>, ending |-> "eof"]}
=============================================================================
