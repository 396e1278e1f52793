------------------------------ MODULE Answers ------------------------------
(***************************************************************************)
(* An answer on its way to a client of the legacy route: the lines of      *)
(* Ollama's stream (providers/ollama.py, generate), and the repair of the  *)
(* JSON they make up (utils/clean_gen_response_from_image.py, app.py).     *)
(* There is one backend: GatewayService says when another one is tried.    *)
(*                                                                         *)
(* Text is a sequence of JSON tokens [kind, parts]: a punctuation mark; a  *)
(* string, with kind "S", "R" if it reads "response", "N" if it holds a    *)
(* raw line break; "1", a number or literal; "fence", a line of backquotes.*)
(* The parts of a string say what of the model's text is in it.            *)
(***************************************************************************)
EXTENDS Integers, SequencesExt

CONSTANTS
    Stream,     \* what backends send: [status, lines, ending]
    MaxAttempts \* of repair_unescaped_quotes

\* A line is [kind, text, done].  "piece" has a response; "error" is an object without
\* one; "blank" is empty; "garbage" is no JSON; "odd" is JSON of another shape.
LineKind == {"piece", "error", "blank", "garbage", "odd"}
Ending   == {"eof", "timeout", "reset", "raised"}

IsStr(tok) == tok.kind \in {"S", "R", "N"}

\* What a text of a backend is made of: only a string has parts.
Token ==
    {tok \in [kind  : {"S", "R", "N", "1", "fence", "{", "}", "[", "]", ",", ":"},
              parts : Seq(Nat)] :
        IsStr(tok) \/ tok.parts = <<>>}

ASSUME AnswersAssumption ==
    /\ MaxAttempts \in Nat \ {0}
    /\ \A s \in Stream :
          /\ s.status \in {"ok", "error"} /\ s.ending \in Ending
          /\ s.lines \in Seq([kind : LineKind, text : Seq(Token), done : BOOLEAN])

VARIABLES
    stream,     \* the backend's side
    next,       \* the line that generate() reads next
    content,    \* full_response
    final,      \* final_chunk: is it that of a done line
    at,         \* where the request is
    reply       \* what the client is sent

vars == <<stream, next, content, final, at, reply>>

-----------------------------------------------------------------------------
(* The repair. *)

Mark(k)     == [kind |-> k, parts |-> <<>>]
Is(t, i, k) == i \in DOMAIN t /\ t[i].kind = k
StrAt(t, i) == i \in DOMAIN t /\ IsStr(t[i])
Parts(t)    == FlattenSeq([i \in DOMAIN t |-> t[i].parts])
Str(t)      == [kind |-> "S", parts |-> Parts(t)]

\* strip_markdown_code_blocks: the first block, if there is one.
StripMarkdownCodeBlocks(t) ==
    LET fences == {i \in DOMAIN t : t[i].kind = "fence"}
        first  == Min(fences)
    IN  IF Cardinality(fences) < 2 THEN t
        ELSE SubSeq(t, first + 1, Min(fences \ {first}) - 1)

\* findall() of token_pattern: numbers, literals and words are not found.
Tokens(t) ==
    FlattenSeq([i \in DOMAIN t |-> IF t[i].kind \in {"1", "fence"} THEN <<>> ELSE <<t[i]>>])

\* "key": "value" at i.
IsPair(t, i) == StrAt(t, i) /\ Is(t, i + 1, ":") /\ StrAt(t, i + 2)

\* A comma at j with a string that is no key.
IsBare(t, j) == Is(t, j, ",") /\ StrAt(t, j + 1) /\ ~Is(t, j + 2, ":")

\* Seeded bug: the string after the last comma is taken whether it is a key or not.
BareEndGreedy(t, j) ==
    j + 2 * Min({k \in 0 .. Len(t) :
                    ~(Is(t, j + 2 * k, ",") /\ StrAt(t, j + 2 * k + 1))})

\* The end of the bare strings that begin at j.
BareEnd(t, j) == j + 2 * Min({k \in 0 .. Len(t) : ~IsBare(t, j + 2 * k)})

\* A value with its bare strings.  json.loads() is strict here: it refuses raw line
\* breaks.
Merged(t) ==
    [Str(t) EXCEPT !.kind = IF \E tok \in ToSet(t) : tok.kind = "N" THEN "refused" ELSE "S"]

\* A turn of the loop of repair_trailing_bare_strings: tokens put out, and the next one.
MergeTurn(t, s) ==
    LET i == s.next
        j == BareEnd(t, i + 3)
    IN  CASE i > Len(t) -> s
          [] i <= Len(t) /\ IsPair(t, i) ->
                [out  |-> s.out \o <<t[i], t[i + 1], Merged(SubSeq(t, i + 2, j - 1))>>,
                 next |-> j]
          [] i <= Len(t) /\ ~IsPair(t, i) -> [out |-> Append(s.out, t[i]), next |-> i + 1]

\* repair_trailing_bare_strings on tokens.
MergeBare(t) ==
    LET turn[n \in 0 .. Len(t)] ==
            IF n = 0 THEN [out |-> <<>>, next |-> 1] ELSE MergeTurn(t, turn[n - 1])
    IN  turn[Len(t)].out

\* json.loads(), token by token: what is wanted next, what is open, what went wrong.
AfterValue(stack) == IF stack = <<>> THEN "end" ELSE "comma"

Parse(s, tok) ==
    LET k           == IF IsStr(tok) THEN "S" ELSE tok.kind
        Wants(w)    == [s EXCEPT !.want = w, !.read = s.read + 1]
        Opens(w)    == [Wants(w) EXCEPT !.stack = <<k>> \o s.stack]
        Closes      == [Wants(AfterValue(Tail(s.stack))) EXCEPT !.stack = Tail(s.stack)]
        Fails       == [s EXCEPT !.error =
                           IF s.want \in {"colon", "comma"} THEN "delimiter" ELSE "other"]
        fine        == s.error = "none"
        value       == fine /\ s.want \in {"value", "value or close"}
        mayClose    == /\ s.want \in {"comma", "key or close", "value or close"}
                       /\ s.stack # <<>>
                       /\ <<Head(s.stack), k>> \in {<<"{", "}">>, <<"[", "]">>}
    IN  CASE ~fine                                                      -> s
          [] value /\ k = "S"                                           -> Wants(AfterValue(s.stack))
          [] value /\ k = "{"                                           -> Opens("key or close")
          [] value /\ k = "["                                           -> Opens("value or close")
          [] fine /\ s.want \in {"key", "key or close"} /\ k = "S"      -> Wants("colon")
          [] fine /\ s.want = "colon" /\ k = ":"                        -> Wants("value")
          [] fine /\ s.want = "comma" /\ k = ","                        ->
                Wants(IF Head(s.stack) = "{" THEN "key" ELSE "value")
          [] fine /\ mayClose                                           -> Closes
          [] OTHER                                                      -> Fails

\* The error and the place of the first token that does not fit.
Loads(t) ==
    LET s[n \in 0 .. Len(t)] ==
            IF n = 0 THEN [want |-> "value", stack |-> <<>>, read |-> 0, error |-> "none"]
            ELSE Parse(s[n - 1], t[n])
        last == s[Len(t)]
    IN  [place |-> last.read + 1,
         error |-> CASE last.error # "none" \/ last.want = "end"                 -> last.error
                     [] last.error = "none" /\ last.want \in {"colon", "comma"}  -> "delimiter"
                     [] OTHER                                                   -> "other"]

\* The string whose closing quote is among the five characters before the error.
Culprits(t, place) == {p \in DOMAIN t : IsStr(t[p]) /\ p < place /\ place <= p + 5}

\* The strings after p.
Following(t, p) == {q \in DOMAIN t : IsStr(t[q]) /\ q > p}

\* Seeded bug: the string between the two quotes is cut out.
JoinLosing(t, p, q) == SubSeq(t, 1, p) \o SubSeq(t, q + 1, Len(t))

\* Two attempts escape the closing quote of p and the opening quote of q.
Join(t, p, q) ==
    SubSeq(t, 1, p - 1) \o <<Str(SubSeq(t, p, q))>> \o SubSeq(t, q + 1, Len(t))

\* How an attempt ends, with so many left, or that it escaped a quote ("again").
Verdict(t, left) ==
    LET e         == Loads(t)
        culprits  == Culprits(t, e.place)
        stuck     == \/ e.error = "other" \/ culprits = {}
                     \/ left > 1 /\ Following(t, Max(culprits)) = {}
        tries     == left > 0 /\ e.error # "none"
    IN  CASE left > 0 /\ ~tries                          -> "returns"
          [] tries /\ stuck                              -> "JSONDecodeError"
          [] left <= 0 \/ (tries /\ ~stuck /\ left = 1)  -> "ValueError"
          [] tries /\ ~stuck /\ left > 1                 -> "again"

\* Two turns of the loop of repair_unescaped_quotes, or the last one.
RepairTurn(s) ==
    LET verdict == Verdict(s.text, s.left)
        p       == Max(Culprits(s.text, Loads(s.text).place))
    IN  IF s.ends # "again" THEN s
        ELSE IF verdict # "again" THEN [s EXCEPT !.ends = verdict]
        ELSE [s EXCEPT !.text = Join(s.text, p, Min(Following(s.text, p))),
                       !.left = s.left - 2]

\* repair_unescaped_quotes: how it ends, and the text it returns then.
RepairUnescapedQuotes(t, attempts) ==
    LET turn[n \in 0 .. attempts] ==
            IF n = 0 THEN [text |-> t, left |-> attempts, ends |-> "again"]
            ELSE RepairTurn(turn[n - 1])
    IN  turn[attempts]

Depth(t, i) ==
    Cardinality({j \in 1 .. i - 1 : t[j].kind \in {"{", "["}})
    - Cardinality({j \in 1 .. i - 1 : t[j].kind \in {"}", "]"}})

\* A key at i.  Two strings read the same if they say the same: of strings run together,
\* what each of them said.
KeyAt(t, i) == StrAt(t, i) /\ Is(t, i + 1, ":")
ReadSame(tok, other) ==
    tok.kind = other.kind /\ (tok.kind = "R" \/ tok.parts = other.parts)

\* The keys k and l, in this order, belong to one object.
OneObject(t, k, l) ==
    k < l /\ Depth(t, l) = Depth(t, k) /\ \A i \in k .. l : Depth(t, i) >= Depth(t, k)

\* The pairs of keys of one object that read the same.
Twins(t) ==
    {pair \in (DOMAIN t) \X (DOMAIN t) :
        /\ KeyAt(t, pair[1]) /\ KeyAt(t, pair[2]) /\ ReadSame(t[pair[1]], t[pair[2]])
        /\ OneObject(t, pair[1], pair[2])}

\* The last token of the value of the key at k.
ValueEnd(t, k) ==
    Min({j \in k + 2 .. Len(t) - 1 :
            Depth(t, j + 1) = Depth(t, k) /\ t[j + 1].kind \in {",", "}"}})

\* The value of the key at l takes the place of that of k, and l is gone.
Overwrite(t, k, l) ==
    SubSeq(t, 1, k + 1) \o SubSeq(t, l + 2, ValueEnd(t, l))
        \o SubSeq(t, ValueEnd(t, k) + 1, l - 2) \o SubSeq(t, ValueEnd(t, l) + 1, Len(t))

\* A turn: the first key that is repeated takes the value of its next occurrence.
OverwriteTurn(t) ==
    LET k == Min({twins[1] : twins \in Twins(t)})
        l == Min({twins[2] : twins \in {pair \in Twins(t) : pair[1] = k}})
    IN  IF Twins(t) = {} THEN t ELSE Overwrite(t, k, l)

\* json.dumps(json.loads(text)): a dict keeps a key where it was first and the value it
\* had last.
Dumps(t) ==
    LET turn[n \in 0 .. Len(t)] == IF n = 0 THEN t ELSE OverwriteTurn(turn[n - 1])
    IN  turn[Len(t)]

\* Seeded bug: any top-level value is taken for the response.
ResponseValuesOfAnyKey(t) ==
    {i \in DOMAIN t : i > 3 /\ Is(t, 1, "{") /\ Depth(t, i - 2) = 1 /\ Is(t, i - 1, ":")}

\* Where the value of a top-level "response" begins; of several the last one counts.
ResponseValues(t) ==
    {i \in DOMAIN t : i > 3 /\ Is(t, 1, "{") /\ Depth(t, i - 2) = 1
                      /\ Is(t, i - 1, ":") /\ Is(t, i - 2, "R")}

\* app.py: the reply for a generated text, of which the merging made this and the repair
\* of the quotes ended so.  The nested string is JSON or not.
RepliesTo(t, merged, repaired) ==
    LET nested   == ResponseValues(repaired.text)
        As(s, x) == [status |-> s, text |-> x]
        plain    == repaired.ends = "JSONDecodeError"
                    \/ \E tok \in ToSet(merged) : tok.kind = "refused"
        json     == ~plain /\ repaired.ends = "returns"
        isStr    == StrAt(repaired.text, Max(nested))
    IN  CASE plain                            -> {As("text", t)}
          [] json /\ nested = {}              -> {As("json", Dumps(repaired.text))}
          [] json /\ nested # {} /\ isStr     ->
                {As("text", t), As("nested", <<repaired.text[Max(nested)]>>)}
          [] json /\ nested # {} /\ ~isStr    -> {As("500", <<>>)}
          [] ~plain /\ ~json                  -> {As("500", <<>>)}

\* app.py: the replies that a generated text may get.
Replies(t) ==
    LET merged == MergeBare(Tokens(StripMarkdownCodeBlocks(t)))
    IN  RepliesTo(t, merged, RepairUnescapedQuotes(merged, MaxAttempts))

-----------------------------------------------------------------------------
(* The stream. *)

Init ==
    /\ stream \in Stream
    /\ next = 1
    /\ content = <<>>
    /\ final = FALSE
    /\ at = "posting"
    /\ reply = [status |-> "none", text |-> <<>>, finish |-> "none"]

Sends(status, text, finish) ==
    /\ reply' = [status |-> status, text |-> text, finish |-> finish]
    /\ at' = "replied"

\* The response's status.
Post ==
    /\ at = "posting"
    /\ IF stream.status = "ok"
       THEN at' = "streaming" /\ UNCHANGED reply
       ELSE Sends("503", <<>>, "none")
    /\ UNCHANGED <<stream, next, content, final>>

Line == stream.lines[next]

\* Seeded bug: whatever line came last is taken for the final chunk.
ChunkIsFinal(line) ==
    /\ final' = TRUE
    /\ at' = IF line.done THEN "generated" ELSE "streaming"

\* chunk.get("done") ends the loop.
Chunk(line) ==
    /\ final' = line.done
    /\ at' = IF line.done THEN "generated" ELSE "streaming"

\* A chunk without a response adds nothing: Ollama's own errors too.
ReadChunk ==
    /\ at = "streaming" /\ next <= Len(stream.lines)
    /\ Line.kind \in {"piece", "error"}
    /\ content' = IF Line.kind = "piece" THEN content \o Line.text ELSE content
    /\ Chunk(Line)
    /\ next' = next + 1
    /\ UNCHANGED <<stream, reply>>

SkipLine ==
    /\ at = "streaming" /\ next <= Len(stream.lines)
    /\ Line.kind \in {"blank", "garbage"}
    /\ next' = next + 1
    /\ UNCHANGED <<stream, content, final, at, reply>>

\* AttributeError of a chunk that is no object, TypeError of a response that is no
\* string: no GatewayError, so the service does not fail over.
ReadOddLine ==
    /\ at = "streaming" /\ next <= Len(stream.lines)
    /\ Line.kind = "odd"
    /\ Sends("500", <<>>, "none")
    /\ UNCHANGED <<stream, next, content, final>>

\* The lines are over, without done: the end of the body, the timeout of the whole
\* call, a lost connection, or an error of the reader that generate() does not expect.
EndOfStream ==
    /\ at = "streaming" /\ next > Len(stream.lines)
    /\ CASE stream.ending = "eof"       -> at' = "generated" /\ UNCHANGED reply
         [] stream.ending = "timeout"   -> Sends("504", <<>>, "none")
         [] stream.ending = "reset"     -> Sends("503", <<>>, "none")
         [] stream.ending = "raised"    -> Sends("500", <<>>, "none")
    /\ UNCHANGED <<stream, next, content, final>>

Finish == IF final THEN "stop" ELSE "unknown"

\* An empty answer is replaced by a sentence.
Text == IF content = <<>> THEN <<Mark("1")>> ELSE content

Reply ==
    /\ at = "generated"
    /\ \E x \in Replies(Text) : Sends(x.status, x.text, Finish)
    /\ UNCHANGED <<stream, next, content, final>>

Done == at = "replied" /\ UNCHANGED vars

Next ==
    \/ Post
    \/ ReadChunk
    \/ SkipLine
    \/ ReadOddLine
    \/ EndOfStream
    \/ Reply
    \/ Done

Spec == Init /\ [][Next]_vars

-----------------------------------------------------------------------------
Delivered == reply.status \in {"json", "nested", "text"}

\* A client can tell an answer that broke off: one delivered with a finish reason was
\* ended by the backend, and has all of its pieces up to there but those that arrived
\* as garbage.
TruncationIsVisible ==
    Delivered /\ reply.finish # "unknown" =>
        /\ \E i \in DOMAIN stream.lines :
              /\ stream.lines[i].done
              /\ next = i + 1
        /\ content = FlattenSeq([i \in 1 .. next - 1 |->
               IF stream.lines[i].kind = "piece" THEN stream.lines[i].text ELSE <<>>])

Block == StripMarkdownCodeBlocks(Text)

\* The block as the two repairs leave it.
Repaired == RepairUnescapedQuotes(MergeBare(Tokens(Block)), MaxAttempts).text

\* What is replied as JSON has every string of the answer, in their order, however the
\* strings were regrouped: numbers and literals may be lost, and of a key that one
\* object has twice the earlier value, but no other text.
StringsSurvive ==
    reply.status = "json" /\ Twins(Repaired) = {} => Parts(reply.text) = Parts(Block)

\* An answer that is JSON of strings alone, without raw line breaks, without a
\* "response" and without a key that one object has twice, is replied as it is: the
\* repairs touch nothing that is whole.
ValidIsKept ==
    reply.finish # "none"
    /\ (\A tok \in ToSet(Block) : tok.kind \notin {"1", "fence", "N", "R"})
    /\ Loads(Block).error = "none"
    /\ Twins(Block) = {}
        => reply.status = "json" /\ [i \in DOMAIN reply.text |-> reply.text[i].parts]
                                    = [i \in DOMAIN Block |-> Block[i].parts]

\* A generated answer is lost to a 500 only if it has a "response" that is no string,
\* or more strings to join than half the attempts.  (Or if it nests about a thousand
\* brackets, for which json.loads() has no stack: the texts here are no such.)
LostOnlyIfHopeless ==
    reply.status = "500" /\ reply.finish # "none" =>
        \/ \E tok \in ToSet(Text) : tok.kind = "R"
        \/ 2 * Cardinality({i \in DOMAIN Text : IsStr(Text[i])}) > MaxAttempts
=============================================================================
