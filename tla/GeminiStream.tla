----------------------------- MODULE GeminiStream -----------------------------
(***************************************************************************)
(* The streaming of a Gemini function call (internal/relay/gemini_stream): *)
(* the upstream sends the arguments as fragments addressed by JSON paths,  *)
(* of one call or of several in turn, and the relay sends each on as a     *)
(* piece of JSON text, without keeping what it has sent.                   *)
(*                                                                         *)
(* Text is a sequence of tokens, a fragment's own text is its number.  A   *)
(* chunk carries one fragment at most; one that is refused ends the stream *)
(* and nothing of it is sent.  Reading the path's notation is not          *)
(* modelled, only which paths it yields.                                   *)
(***************************************************************************)
EXTENDS Naturals, Sequences, SequencesExt

CONSTANTS ArgumentKeys,  \* the names of members
          MaxDepth,      \* bound on the length of a path
          CallIDs,       \* the ids an upstream gives its calls, "" for none
          MaxFragments   \* bound on the fragments of a stream

VARIABLES calls,         \* the calls of a candidate
          current,       \* the call that a chunk without id continues, 0 for none
          fragments,     \* fragments so far
          stream         \* OPEN, DONE, or FAILED with the connection
geminiVars == <<calls, current, fragments, stream>>

\* parseArgumentPath: the steps of a path, the first into the object of arguments.
Member(k) == [key |-> k, index |-> 0, array |-> FALSE]
Element(i) == [key |-> "", index |-> i, array |-> TRUE]
ArgumentPaths ==
    {p \in UNION {[1..n -> {Member(k) : k \in ArgumentKeys} \cup {Element(i) : i \in 0..1}]
                    : n \in 1..MaxDepth} : ~p[1].array}

Token(t) == [t |-> t, key |-> "", n |-> 0]
Named(k) == [Token("key") EXCEPT !.key = k]
Text(t, n) == [Token(t) EXCEPT !.n = n]
Container(at, array) == [at |-> at, array |-> array, count |-> 0, keys |-> {}]

\* A call and the text that was sent of it; "given" are the values that arrived.
NewCall(id, name) ==
    [id |-> id, name |-> name, done |-> FALSE, stack |-> <<>>, stringPath |-> <<>>,
     out |-> <<>>, given |-> <<>>]
Refused == [NewCall("", "") EXCEPT !.id = "REFUSED"]

GeminiInit == calls = <<>> /\ current = 0 /\ fragments = 0 /\ stream = "OPEN"
-----------------------------------------------------------------------------
(* partialJSON *)

SentText(c, tokens) == [c EXCEPT !.out = @ \o tokens]
closeContainer(c) ==
    [SentText(c, <<Token(IF Last(c.stack).array THEN "]" ELSE "}")>>) EXCEPT !.stack = Front(@)]
Opened(c) ==
    IF c.stack # <<>> THEN c
    ELSE [SentText(c, <<Token("{")>>) EXCEPT !.stack = <<Container(Member(""), FALSE)>>]

\* How far the path follows the open containers; the rest of them is closed.
Common(c, path) ==
    LET follows(n) == \A i \in 1..n : c.stack[i + 1].at = path[i]
    IN  CHOOSE n \in 0..(Len(path) - 1) :
           /\ n < Len(c.stack) /\ follows(n)
           /\ n + 1 <= Len(path) - 1 /\ n + 1 < Len(c.stack) => ~follows(n + 1)
\* Mutant: the name of a member is not looked for among those written.
appendableAnyKey(container, part) ==
    container.array = part.array /\ (part.array => part.index = container.count)
\* A container takes its next element, or a member it does not have yet.
appendable(container, part) ==
    /\ container.array = part.array
    /\ IF part.array THEN part.index = container.count ELSE part.key \notin container.keys

\* One step into the path: the separator, the name, and the container it leads to.
Entered(c, path, depth) ==
    LET top == Last(c.stack)
        part == path[depth]
        counted == [top EXCEPT !.count = @ + 1,
                               !.keys = IF part.array THEN @ ELSE @ \cup {part.key}]
        named == SentText(c, (IF top.count > 0 THEN <<Token(",")>> ELSE <<>>)
                         \o (IF part.array THEN <<>> ELSE <<Named(part.key)>>))
        inside == Append(Front(c.stack), counted)
    IN  IF c = Refused \/ ~appendable(top, part) THEN Refused
        ELSE IF depth = Len(path) THEN [named EXCEPT !.stack = inside]
        ELSE [SentText(named, <<Token(IF path[depth + 1].array THEN "[" ELSE "{")>>)
                EXCEPT !.stack = Append(inside, Container(part, path[depth + 1].array))]
startValue(call, path) ==
    LET c == Opened(call)
        common == Common(c, path)
        closed == FoldLeft(LAMBDA acc, i : closeContainer(acc), c,
                           [i \in 1..(Len(c.stack) - common - 1) |-> i])
    IN  FoldLeft(LAMBDA acc, depth : IF acc = Refused THEN acc ELSE Entered(acc, path, depth),
                 closed, [i \in 1..(Len(path) - common) |-> common + i])

Given(c, path, n) == [c EXCEPT !.given = Append(@, [path |-> path, text |-> <<n>>])]
GivenMore(c, n) == [c EXCEPT !.given[Len(c.given)].text = Append(@, n)]
Quoted(c, more, path) ==
    IF more THEN [c EXCEPT !.stringPath = path]
    ELSE [SentText(c, <<Token("quote")>>) EXCEPT !.stringPath = <<>>]

\* append: an open string goes on until it is ended; anything else starts a value.
appendPartial(c, part, n) ==
    LET begun == startValue(c, part.path)
        text == Text("text", n)
    IN  IF c.stringPath # <<>>
        THEN IF \/ part.path # c.stringPath \/ part.kind = "scalar"
                \/ part.kind = "none" /\ part.more
             THEN Refused
             ELSE IF part.kind = "none" THEN Quoted(c, FALSE, part.path)
             ELSE Quoted(GivenMore(SentText(c, <<text>>), n), part.more, part.path)
        ELSE IF part.kind = "none" \/ begun = Refused \/ (part.kind = "scalar" /\ part.more)
        THEN Refused
        ELSE IF part.kind = "string"
        THEN Quoted(Given(SentText(begun, <<Token("quote"), text>>), part.path, n),
                    part.more, part.path)
        ELSE Given(SentText(begun, <<Text("scalar", n)>>), part.path, n)

\* close
Closed(c) ==
    IF c.stringPath # <<>> THEN Refused
    ELSE IF c.stack = <<>> THEN SentText(c, <<Token("{"), Token("}")>>)
    ELSE FoldLeft(LAMBDA acc, i : closeContainer(acc), c, [i \in 1..Len(c.stack) |-> i])
-----------------------------------------------------------------------------
(* geminiCalls, geminiArgumentStream *)

\* The call of a chunk: by its id, or the current one; 0 for a new one.
Addressed(id) ==
    IF id = "" THEN current
    ELSE IF \E i \in DOMAIN calls : calls[i].id = id
         THEN CHOOSE i \in DOMAIN calls : calls[i].id = id ELSE 0
\* A new call has a name, a continued one keeps its own and is not done.
Ambiguous(id, name) ==
    LET i == Addressed(id)
    IN  IF i = 0 THEN name = "" ELSE calls[i].done \/ (name # "" /\ name # calls[i].name)
RefuseChunk == stream' = "FAILED" /\ UNCHANGED <<calls, current>>

CallOf(id, name) == IF Addressed(id) = 0 THEN NewCall(id, name) ELSE calls[Addressed(id)]
\* The call of a chunk is "after" it; the last chunk closes the call.
Chunk(id, name, more, after) ==
    LET i == Addressed(id)
        ended == IF after = Refused \/ more THEN after ELSE Closed(after)
    IN  /\ stream = "OPEN"
        /\ IF Ambiguous(id, name) \/ ended = Refused
           THEN RefuseChunk
           ELSE /\ calls' = IF i = 0 THEN Append(calls, [ended EXCEPT !.done = ~more])
                            ELSE [calls EXCEPT ![i] = [ended EXCEPT !.done = ~more]]
                /\ current' = IF ~more THEN 0 ELSE IF i = 0 THEN Len(calls) + 1 ELSE i
                /\ UNCHANGED stream

\* append with a partial argument, or with none.
AppendPartial(id, name, more, part) ==
    /\ fragments < MaxFragments /\ fragments' = fragments + 1
    /\ Chunk(id, name, more, appendPartial(CallOf(id, name), part, fragments + 1))
AppendNothing(id, name, more) ==
    /\ fragments < MaxFragments /\ fragments' = fragments + 1
    /\ Chunk(id, name, more, CallOf(id, name))
\* append with all arguments at once, which no fragment came before.
AppendArgs(id, name, k) ==
    LET i == Addressed(id)
        call == CallOf(id, name)
        n == fragments + 1
        whole == [Given(SentText(call, <<Token("{"), Named(k), Text("scalar", n), Token("}")>>),
                        <<Member(k)>>, n) EXCEPT !.done = TRUE]
    IN  /\ stream = "OPEN" /\ fragments < MaxFragments /\ fragments' = n
        /\ IF Ambiguous(id, name) \/ call.stack # <<>>
           THEN RefuseChunk
           ELSE /\ calls' = IF i = 0 THEN Append(calls, whole) ELSE [calls EXCEPT ![i] = whole]
                /\ current' = 0 /\ UNCHANGED stream

\* The finish reason, or the end of the stream: no call may be left unfinished.
complete == \A i \in DOMAIN calls : calls[i].done
FinishStream ==
    /\ stream = "OPEN" /\ stream' = IF complete THEN "DONE" ELSE "FAILED"
    /\ UNCHANGED <<calls, current, fragments>>

Partials == [path : ArgumentPaths, kind : {"string", "scalar", "none"}, more : BOOLEAN]
GeminiNext ==
    \/ \E id \in CallIDs, name \in {"", "f"} :
          \/ \E more \in BOOLEAN : \/ AppendNothing(id, name, more)
                                   \/ \E part \in Partials : AppendPartial(id, name, more, part)
          \/ \E k \in ArgumentKeys : AppendArgs(id, name, k)
    \/ FinishStream
-----------------------------------------------------------------------------
(* What a reader of JSON makes of the text. *)

Unread == [state |-> "VALUE", open |-> <<>>, path |-> <<>>, values |-> <<>>]
Awaits(r) == r.state = "VALUE" \/ (r.state = "FIRST" /\ Last(r.open).array)
\* A value in an array is at the next index.
Placed(r) ==
    IF r.open = <<>> \/ ~Last(r.open).array THEN r
    ELSE [r EXCEPT !.path = Append(@, Element(Last(r.open).count)),
                   !.open[Len(r.open)].count = @ + 1]
AfterValue(r) ==
    IF r.open = <<>> THEN [r EXCEPT !.state = "END"]
    ELSE [r EXCEPT !.state = "NEXT", !.path = Front(@)]
Value(r, text) == [r EXCEPT !.values = Append(@, [path |-> r.path, text |-> text])]
Read(r, token) ==
    CASE token.t \in {"{", "["} /\ Awaits(r) ->
            [Placed(r) EXCEPT !.state = "FIRST",
                              !.open = Append(@, Container(Member(""), token.t = "["))]
      [] token.t \in {"}", "]"} /\ r.state \in {"FIRST", "NEXT"}
            /\ Last(r.open).array = (token.t = "]") ->
            AfterValue([r EXCEPT !.open = Front(@)])
      [] token.t = "," /\ r.state = "NEXT" ->
            [r EXCEPT !.state = IF Last(r.open).array THEN "VALUE" ELSE "KEY"]
      [] token.t = "key" /\ (r.state = "KEY" \/ (r.state = "FIRST" /\ ~Last(r.open).array))
            /\ token.key \notin Last(r.open).keys ->
            [r EXCEPT !.state = "VALUE", !.path = Append(@, Member(token.key)),
                      !.open[Len(r.open)].keys = @ \cup {token.key}]
      [] token.t = "scalar" /\ Awaits(r) -> AfterValue(Value(Placed(r), <<token.n>>))
      [] token.t = "quote" /\ Awaits(r) -> [Value(Placed(r), <<>>) EXCEPT !.state = "TEXT"]
      [] token.t = "text" /\ r.state = "TEXT" ->
            [r EXCEPT !.values[Len(r.values)].text = Append(@, token.n)]
      [] token.t = "quote" /\ r.state = "TEXT" -> AfterValue(r)
      [] OTHER -> [r EXCEPT !.state = "BAD"]
Reading(text) == FoldLeft(Read, Unread, text)

\* Whatever the order and the addresses of the fragments, the client reads the
\* arguments the model wrote: the text of a call is at every moment the beginning of
\* one JSON object that holds the fragments accepted so far, each at its path and no
\* name twice; it is that whole object once the call is done; and a stream that ends
\* well has no call that is not.
ArgumentsExact ==
    /\ \A i \in DOMAIN calls :
          LET r == Reading(calls[i].out)
          IN  /\ r.state # "BAD" /\ r.values = calls[i].given
              /\ calls[i].done <=> r.state = "END"
    /\ stream = "DONE" => \A i \in DOMAIN calls : calls[i].done
=============================================================================
