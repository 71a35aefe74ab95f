----------------------------- MODULE StdioServer -----------------------------
(* The front of the MCP gateway (src/src/mcp.ts): listenToStdin cuts what  *)
(* the pipe delivers into lines, handleLine sends each on its way, and the *)
(* handlers, none of which waits for another, write their answers.  How a  *)
(* tools/call is decided is in ToolCallGateway.                            *)
EXTENDS Naturals, Sequences, FiniteSets, SequencesExt

CONSTANTS
    Messages,            \* the lines a client may write: their characters, and
                         \* what the text from each of these on reads as
    Streams,             \* sequences of them
    Modes,               \* "proxy" if there is an upstream, "standalone" if not
    MaxBuffer,           \* MAX_BUFFER_SIZE
    MaxChunk             \* what one read of the pipe returns at most

(* The tail of a line can be JSON, too: if the line is no JSON itself, or  *)
(* begins with blanks.  json says what a text parses to: to null, to any   *)
(* other value ("object"), or not, being blank or "bad".  What has no id   *)
(* is a notification.                                                      *)
ASSUME StdioServerAssumption ==
    /\ Modes \subseteq {"proxy", "standalone"}
    /\ MaxBuffer \in Nat /\ MaxChunk \in 1..MaxBuffer
    /\ Streams \subseteq Seq(Messages)
    /\ \A m \in Messages :
          /\ m.cells \in Seq({"byte", "lead", "trail"})
          /\ \A p \in 1..Len(m.cells) :
                /\ m.reads[p].json \in {"object", "null", "bad", "blank"}
                /\ m.reads[p].version \in BOOLEAN /\ m.reads[p].valid \in BOOLEAN
                /\ m.reads[p].id # {} =>
                      m.reads[p].method \in {"tools/call", "initialize", "tools/list", "other"}

VARIABLES
    mode, stream,        \* chosen once
    sent,                \* how many bytes of the stream were read
    buffer,
    handled,             \* the lines cut off, in order; handleLine is called with
                         \* those that are not blank
    step,                \* of each: "authorizing", "forwarded" or "over"
    forwarded,           \* what was written to the upstream, by place in handled
    replies,             \* what was written to stdout
    resets               \* how many lines were handled when buffer was dropped

chosen == << mode, stream >>
moving == << sent, buffer, handled, step, forwarded, replies, resets >>
vars == << chosen, moving >>

-----------------------------------------------------------------------------
(* Bytes, text and lines *)

(* A byte knows the client's line it is of.  A character that takes two    *)
(* bytes is a "lead" and a "trail".                                        *)
Bytes(i) ==
    LET cells == Append(stream[i].cells, "newline")
    IN  [p \in DOMAIN cells |-> [line |-> i, part |-> p, kind |-> cells[p]]]

Written == FlattenSeq([i \in DOMAIN stream |-> Bytes(i)])

(* chunk.toString: half a character is replaced, for good. *)
Decode(chunk) ==
    [k \in DOMAIN chunk |->
        IF (chunk[k].kind = "lead" /\ k = Len(chunk)) \/ (chunk[k].kind = "trail" /\ k = 1)
          THEN [chunk[k] EXCEPT !.kind = "replaced"]
          ELSE chunk[k]]

Newlines(s) ==
    FlattenSeq([k \in DOMAIN s |-> IF s[k].kind = "newline" THEN << k >> ELSE << >>])

(* The complete lines of a text, the empty ones left out. *)
LinesOf(s) ==
    LET ends == Newlines(s)
        cut  == [k \in DOMAIN ends |->
                    SubSeq(s, IF k = 1 THEN 1 ELSE ends[k - 1] + 1, ends[k] - 1)]
    IN  FlattenSeq([k \in DOMAIN cut |-> IF cut[k] = << >> THEN << >> ELSE << cut[k] >>])

(* What comes after the last of them. *)
RestOf(s) ==
    LET ends == Newlines(s)
    IN  SubSeq(s, IF ends = << >> THEN 1 ELSE Last(ends) + 1, Len(s))

(* The length of a JavaScript string: a character that is whole counts once. *)
Length(s) == Cardinality({k \in DOMAIN s : s[k].kind # "trail"})

(* Mutation of Overflows: what was read before is counted, too. *)
OverflowsInTotal(s) == sent + Length(s) - Length(buffer) > MaxBuffer

(* Mutation of Overflows: the length is looked at before the chunk is appended. *)
OverflowsBefore(s) == Length(buffer) > MaxBuffer

Overflows(s) == Length(s) > MaxBuffer

-----------------------------------------------------------------------------
(* What handleLine makes of a line *)

Source(line) == line[1].line
Message(line) == stream[Source(line)]
Reads(line) == Message(line).reads[line[1].part]
Whole(line) == line[1].part = 1 /\ Len(line) = Len(Message(line).cells)

(* Mutation of RouteNotification: without an upstream it is answered. *)
RouteNotificationAnswered(m) ==
    IF m.method = "notifications/initialized" THEN "ignore"
    ELSE IF mode = "proxy" THEN "notify" ELSE "methodNotFound"

RouteNotification(m) ==
    IF mode = "proxy" /\ m.method # "notifications/initialized" THEN "notify" ELSE "ignore"

(* "tools/list" stands for ping, too. *)
RouteRequest(m) ==
    CASE m.method = "tools/call" -> IF m.valid THEN "authorize" ELSE "invalidParams"
      [] m.method = "initialize" -> "result"
      [] m.method = "tools/list" -> IF mode = "proxy" THEN "forward" ELSE "result"
      [] m.method = "other"      -> IF mode = "proxy" THEN "forward" ELSE "methodNotFound"

(* Of the line "null" req.jsonrpc throws. *)
Route(line) ==
    LET m == Reads(line)
    IN  IF m.json = "blank" THEN "ignore"
        ELSE IF m.json = "bad" THEN "parseError"
        ELSE IF m.json = "null" THEN "internalError"
        ELSE IF ~m.version THEN "invalidRequest"
        ELSE IF m.id = {} THEN RouteNotification(m)
        ELSE RouteRequest(m)

Id(line) ==
    IF Reads(line).json = "object" /\ Reads(line).id # {}
      THEN CHOOSE id \in Reads(line).id : TRUE
      ELSE "null"

Reply(h, id, what) == [of |-> h, id |-> id, what |-> what]

(* Mutation of AnsweredAtOnce: no return after the error of the version. *)
AnsweredAtOnceTwice(h, line) ==
    LET route == Route(line)
    IN  IF route \in {"notify", "ignore", "authorize", "forward", "internalError"} THEN << >>
        ELSE IF route = "invalidRequest" /\ Reads(line).id # {}
          THEN << Reply(h, Id(line), route), Reply(h, Id(line), "result") >>
        ELSE << Reply(h, Id(line), route) >>

(* What is written before handleLine awaits anything. *)
AnsweredAtOnce(h, line) ==
    LET route == Route(line)
    IN  IF route \in {"notify", "ignore", "authorize", "forward", "internalError"}
          THEN << >> ELSE << Reply(h, Id(line), route) >>

(* What the catch of listenToStdin writes in a microtask, after the loop.  *)
AnsweredByCatch(h, line) ==
    IF Route(line) = "internalError" THEN << Reply(h, "null", "internalError") >> ELSE << >>

(* Mutation of FirstStep: something is awaited before a request is forwarded. *)
FirstStepAwaiting(route) ==
    CASE route \in {"authorize", "forward"} -> "authorizing"
      [] OTHER                              -> "over"

(* Where handleLine is when it first awaits something. *)
FirstStep(route) ==
    CASE route = "authorize" -> "authorizing"
      [] route = "forward"   -> "forwarded"
      [] OTHER               -> "over"

(* upstream.send writes before it returns. *)
ForwardedAtOnce(h, line) ==
    IF Route(line) = "notify" \/ FirstStep(Route(line)) = "forwarded" THEN << h >> ELSE << >>

-----------------------------------------------------------------------------
TypeOK ==
    /\ mode \in Modes /\ stream \in Streams
    /\ sent \in 0..Len(Written)
    /\ Length(buffer) <= MaxBuffer
    /\ step \in [DOMAIN handled -> {"authorizing", "forwarded", "over"}]
    /\ Range(forwarded) \subseteq DOMAIN handled
    /\ \A k \in DOMAIN replies : replies[k].of \in DOMAIN handled
    /\ resets \subseteq 0..Len(handled)

Init ==
    /\ mode \in Modes /\ stream \in Streams
    /\ sent = 0
    /\ buffer = << >>
    /\ handled = << >> /\ step = << >>
    /\ forwarded = << >>
    /\ replies = << >>
    /\ resets = {}

(* handleLine is called on each line, one after the other; then the        *)
(* microtasks run.                                                         *)
HandleLines(lines) ==
    LET places == [k \in DOMAIN lines |-> Len(handled) + k]
        each(Op(_, _)) == FlattenSeq([k \in DOMAIN lines |-> Op(places[k], lines[k])])
    IN  /\ handled' = handled \o lines
        /\ step' = step \o [k \in DOMAIN lines |-> FirstStep(Route(lines[k]))]
        /\ replies' = replies \o (each(AnsweredAtOnce) \o each(AnsweredByCatch))
        /\ forwarded' = forwarded \o each(ForwardedAtOnce)

(* Mutation of CutLines: one line for each "data" event. *)
CutLinesOnce(s) ==
    LET ends == Newlines(s)
    IN  IF ends = << >> THEN buffer' = s /\ HandleLines(<< >>)
        ELSE /\ buffer' = SubSeq(s, ends[1] + 1, Len(s))
             /\ HandleLines(IF ends[1] = 1 THEN << >> ELSE << SubSeq(s, 1, ends[1] - 1) >>)

(* The loop over the newlines of the buffer. *)
CutLines(s) ==
    /\ buffer' = RestOf(s)
    /\ HandleLines(LinesOf(s))

(* Mutation of DropBuffer: the latest part is kept. *)
DropBufferPartly(s) ==
    /\ buffer' = SubSeq(s, Len(s) - MaxChunk + 1, Len(s))
    /\ UNCHANGED << handled, step, replies, forwarded, resets >>

DropBuffer(s) ==
    /\ buffer' = << >>
    /\ resets' = resets \cup {Len(handled)}
    /\ UNCHANGED << handled, step, replies, forwarded >>

(* The "data" event with the next n bytes. *)
Data(n) ==
    /\ sent + n <= Len(Written)
    /\ sent' = sent + n
    /\ LET decoded == Decode(SubSeq(Written, sent + 1, sent + n))
       IN  IF Overflows(buffer \o decoded)
             THEN DropBuffer(buffer \o decoded)
             ELSE /\ CutLines(buffer \o decoded)
                  /\ UNCHANGED resets

-----------------------------------------------------------------------------
(* What the handlers await *)

Finish(h, id, what) ==
    /\ step' = [step EXCEPT ![h] = "over"]
    /\ replies' = Append(replies, Reply(h, id, what))

(* In proxy mode a call that is allowed is forwarded. *)
CallAllowed(h) ==
    /\ mode = "proxy"
    /\ step[h] = "authorizing"
    /\ step' = [step EXCEPT ![h] = "forwarded"]
    /\ forwarded' = Append(forwarded, h)
    /\ UNCHANGED << sent, buffer, handled, replies, resets >>

(* The call is refused, or decided on without an upstream. *)
CallAnswered(h) ==
    /\ step[h] = "authorizing"
    /\ Finish(h, Id(handled[h]), "result")
    /\ UNCHANGED << sent, buffer, handled, forwarded, resets >>

(* Mutation of CallRejects: nobody catches what handleLine rejects with. *)
CallRejectsUnseen(h) ==
    /\ step[h] = "authorizing"
    /\ step' = [step EXCEPT ![h] = "over"]
    /\ UNCHANGED << sent, buffer, handled, forwarded, replies, resets >>

(* The policy throws or an audit write fails: the catch of listenToStdin   *)
(* knows no id.                                                            *)
CallRejects(h) ==
    /\ \/ step[h] = "authorizing"
       \/ step[h] = "forwarded" /\ Route(handled[h]) = "authorize"
    /\ Finish(h, "null", "internalError")
    /\ UNCHANGED << sent, buffer, handled, forwarded, resets >>

(* The upstream answers, or send() rejects. *)
UpstreamSettles(h) ==
    /\ step[h] = "forwarded"
    /\ Finish(h, Id(handled[h]), "result")
    /\ UNCHANGED << sent, buffer, handled, forwarded, resets >>

Settles(h) ==
    CallAllowed(h) \/ CallAnswered(h) \/ CallRejects(h) \/ UpstreamSettles(h)

Next ==
    /\ \/ \E n \in 1..MaxChunk : Data(n)
       \/ \E h \in DOMAIN handled : Settles(h)
    /\ UNCHANGED chosen

Spec == Init /\ [][Next]_vars

-----------------------------------------------------------------------------
(* Properties *)

(* A line that is handled is one that the client wrote, from its first     *)
(* byte to its last and after all lines handled before it; only the first  *)
(* one after the buffer was dropped may be the end of a line.              *)
ClientLinesOnly ==
    \A h \in DOMAIN handled :
        /\ Whole(handled[h]) \/ h - 1 \in resets
        /\ h > 1 => Source(handled[h - 1]) < Source(handled[h])

Arrived(i) ==
    \E p \in 1..sent : Written[p].line = i /\ Written[p].kind = "newline"

Lost(i) ==
    /\ stream[i].cells # << >> /\ Arrived(i)
    /\ ~ \E h \in DOMAIN handled : Source(handled[h]) = i /\ Whole(handled[h])

(* The limit is about long lines: a line is lost only with, or after one   *)
(* lost that is, longer than the limit leaves room for beside a chunk.     *)
OnlyLongLinesDrop ==
    \A i \in DOMAIN stream :
        Lost(i) => \E j \in 1..i : Lost(j) /\ Len(stream[j].cells) > MaxBuffer - MaxChunk

(* What asks for no answer: a notification, and nothing at all.            *)
Unasked(text) ==
    text.json = "blank" \/ (text.json = "object" /\ text.version /\ text.id = {})

(* Every line that is over was answered once, with the id of its request   *)
(* or null, and a notification not at all.                                 *)
AnsweredOnce ==
    \A h \in DOMAIN handled :
        LET own == {k \in DOMAIN replies : replies[k].of = h}
        IN  /\ Cardinality(own) = IF step[h] # "over" \/ Unasked(Reads(handled[h])) THEN 0 ELSE 1
            /\ \A k \in own : replies[k].id \in {Id(handled[h]), "null"}

(* What is not held up for a decision reaches the upstream in the order in *)
(* which the client wrote it: cancellations after requests, for one.       *)
OrderKept ==
    \A j, k \in DOMAIN forwarded :
        j < k /\ forwarded[j] > forwarded[k] => Route(handled[forwarded[k]]) = "authorize"

(* README.md:191: LimeKey "intercepts every tools/call". *)
EveryCallIntercepted ==
    \A k \in DOMAIN forwarded :
        LET line == handled[forwarded[k]]
        IN  Reads(line).method = "tools/call" => Route(line) = "authorize"

(* README.md:191: everything else is "piped through transparently". *)
Transparent ==
    \A k \in DOMAIN forwarded :
        \A c \in Range(handled[forwarded[k]]) : c.kind # "replaced"
=============================================================================
