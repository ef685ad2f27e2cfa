---------------------------- MODULE RequestParser ----------------------------
(***************************************************************************)
(* The parser of HTTP requests: a state machine that is fed the bytes of a *)
(* connection as they come, and stops at the first that ends a request or  *)
(* cannot belong to one.  Where one buffer ends and the next begins makes  *)
(* no difference to it: parse() keeps nothing but its state and the        *)
(* request between two calls, so a step here is one byte.                  *)
(*                                                                         *)
(* A request that was parsed is handed to the handler, which first decodes *)
(* its URI.                                                                *)
(*                                                                         *)
(* A character stands for its class: "1" for the digits, "P" for letters   *)
(* other than "H" and "T" too, ":" for the special characters, "DEL" for   *)
(* the control characters that are no blank, "high" for bytes from 128.    *)
(* The letters of hexadecimal numbers are as "P" to the parser, and as "1" *)
(* after a "%".                                                            *)
(***************************************************************************)
EXTENDS Naturals, Sequences, SequencesExt

CONSTANTS
    MaxLength,   \* bound: the bytes of an input
    MaxText,     \* bound: the bytes the parser keeps of it
    Kept,        \* bound: the characters tried where the parser keeps one
    KeptInUri    \* bound: those tried in a URI

ASSUME BoundsAssumption == MaxLength \in Nat /\ MaxText \in Nat

VARIABLES
    state_,    \* the state of the parser
    req,       \* the request; its version numbers, which no one reads, are left out
    read,      \* the bytes consumed so far
    result,    \* what consume() returned last
    path       \* the URI decoded: {} when it is not, or cannot be

vars == <<state_, req, read, result, path>>

Digits == {"1"}
Specials == {"/", ":", "SP", "HT"}
Controls == {"CR", "LF", "HT", "DEL"}
Tokens == {"H", "T", "P", ".", "%", "+"} \union Digits
Characters == Tokens \union Specials \union Controls \union {"high"}
Blanks == {"SP", "HT"}

\* What may be in a URI or in the value of a header, where only blanks differ.
Printable == Characters \ Controls

\* A fixed character takes the parser from one state to the next.
Fixed ==
    {<<"http_version_h", "H", "http_version_t_1">>,
     <<"http_version_t_1", "T", "http_version_t_2">>,
     <<"http_version_t_2", "T", "http_version_p">>,
     <<"http_version_p", "P", "http_version_slash">>,
     <<"http_version_slash", "/", "http_version_major_start">>,
     <<"http_version_major", ".", "http_version_minor_start">>,
     <<"http_version_minor", "CR", "expecting_newline_1">>,
     <<"expecting_newline_1", "LF", "header_line_start">>,
     <<"method", "SP", "uri">>,
     <<"uri", "SP", "http_version_h">>,
     <<"header_line_start", "CR", "expecting_newline_3">>,
     <<"header_lws", "CR", "expecting_newline_2">>,
     <<"header_name", ":", "space_before_header_value">>,
     <<"space_before_header_value", "SP", "header_value">>,
     <<"header_value", "CR", "expecting_newline_2">>,
     <<"expecting_newline_2", "LF", "header_line_start">>}

States == {t[1] : t \in Fixed} \union
              {"method_start", "http_version_major_start", "http_version_minor_start",
               "expecting_newline_3"}
Requests == [method : Seq(Characters), uri : Seq(Characters),
             headers : Seq([name : Seq(Characters), value : Seq(Characters)])]

(* The states that add to headers.back() have a header to add to: the code   *)
(* calls it on an empty vector otherwise (request_parser.cpp:208-267).       *)
TypeOK ==
    /\ state_ \in States
    /\ state_ \in {"header_lws", "header_name", "header_value"} => req.headers # <<>>
    /\ req \in Requests
    /\ read \in Seq(Characters)
    /\ result \in {"good", "bad", "indeterminate", "handled"}

Init ==
    /\ state_ = "method_start"
    /\ req = [method |-> <<>>, uri |-> <<>>, headers |-> <<>>]
    /\ read = <<>>
    /\ result = "indeterminate"
    /\ path = {}

-----------------------------------------------------------------------------
(* consume(): the moves of the parser on a character.  With none it is bad. *)

To(s, rq) == {[state |-> s, req |-> rq]}
When(condition, moves) == IF condition THEN moves ELSE {}

\* What a character is added to.
LongerMethod(rq, c) == [rq EXCEPT !.method = Append(@, c)]
LongerUri(rq, c) == [rq EXCEPT !.uri = Append(@, c)]
NewHeader(rq, c) == [rq EXCEPT !.headers = Append(@, [name |-> <<c>>, value |-> <<>>])]
LongerName(rq, c) == [rq EXCEPT !.headers[Len(rq.headers)].name = Append(@, c)]
LongerValue(rq, c) == [rq EXCEPT !.headers[Len(rq.headers)].value = Append(@, c)]

MethodMoves(c) ==
    When(state_ \in {"method_start", "method"} /\ c \in Tokens, To("method", LongerMethod(req, c)))

UriMoves(c) ==
    When(state_ = "uri" /\ c \in Printable \ {"SP"}, To("uri", LongerUri(req, c)))

VersionMoves(c) ==
    When(state_ \in {"http_version_major_start", "http_version_major"} /\ c \in Digits,
         To("http_version_major", req))
    \union
    When(state_ \in {"http_version_minor_start", "http_version_minor"} /\ c \in Digits,
         To("http_version_minor", req))

FixedMoves(c) == UNION {When(t[1] = state_ /\ t[2] = c, To(t[3], req)) : t \in Fixed}

\* Mutant: a blank continues a header that is not there.
LineMovesUnchecked(c) ==
    When(state_ = "header_line_start" /\ c \in Blanks, To("header_lws", req))
    \union
    When(state_ = "header_line_start" /\ c \in Tokens, To("header_name", NewHeader(req, c)))

\* A line continues the last header or begins a new one.
LineMoves(c) ==
    When(state_ = "header_line_start" /\ req.headers # <<>> /\ c \in Blanks,
         To("header_lws", req))
    \union
    When(state_ = "header_line_start" /\ c \in Tokens, To("header_name", NewHeader(req, c)))

\* Mutant: the first character after the blanks of a continued line is lost.
HeaderMovesLosing(c) ==
    When(state_ = "header_lws" /\ c \in Blanks, To("header_lws", req))
    \union
    When(state_ = "header_lws" /\ c \in Printable \ Blanks, To("header_value", req))
    \union
    When(state_ = "header_value" /\ c \in Printable, To("header_value", LongerValue(req, c)))
    \union
    When(state_ = "header_name" /\ c \in Tokens, To("header_name", LongerName(req, c)))

HeaderMoves(c) ==
    When(state_ = "header_lws" /\ c \in Blanks, To("header_lws", req))
    \union
    When(\/ state_ = "header_lws" /\ c \in Printable \ Blanks
         \/ state_ = "header_value" /\ c \in Printable,
         To("header_value", LongerValue(req, c)))
    \union
    When(state_ = "header_name" /\ c \in Tokens, To("header_name", LongerName(req, c)))

Moves(c) ==
    MethodMoves(c) \union UriMoves(c) \union VersionMoves(c) \union FixedMoves(c)
        \union LineMoves(c) \union HeaderMoves(c)

\* The bytes of the fields of a request.
TextLength(rq) ==
    FoldLeft(LAMBDA n, header : n + Len(header.name) + Len(header.value),
             Len(rq.method) + Len(rq.uri), rq.headers)

\* The byte is one of a request.
Advance(c) == \E move \in Moves(c) :
    /\ move.req # req =>
          /\ c \in IF state_ = "uri" THEN KeptInUri ELSE Kept
          /\ TextLength(move.req) =< MaxText
    /\ state_' = move.state
    /\ req' = move.req
    /\ result' = "indeterminate"

\* Mutant: the line feed at the end of the request is not waited for.
CompleteEarly(c) ==
    /\ state_ = "header_line_start" /\ c = "CR"
    /\ result' = "good"
    /\ UNCHANGED <<state_, req>>

\* The line feed that ends the headers.
Complete(c) ==
    /\ state_ = "expecting_newline_3" /\ c = "LF"
    /\ result' = "good"
    /\ UNCHANGED <<state_, req>>

\* No request goes on like this.
Refuse(c) ==
    /\ Moves(c) = {}
    /\ ~(state_ = "expecting_newline_3" /\ c = "LF")
    /\ result' = "bad"
    /\ UNCHANGED <<state_, req>>

Consume(c) ==
    /\ result = "indeterminate"
    /\ Len(read) < MaxLength
    /\ read' = Append(read, c)
    /\ Advance(c) \/ Complete(c) \/ Refuse(c)
    /\ UNCHANGED path

-----------------------------------------------------------------------------
(* url_decode, as the bytes of its result: a character, or the number read   *)
(* after a "%".                                                             *)

\* What is >> hex takes of two characters: a sign is allowed, and one digit is enough.
Number(a, b) ==
    IF a \in Digits THEN {IF b \in Digits THEN <<"%", a, b>> ELSE <<"%", a>>}
    ELSE IF a = "+" /\ b \in Digits THEN {<<"%", "+", b>>}
    ELSE {}

\* Mutant: an escape at the very end is taken for one that is cut off.
DecodedOneShort(w, From, i) ==
    IF i > Len(w) THEN {<<>>}
    ELSE IF w[i] = "%" THEN
        IF i + 2 >= Len(w) THEN {}
        ELSE {<<byte>> \o rest : byte \in Number(w[i + 1], w[i + 2]), rest \in From[i + 3]}
    ELSE {<<IF w[i] = "+" THEN <<"SP">> ELSE <<w[i]>> >> \o rest : rest \in From[i + 1]}

\* What is made of w from its place i on, From being what is made from the later places on.
Decoded(w, From, i) ==
    IF i > Len(w) THEN {<<>>}
    ELSE IF w[i] = "%" THEN
        IF i + 2 > Len(w) THEN {}
        ELSE {<<byte>> \o rest : byte \in Number(w[i + 1], w[i + 2]), rest \in From[i + 3]}
    ELSE {<<IF w[i] = "+" THEN <<"SP">> ELSE <<w[i]>> >> \o rest : rest \in From[i + 1]}

\* {} when it returns false.
UrlDecode(w) == LET From[i \in 1..Len(w) + 3] == Decoded(w, From, i) IN From[1]

\* handle_request begins.
Handle ==
    /\ result = "good"
    /\ result' = "handled"
    /\ path' = UrlDecode(req.uri)
    /\ UNCHANGED <<state_, req, read>>

Next == Handle \/ \E c \in Characters : Consume(c)

Spec == Init /\ [][Next]_vars

-----------------------------------------------------------------------------
(* The grammar of a request, by its lines and not by its characters.        *)

AllIn(w, from, to, S) == \A k \in from..to : w[k] \in S
At(c, w) == {k \in DOMAIN w : w[k] = c}

\* Does the line begin with a method, the space i, a URI and the space j?
SplitsRequest(line, i, j) ==
    /\ 1 < i /\ i < j
    /\ AllIn(line, 1, i - 1, Tokens)
    /\ AllIn(line, i + 1, j - 1, Printable \ {"SP"})

Protocol == <<"H", "T", "T", "P", "/">>

\* Is the rest of the line, after j, the version, with its dot?
SplitsVersion(line, j, dot) ==
    /\ j + 6 < dot /\ dot < Len(line)
    /\ \A k \in 1..5 : line[j + k] = Protocol[k]
    /\ AllIn(line, j + 6, dot - 1, Digits)
    /\ AllIn(line, dot + 1, Len(line), Digits)

IsRequestLine(line) ==
    \E i, j \in At("SP", line), dot \in At(".", line) :
        SplitsRequest(line, i, j) /\ SplitsVersion(line, j, dot)

\* Is the line a header, whose name ends before the colon i?
SplitsHeader(line, i) ==
    /\ 1 < i /\ i < Len(line)
    /\ AllIn(line, 1, i - 1, Tokens)
    /\ line[i + 1] = "SP"
    /\ AllIn(line, i + 2, Len(line), Printable)

IsHeader(line) == \E i \in At(":", line) : SplitsHeader(line, i)

\* A line that continues the header before it: blanks up to i, then a text.
SplitsContinuation(line, i) ==
    /\ AllIn(line, 1, i, Blanks)
    /\ AllIn(line, i + 1, Len(line), Printable)
    /\ i < Len(line) => line[i + 1] \notin Blanks

IsContinuation(line) == \E i \in DOMAIN line : SplitsContinuation(line, i)

\* May the line be the k-th of a request?
IsLine(k, line) ==
    \/ k = 1 /\ IsRequestLine(line)
    \/ k >= 2 /\ IsHeader(line)
    \/ k >= 3 /\ IsContinuation(line)

\* What begins a request line or a header is made one by an end of one.
ARequestLine == <<"P", "SP", "SP", "H", "T", "T", "P", "/", "1", ".", "1">>
AHeader == <<"P", ":", "SP">>
Completed(line, whole) == {line \o SubSeq(whole, k, Len(whole)) : k \in 1..Len(whole) + 1}

\* May what has arrived of the k-th line become that line, or the empty one that is last?
BeginsLine(k, line) ==
    \/ k >= 2 /\ line \in {<<>>, <<"CR">>}
    \/ line # <<>> /\ Last(line) = "CR" /\ IsLine(k, Front(line))
    \/ \E other \in Completed(line, IF k = 1 THEN ARequestLine ELSE AHeader) : IsLine(k, other)

\* The places where lines end, and the end of the k-th, the first beginning after 0.
LineEnds(w) == {i \in DOMAIN w : i > 1 /\ w[i] = "LF" /\ w[i - 1] = "CR"}
LineEnd(w, k) ==
    CHOOSE i \in LineEnds(w) \union {0} : Cardinality({j \in LineEnds(w) : j =< i}) = k

\* The lines of an input, and what has arrived of the next.
Lines(w) ==
    LET n == Cardinality(LineEnds(w))
    IN  [whole |-> [k \in 1..n |-> SubSeq(w, LineEnd(w, k - 1) + 1, LineEnd(w, k) - 2)],
         rest |-> SubSeq(w, LineEnd(w, n) + 1, Len(w))]

AreLines(whole, n) == \A k \in 1..n : IsLine(k, whole[k])

\* The answer due to lines: they are those of a request, up to an empty one.
Answer(lines) ==
    LET n == Len(lines.whole)
    IN  IF n >= 2 /\ AreLines(lines.whole, n - 1) /\ lines.whole[n] = <<>> /\ lines.rest = <<>>
            THEN "good"
        ELSE IF AreLines(lines.whole, n) /\ BeginsLine(n + 1, lines.rest) THEN "indeterminate"
        ELSE "bad"

\* The headers with one line more, a continuation being part of the value before it.
WithLine(headers, line) ==
    IF line[1] \in Blanks
    THEN LET i == CHOOSE i \in DOMAIN line : SplitsContinuation(line, i)
         IN  [headers EXCEPT ![Len(headers)].value = @ \o SubSeq(line, i + 1, Len(line))]
    ELSE LET i == CHOOSE i \in At(":", line) : SplitsHeader(line, i)
         IN  Append(headers, [name |-> SubSeq(line, 1, i - 1),
                              value |-> SubSeq(line, i + 2, Len(line))])

\* The headers of the lines that follow the request line.
HeadersOf(whole) ==
    LET UpTo[k \in 1..Len(whole)] ==
            IF k = 1 THEN <<>> ELSE WithLine(UpTo[k - 1], whole[k])
    IN  UpTo[Len(whole)]

-----------------------------------------------------------------------------
(* "good when a complete request has been parsed, bad if the data is         *)
(* invalid, indeterminate when more data is required"                        *)
(* (request_parser.hpp:34-37): the answer of the parser, after every byte,   *)
(* is that of the grammar, so that a connection neither refuses what would   *)
(* have become a request nor waits for the rest of what cannot.              *)
ResultIsThatOfTheGrammar ==
    \A lines \in {Lines(read)} : result # "handled" => result = Answer(lines)

(* The request handed to the handler is the one that was sent: its method,   *)
(* its URI, and each header with all the lines it was continued on.          *)
RequestIsTheOneSent ==
    result = "good" =>
        LET whole == Lines(read).whole
        IN  /\ IsPrefix(req.method \o <<"SP">> \o req.uri \o <<"SP", "H">>, whole[1])
            /\ req.headers = HeadersOf(Front(whole))

\* The places of a URI that belong to the escape before them, and those that begin a byte.
Escaped(w) == {i + 1 : i \in At("%", w)} \union {i + 2 : i \in At("%", w)}
Starts(w) == DOMAIN w \ Escaped(w)

\* Is every "%" followed by two digits?
IsEncoded(w) == \A i \in Escaped(w) : i \in DOMAIN w /\ w[i] \in Digits

\* The byte that begins at i.
ByteAt(w, i) ==
    CASE w[i] = "%" -> <<"%", w[i + 1], w[i + 2]>>
      [] w[i] = "+" -> <<"SP">>
      [] OTHER -> <<w[i]>>

\* Is the text made of the bytes of the URI, each in its place?
IsTextOf(text, w) ==
    /\ Len(text) = Cardinality(Starts(w))
    /\ \A i \in Starts(w) : text[Cardinality({j \in Starts(w) : j =< i})] = ByteAt(w, i)

(* A URI whose every "%" is followed by two digits is decoded into the text   *)
(* it encodes: a byte for each escape, a space for each "+", and all the     *)
(* others as they are, in their order (request_handler.cpp:65-102).  What an *)
(* escape with something else after its "%" becomes is left to the code.     *)
PathIsTheTextOfTheUri ==
    result = "handled" /\ IsEncoded(req.uri) =>
        \E text \in path : path = {text} /\ IsTextOf(text, req.uri)
=============================================================================
