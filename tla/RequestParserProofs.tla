------------------------ MODULE RequestParserProofs ------------------------
(***************************************************************************)
(* The request parser, for an input of any length.                         *)
(*                                                                         *)
(* Types.  TypeOK is not inductive: after the colon of a header the parser *)
(* adds to none, and the next space leads where it adds to the last one.   *)
(* Typed says that there is one from its name on.                          *)
(*                                                                         *)
(* url_decode.  What is made of a URI is a recursive function of the place *)
(* to begin at, so its places are gone through from the last to the first: *)
(* from a place where a byte begins, what is made is the text of the bytes *)
(* that begin there and later.                                             *)
(*                                                                         *)
(* The grammar.  Its lines are found in the whole input, whose ends of     *)
(* lines are numbered (Numbered); WithCharacter says what they are after   *)
(* one character more.  Shape has, for each state, what has arrived of the *)
(* line.  Three facts make the parser answer as the grammar does:          *)
(*   - a move keeps Shape (MovesRead), and what has it is the start of a   *)
(*     line (LineIsBegun), a template giving the end that makes it one;    *)
(*   - the line feed after the last carriage return completes a request    *)
(*     (CompleteIsGood);                                                   *)
(*   - a character that some request has next is one the parser moves on   *)
(*     (FollowingIsAllowed, AllowedIsMoved), so what it refuses begins no  *)
(*     request (RefusedIsBad).                                             *)
(*                                                                         *)
(* The request.  HasKept has, for each state, what the request has of the  *)
(* line that is arriving, the headers before it being those of the lines   *)
(* before; a move keeps it (MovesKeep).                                    *)
(***************************************************************************)
EXTENDS RequestParser, SequenceTheorems, FiniteSetTheorems, TLAPS

Headers == [name : Seq(Characters), value : Seq(Characters)]

\* The states of a header line: the parser may yet add to the last header.
InHeader == {"header_lws", "header_name", "space_before_header_value", "header_value"}

\* TypeOK is not inductive: after the colon the parser adds to nothing, and will.
Typed == TypeOK /\ (state_ \in InHeader => req.headers # <<>>)

\* What is added to a request leaves one, with a header where a header was added or added to.
LEMMA LongerType ==
    ASSUME NEW rq \in Requests, NEW c \in Characters
    PROVE  /\ LongerMethod(rq, c) \in Requests /\ LongerMethod(rq, c).headers = rq.headers
           /\ LongerUri(rq, c) \in Requests /\ LongerUri(rq, c).headers = rq.headers
           /\ NewHeader(rq, c) \in Requests /\ NewHeader(rq, c).headers # <<>>
           /\ rq.headers # <<>> =>
                  /\ LongerName(rq, c) \in Requests /\ LongerName(rq, c).headers # <<>>
                  /\ LongerValue(rq, c) \in Requests /\ LongerValue(rq, c).headers # <<>>
<1> DEFINE hs == rq.headers
           last == Len(hs)
           With(other) == [rq EXCEPT !.headers = other]
<1>1. /\ rq.method \in Seq(Characters) /\ rq.uri \in Seq(Characters)
      /\ hs \in Seq(Headers)
  BY DEF Requests, Headers
<1>2. ASSUME NEW w \in Seq(Characters) PROVE Append(w, c) \in Seq(Characters)
  BY AppendProperties
<1>3. /\ LongerMethod(rq, c) \in Requests /\ LongerMethod(rq, c).headers = rq.headers
      /\ LongerUri(rq, c) \in Requests /\ LongerUri(rq, c).headers = rq.headers
  BY <1>1, <1>2 DEF Requests, LongerMethod, LongerUri
<1>4. ASSUME NEW other \in Seq(Headers)
      PROVE  With(other) \in Requests /\ With(other).headers = other
  BY <1>4 DEF Requests, Headers
<1>5. NewHeader(rq, c) \in Requests /\ NewHeader(rq, c).headers # <<>>
  <2> DEFINE header == [name |-> <<c>>, value |-> <<>>]
  <2>1. <<c>> \in Seq(Characters) /\ <<>> \in Seq(Characters)
    OBVIOUS
  <2>2. header \in Headers
    BY <2>1 DEF Headers
  <2>3. Append(hs, header) \in Seq(Headers) /\ Append(hs, header) # <<>>
    BY <1>1, <2>2, AppendProperties
  <2>4. NewHeader(rq, c) = With(Append(hs, header))
    BY DEF NewHeader
  <2> QED
    BY <1>4, <2>3, <2>4
<1>6. ASSUME hs # <<>>
      PROVE  /\ LongerName(rq, c) \in Requests /\ LongerName(rq, c).headers # <<>>
             /\ LongerValue(rq, c) \in Requests /\ LongerValue(rq, c).headers # <<>>
  <2> DEFINE longer_name == [hs[last] EXCEPT !.name = Append(@, c)]
             longer_value == [hs[last] EXCEPT !.value = Append(@, c)]
  <2>1. last \in 1..Len(hs) /\ hs[last] \in Headers
    BY <1>1, <1>6, EmptySeq, ElementOfSeq
  <2>2. longer_name \in Headers /\ longer_value \in Headers
    BY <1>2, <2>1 DEF Headers
  <2>3. ASSUME NEW header \in Headers
        PROVE  [hs EXCEPT ![last] = header] \in Seq(Headers) /\ [hs EXCEPT ![last] = header] # <<>>
    BY <1>1, <2>1, ExceptSeq
  <2>4. /\ LongerName(rq, c) = With([hs EXCEPT ![last] = longer_name])
        /\ LongerValue(rq, c) = With([hs EXCEPT ![last] = longer_value])
    BY DEF LongerName, LongerValue
  <2> HIDE DEF longer_name, longer_value, With
  <2> QED
    BY <1>4, <2>2, <2>3, <2>4
<1> QED
  BY <1>3, <1>5, <1>6

-----------------------------------------------------------------------------
(* The moves.                                                               *)

\* The moves of the parser, by what they do.
MethodMove(c, move) ==
    /\ state_ \in {"method_start", "method"} /\ c \in Tokens
    /\ move.state = "method" /\ move.req = LongerMethod(req, c)

UriMove(c, move) ==
    /\ state_ = "uri" /\ c \in Printable \ {"SP"}
    /\ move.state = "uri" /\ move.req = LongerUri(req, c)

MajorMove(c, move) ==
    /\ state_ \in {"http_version_major_start", "http_version_major"} /\ c \in Digits
    /\ move.state = "http_version_major" /\ move.req = req

MinorMove(c, move) ==
    /\ state_ \in {"http_version_minor_start", "http_version_minor"} /\ c \in Digits
    /\ move.state = "http_version_minor" /\ move.req = req

FixedMove(c, move) == <<state_, c, move.state>> \in Fixed /\ move.req = req

BlankMove(c, move) ==
    /\ \/ state_ = "header_line_start" /\ req.headers # <<>>
       \/ state_ = "header_lws"
    /\ c \in Blanks
    /\ move.state = "header_lws" /\ move.req = req

HeaderMove(c, move) ==
    /\ state_ = "header_line_start" /\ c \in Tokens
    /\ move.state = "header_name" /\ move.req = NewHeader(req, c)

NameMove(c, move) ==
    /\ state_ = "header_name" /\ c \in Tokens
    /\ move.state = "header_name" /\ move.req = LongerName(req, c)

ValueMove(c, move) ==
    /\ \/ state_ = "header_lws" /\ c \in Printable \ Blanks
       \/ state_ = "header_value" /\ c \in Printable
    /\ move.state = "header_value" /\ move.req = LongerValue(req, c)

LEMMA MoveCases ==
    ASSUME NEW c, NEW move \in Moves(c)
    PROVE  \/ MethodMove(c, move) \/ UriMove(c, move)
           \/ MajorMove(c, move) \/ MinorMove(c, move)
           \/ FixedMove(c, move)
           \/ BlankMove(c, move) \/ HeaderMove(c, move)
           \/ NameMove(c, move) \/ ValueMove(c, move)
<1>1. CASE move \in MethodMoves(c)
  BY <1>1 DEF MethodMoves, When, To, MethodMove
<1>2. CASE move \in UriMoves(c)
  BY <1>2 DEF UriMoves, When, To, UriMove
<1>3. CASE move \in VersionMoves(c)
  BY <1>3 DEF VersionMoves, When, To, MajorMove, MinorMove
<1>4. CASE move \in FixedMoves(c)
  <2>1. PICK t \in Fixed : move \in When(t[1] = state_ /\ t[2] = c, To(t[3], req))
    BY <1>4 DEF FixedMoves
  <2>2. t = <<t[1], t[2], t[3]>>
    BY <2>1 DEF Fixed
  <2> QED
    BY <2>1, <2>2 DEF When, To, FixedMove
<1>5. CASE move \in LineMoves(c)
  BY <1>5 DEF LineMoves, When, To, BlankMove, HeaderMove
<1>6. CASE move \in HeaderMoves(c)
  BY <1>6 DEF HeaderMoves, When, To, BlankMove, ValueMove, NameMove
<1> QED
  BY <1>1, <1>2, <1>3, <1>4, <1>5, <1>6 DEF Moves

\* A move leads to a state of the parser, and into a header line only if there is a header.
LEMMA MovesType ==
    ASSUME Typed, NEW c \in Characters, NEW move \in Moves(c)
    PROVE  /\ move.state \in States
           /\ move.req \in Requests
           /\ move.state \in InHeader => move.req.headers # <<>>
<1>1. req \in Requests /\ (state_ \in InHeader => req.headers # <<>>)
  BY DEF Typed, TypeOK
<1>2. CASE MethodMove(c, move) \/ UriMove(c, move)
  BY <1>1, <1>2, LongerType DEF MethodMove, UriMove, InHeader, States, Fixed
<1>3. CASE MajorMove(c, move) \/ MinorMove(c, move)
  BY <1>1, <1>3 DEF MajorMove, MinorMove, InHeader, States, Fixed
<1>4. CASE FixedMove(c, move)
  <2>1. move.state \in States
    BY <1>4 DEF FixedMove, States, Fixed
  <2>2. move.state \in InHeader => state_ \in InHeader
    BY <1>4 DEF FixedMove, InHeader, Fixed
  <2> QED
    BY <1>1, <1>4, <2>1, <2>2 DEF FixedMove
<1>5. CASE BlankMove(c, move)
  BY <1>1, <1>5 DEF BlankMove, InHeader, States, Fixed
<1>6. CASE HeaderMove(c, move)
  BY <1>1, <1>6, LongerType DEF HeaderMove, InHeader, States, Fixed
<1>7. CASE NameMove(c, move) \/ ValueMove(c, move)
  BY <1>1, <1>7, LongerType DEF NameMove, ValueMove, InHeader, States, Fixed
<1> QED
  BY <1>2, <1>3, <1>4, <1>5, <1>6, <1>7, MoveCases

LEMMA NextTyped == Typed /\ [Next]_vars => Typed'
<1> SUFFICES ASSUME Typed, [Next]_vars PROVE Typed'
  OBVIOUS
<1>1. ASSUME NEW c \in Characters, Consume(c) PROVE Typed'
  <2>1. read' \in Seq(Characters)
    BY <1>1, AppendProperties DEF Consume, Typed, TypeOK
  <2>2. CASE Advance(c)
    BY <2>1, <2>2, MovesType DEF Advance, Typed, TypeOK, InHeader
  <2>3. CASE Complete(c) \/ Refuse(c)
    BY <2>1, <2>3 DEF Complete, Refuse, Typed, TypeOK
  <2> QED
    BY <1>1, <2>2, <2>3 DEF Consume
<1>2. CASE Handle
  BY <1>2 DEF Handle, Typed, TypeOK
<1>3. CASE UNCHANGED vars
  BY <1>3 DEF vars, Typed, TypeOK
<1> QED
  BY <1>1, <1>2, <1>3 DEF Next

LEMMA InitTyped == Init => Typed
<1>1. <<>> \in Seq(Characters) /\ <<>> \in Seq(Headers)
  BY EmptySeq
<1> QED
  BY <1>1 DEF Init, Typed, TypeOK, Requests, Headers, States, Fixed, InHeader

\* The parser keeps its type, and never adds to a header that is not there (TypeOK).
THEOREM ParserTypeCorrect == Spec => []TypeOK
<1>1. Typed => TypeOK
  BY DEF Typed
<1> QED
  BY <1>1, InitTyped, NextTyped, PTL DEF Spec

-----------------------------------------------------------------------------
(* What is decoded.  url_decode goes through the URI from its start, and    *)
(* what it makes of the rest does not depend on what it made of the start:  *)
(* the definition is a recursion from the end, unrolled here by induction.  *)

\* A set of numbers that is not empty has a least one.
LEMMA LeastNumber ==
    ASSUME NEW S \in SUBSET Nat, S # {}
    PROVE  \E n \in S : \A k \in S : n =< k
<1>1. PICK n \in S : \A k \in S : <<k, n>> \notin OpToRel(<, Nat)
  BY WFMin, NatLessThanWellFounded, Zenon
<1>2. \A k \in S : ~(k < n)
  BY <1>1 DEF OpToRel
<1>3. QED
  BY <1>2

\* What holds of 0, and of every number after one it holds of, holds up to n.
LEMMA UpTo ==
    ASSUME NEW n \in Nat, NEW S, 0 \in S, \A k \in 0..n - 1 : k \in S => k + 1 \in S
    PROVE  \A k \in 0..n : k \in S
<1> DEFINE missing == {k \in 0..n : k \notin S}
<1>1. SUFFICES ASSUME missing # {} PROVE FALSE
  OBVIOUS
<1>2. PICK m \in missing : \A k \in missing : m =< k
  <2>1. missing \in SUBSET Nat
    OBVIOUS
  <2> HIDE DEF missing
  <2> QED
    BY <1>1, <2>1, LeastNumber
<1>3. m \in 1..n
  OBVIOUS
<1>4. m - 1 \in 0..n - 1 /\ m - 1 \notin missing
  BY <1>2, <1>3
<1> QED
  BY <1>3, <1>4


\* url_decode computes every place from the places after it.
LEMMA UrlDecodeIsRecursive ==
    ASSUME NEW w, Len(w) \in Nat
    PROVE  \E f : /\ \A i \in 1..Len(w) + 3 : f[i] = Decoded(w, f, i)
                  /\ UrlDecode(w) = f[1]
<1> DEFINE n == Len(w)
           Unrolled(f, m) == f = [i \in m..n + 3 |-> Decoded(w, f, i)]
           S == {d \in 0..n + 2 : \E f : Unrolled(f, n + 3 - d)}
<1>1. 0 \in S
  <2> DEFINE f == [i \in n + 3..n + 3 |-> {<<>>}]
  <2>1. \A i \in n + 3..n + 3 : Decoded(w, f, i) = {<<>>}
    BY DEF Decoded
  <2>2. Unrolled(f, n + 3)
    <3> HIDE DEF f
    <3>1. f = [i \in n + 3..n + 3 |-> {<<>>}]
      BY DEF f
    <3> QED
      BY <2>1, <3>1
  <2>3. n + 3 - 0 = n + 3 /\ 0 \in 0..n + 2
    OBVIOUS
  <2> HIDE DEF f, Unrolled
  <2> QED
    BY <2>2, <2>3
<1>2. ASSUME NEW d \in 0..n + 1, d \in S PROVE d + 1 \in S
  <2> DEFINE m == n + 3 - d
             l == n + 3 - (d + 1)
  <2>0. m \in 2..n + 3 /\ l = m - 1 /\ l \in 1..n + 2 /\ d + 1 \in 0..n + 2
    OBVIOUS
  <2>1. PICK f : Unrolled(f, m)
    BY <1>2
  <2> HIDE DEF m, l
  <2> DEFINE g == [i \in l..n + 3 |-> IF i = l THEN Decoded(w, f, i) ELSE f[i]]
  <2>2. \A i \in m..n + 3 : g[i] = f[i] /\ f[i] = Decoded(w, f, i)
    <3> TAKE i \in m..n + 3
    <3>1. f[i] = Decoded(w, f, i)
      BY <2>1
    <3>2. i \in l..n + 3 /\ i # l
      BY <2>0
    <3> QED
      BY <3>1, <3>2
  <2>3. \A i \in l..n + 3 : Decoded(w, g, i) = Decoded(w, f, i)
    <3> TAKE i \in l..n + 3
    <3>1. CASE i > n
      BY <3>1 DEF Decoded
    <3>2. CASE ~(i > n)
      <4>1. i + 1 \in m..n + 3 /\ i + 3 \in m..n + 3
        BY <2>0, <3>2
      <4>2. g[i + 1] = f[i + 1] /\ g[i + 3] = f[i + 3]
        BY <2>2, <4>1
      <4> HIDE DEF g
      <4> QED
        BY <3>2, <4>2 DEF Decoded
    <3> QED
      BY <3>1, <3>2
  <2>4. \A i \in l..n + 3 : g[i] = Decoded(w, f, i)
    <3> TAKE i \in l..n + 3
    <3>1. CASE i = l
      BY <3>1
    <3>2. CASE i # l
      <4>1. i \in m..n + 3
        BY <2>0, <3>2
      <4> HIDE DEF g
      <4> QED
        BY <2>2, <4>1
    <3> QED
      BY <3>1, <3>2
  <2>5. Unrolled(g, l)
    <3>1. g = [i \in l..n + 3 |-> g[i]]
      OBVIOUS
    <3> HIDE DEF g
    <3> QED
      BY <2>3, <2>4, <3>1
  <2> HIDE DEF g, Unrolled
  <2> QED
    BY <2>0, <2>5 DEF l
<1>3. n + 2 \in S
  <2>1. n + 2 \in Nat /\ n + 2 \in 0..n + 2 /\ 0..(n + 2) - 1 = 0..n + 1
    OBVIOUS
  <2> HIDE DEF n, S
  <2> QED
    BY <1>1, <1>2, <2>1, UpTo
<1>4. PICK g : Unrolled(g, 1)
  <2>1. n + 3 - (n + 2) = 1
    OBVIOUS
  <2> HIDE DEF Unrolled
  <2> QED
    BY <1>3, <2>1
<1> DEFINE f == CHOOSE From : From = [i \in 1..Len(w) + 3 |-> Decoded(w, From, i)]
<1>5. Unrolled(f, 1)
  BY <1>4
<1>6. UrlDecode(w) = f[1]
  BY DEF UrlDecode
<1>7. \A i \in 1..n + 3 : f[i] = Decoded(w, f, i)
  <2> HIDE DEF f
  <2> QED
    BY <1>5
<1> HIDE DEF f
<1> QED
  BY <1>6, <1>7

\* The places that begin a byte, from i on, and those of them up to j.
Later(w, i) == {k \in Starts(w) : i =< k}
Between(w, i, j) == {k \in Starts(w) : i =< k /\ k =< j}

\* Is t the text of w from i on?
TextFrom(w, i, t) ==
    /\ t \in Seq(Seq(Characters))
    /\ Len(t) = Cardinality(Later(w, i))
    /\ \A j \in Later(w, i) : t[Cardinality(Between(w, i, j))] = ByteAt(w, j)

LEMMA StartsAreFinite ==
    ASSUME NEW w \in Seq(Characters)
    PROVE  /\ Starts(w) \subseteq 1..Len(w) /\ Len(w) \in Nat
           /\ \A i, j : /\ IsFiniteSet(Later(w, i)) /\ IsFiniteSet(Between(w, i, j))
                        /\ Cardinality(Later(w, i)) \in Nat
                        /\ Cardinality(Between(w, i, j)) \in Nat
<1>1. Len(w) \in Nat /\ DOMAIN w = 1..Len(w)
  BY LenProperties
<1>2. Starts(w) \subseteq 1..Len(w) /\ IsFiniteSet(1..Len(w))
  BY <1>1, FS_Interval DEF Starts
<1>3. \A i, j : Later(w, i) \in SUBSET (1..Len(w)) /\ Between(w, i, j) \in SUBSET (1..Len(w))
  BY <1>2 DEF Later, Between
<1> QED
  BY <1>1, <1>2, <1>3, FS_Subset, FS_CardinalityType

\* A sequence with an element put before it.
LEMMA Prefixed ==
    ASSUME NEW S, NEW e \in S, NEW t \in Seq(S)
    PROVE  /\ <<e>> \o t \in Seq(S) /\ Len(<<e>> \o t) = Len(t) + 1 /\ Len(t) \in Nat
           /\ (<<e>> \o t)[1] = e
           /\ \A k \in 1..Len(t) : (<<e>> \o t)[k + 1] = t[k]
<1> DEFINE one == <<e>>
           joined == one \o t
<1>1. one \in Seq(S) /\ Len(one) = 1 /\ one[1] = e /\ Len(t) \in Nat
  OBVIOUS
<1> HIDE DEF one
<1>2. /\ joined \in Seq(S) /\ Len(joined) = 1 + Len(t)
      /\ \A k \in 1..1 + Len(t) : joined[k] = IF k =< 1 THEN one[k] ELSE t[k - 1]
  <2>1. \A i \in 1..Len(one) + Len(t) : joined[i] = IF i =< Len(one) THEN one[i] ELSE t[i - Len(one)]
    BY <1>1, ConcatProperties
  <2>2. joined \in Seq(S) /\ Len(joined) = Len(one) + Len(t)
    BY <1>1, ConcatProperties
  <2> HIDE DEF joined
  <2> QED
    BY <1>1, <2>1, <2>2
<1> HIDE DEF joined
<1>3. joined[1] = e
  BY <1>1, <1>2
<1>4. ASSUME NEW k \in 1..Len(t) PROVE joined[k + 1] = t[k]
  <2>1. k + 1 \in 1..1 + Len(t) /\ ~(k + 1 =< 1) /\ (k + 1) - 1 = k
    BY <1>1
  <2> QED
    BY <1>2, <2>1
<1> QED
  BY <1>1, <1>2, <1>3, <1>4 DEF joined, one

\* A byte before the text from the next place on makes the text from its own place on.
LEMMA OneByteMore ==
    ASSUME NEW w \in Seq(Characters), NEW i \in Starts(w), NEW next \in Nat, i < next,
           Later(w, i) = Later(w, next) \union {i},
           NEW t, TextFrom(w, next, t), ByteAt(w, i) \in Seq(Characters)
    PROVE  TextFrom(w, i, <<ByteAt(w, i)>> \o t)
<1> DEFINE byte == ByteAt(w, i)
           text == <<byte>> \o t
<1>0. i \in Nat /\ i \in Later(w, i) /\ i \notin Later(w, next)
  BY StartsAreFinite DEF Later
<1>1. Cardinality(Later(w, i)) = Cardinality(Later(w, next)) + 1
  BY <1>0, StartsAreFinite, FS_AddElement
<1>2. /\ text \in Seq(Seq(Characters)) /\ Len(text) = Len(t) + 1 /\ Len(t) \in Nat
      /\ text[1] = byte
      /\ \A k \in 1..Len(t) : text[k + 1] = t[k]
  BY Prefixed DEF TextFrom
<1> HIDE DEF text, byte
<1>3. text[Cardinality(Between(w, i, i))] = byte
  <2>1. Between(w, i, i) = {i}
    BY <1>0, StartsAreFinite DEF Between
  <2> QED
    BY <1>2, <2>1, FS_Singleton
<1>4. ASSUME NEW j \in Later(w, next) PROVE text[Cardinality(Between(w, i, j))] = ByteAt(w, j)
  <2>1. j \in Nat /\ next =< j /\ j \in Starts(w)
    BY StartsAreFinite DEF Later
  <2>2. Between(w, i, j) = Between(w, next, j) \union {i}
    <3>1. ASSUME NEW k \in Starts(w), i =< k PROVE k = i \/ next =< k
      BY <3>1 DEF Later
    <3> QED
      BY <1>0, <2>1, <3>1, StartsAreFinite DEF Between
  <2>3. i \notin Between(w, next, j)
    BY <1>0 DEF Between
  <2>4. Cardinality(Between(w, i, j)) = Cardinality(Between(w, next, j)) + 1
    BY <2>2, <2>3, StartsAreFinite, FS_AddElement
  <2>5. Cardinality(Between(w, next, j)) \in 1..Len(t)
    <3>1. j \in Between(w, next, j) /\ Between(w, next, j) \in SUBSET Later(w, next)
      BY <2>1 DEF Between, Later
    <3>2. Cardinality(Between(w, next, j)) =< Cardinality(Later(w, next))
      BY <3>1, StartsAreFinite, FS_Subset
    <3>3. Cardinality(Between(w, next, j)) # 0
      BY <3>1, StartsAreFinite, FS_EmptySet
    <3>4. Len(t) = Cardinality(Later(w, next))
      BY DEF TextFrom
    <3> QED
      BY <3>2, <3>3, <3>4, StartsAreFinite
  <2>6. t[Cardinality(Between(w, next, j))] = ByteAt(w, j)
    BY DEF TextFrom
  <2> QED
    BY <1>2, <2>4, <2>5, <2>6
<1>5. Len(text) = Cardinality(Later(w, i))
  BY <1>1, <1>2 DEF TextFrom
<1>6. \A j \in Later(w, i) : text[Cardinality(Between(w, i, j))] = ByteAt(w, j)
  BY <1>3, <1>4 DEF byte
<1> QED
  BY <1>2, <1>5, <1>6 DEF TextFrom, text, byte

\* Where the next byte begins.
LEMMA NextStart ==
    ASSUME NEW w \in Seq(Characters), IsEncoded(w), NEW i \in Starts(w)
    PROVE  /\ w[i] = "%" => /\ i + 2 =< Len(w) /\ w[i + 1] \in Digits /\ w[i + 2] \in Digits
                            /\ i + 3 \notin Escaped(w)
                            /\ Later(w, i) = Later(w, i + 3) \union {i}
           /\ w[i] # "%" => /\ i + 1 \notin Escaped(w)
                            /\ Later(w, i) = Later(w, i + 1) \union {i}
<1>0. /\ Starts(w) \subseteq 1..Len(w) /\ Len(w) \in Nat /\ DOMAIN w = 1..Len(w)
      /\ i \in 1..Len(w) /\ i \notin Escaped(w)
  BY StartsAreFinite, LenProperties DEF Starts
<1>1. \A k \in Escaped(w) : k \in 1..Len(w) /\ w[k] # "%"
  BY <1>0 DEF IsEncoded, Digits
<1>2. \A k : k \in Escaped(w) <=> \E j \in 1..Len(w) : w[j] = "%" /\ (k = j + 1 \/ k = j + 2)
  BY <1>0 DEF Escaped, At
<1>3. CASE w[i] = "%"
  <2>1. i + 1 \in Escaped(w) /\ i + 2 \in Escaped(w)
    BY <1>0, <1>2, <1>3
  <2>2. i + 2 =< Len(w) /\ w[i + 1] \in Digits /\ w[i + 2] \in Digits
    BY <1>0, <2>1 DEF IsEncoded
  <2>3. i + 3 \notin Escaped(w)
    <3>1. ASSUME NEW j \in 1..Len(w), w[j] = "%", i + 3 = j + 1 \/ i + 3 = j + 2 PROVE FALSE
      <4>1. j = i + 1 \/ j = i + 2
        BY <1>0, <3>1
      <4> QED
        BY <1>1, <2>1, <3>1, <4>1
    <3> QED
      BY <1>2, <3>1
  <2>4. \A k \in Starts(w) : i =< k <=> k = i \/ i + 3 =< k
    <3>1. ASSUME NEW k \in Starts(w), i =< k PROVE k = i \/ i + 3 =< k
      <4>1. k \notin Escaped(w) /\ k \in 1..Len(w)
        BY <1>0 DEF Starts
      <4>2. k # i + 1 /\ k # i + 2
        BY <2>1, <4>1
      <4> QED
        BY <1>0, <3>1, <4>1, <4>2
    <3> QED
      BY <1>0, <3>1
  <2>5. Later(w, i) = Later(w, i + 3) \union {i}
    BY <2>4 DEF Later
  <2> QED
    BY <1>3, <2>2, <2>3, <2>5
<1>4. CASE w[i] # "%"
  <2>1. i + 1 \notin Escaped(w)
    <3>1. ASSUME NEW j \in 1..Len(w), w[j] = "%", i + 1 = j + 1 \/ i + 1 = j + 2 PROVE FALSE
      <4>1. j = i \/ i = j + 1
        BY <1>0, <3>1
      <4>2. i = j + 1
        BY <1>4, <3>1, <4>1
      <4> QED
        BY <1>0, <1>2, <3>1, <4>2
    <3> QED
      BY <1>2, <3>1
  <2>2. \A k \in Starts(w) : i =< k <=> k = i \/ i + 1 =< k
    BY <1>0
  <2>3. Later(w, i) = Later(w, i + 1) \union {i}
    BY <2>2 DEF Later
  <2> QED
    BY <1>4, <2>1, <2>3
<1> QED
  BY <1>3, <1>4

\* From every place that begins a byte, the text is decoded.
LEMMA DecodedFromEverywhere ==
    ASSUME NEW w \in Seq(Characters), IsEncoded(w),
           NEW f, \A i \in 1..Len(w) + 3 : f[i] = Decoded(w, f, i)
    PROVE  \A i \in 1..Len(w) + 1 :
               i \notin Escaped(w) => \E t : f[i] = {t} /\ TextFrom(w, i, t)
<1> DEFINE n == Len(w)
           Good(i) == i \notin Escaped(w) => \E t : f[i] = {t} /\ TextFrom(w, i, t)
           S == {d \in 0..n : \A i \in n + 1 - d..n + 3 : Good(i)}
<1>0. n \in Nat /\ DOMAIN w = 1..n /\ Starts(w) \subseteq 1..n
  BY StartsAreFinite, LenProperties
<1>1. ASSUME NEW i \in n + 1..n + 3 PROVE Good(i)
  <2>1. f[i] = {<<>>}
    <3>1. f[i] = Decoded(w, f, i) /\ i > Len(w)
      BY <1>0
    <3> QED
      BY <3>1 DEF Decoded
  <2>2. Later(w, i) = {}
    BY <1>0 DEF Later
  <2>3. TextFrom(w, i, <<>>)
    <3>1. <<>> \in Seq(Seq(Characters)) /\ Len(<<>>) = 0
      BY EmptySeq
    <3> QED
      BY <2>2, <3>1, FS_EmptySet DEF TextFrom
  <2> QED
    BY <2>1, <2>3
<1>2. 0 \in S
  <2>1. 0 \in 0..n /\ n + 1 - 0 = n + 1
    BY <1>0
  <2> HIDE DEF Good
  <2> QED
    BY <1>1, <2>1
<1>3. ASSUME NEW d \in 0..n - 1, d \in S PROVE d + 1 \in S
  <2> DEFINE i == n + 1 - (d + 1)
  <2>1. d + 1 \in 0..n /\ i \in 1..n /\ n + 1 - d = i + 1
    BY <1>0
  <2>2. \A k \in i + 1..n + 3 : Good(k)
    BY <1>3, <2>1
  <2> HIDE DEF i
  <2>3. ASSUME i \notin Escaped(w) PROVE \E t : f[i] = {t} /\ TextFrom(w, i, t)
    <3>1. i \in Starts(w) /\ i \in 1..Len(w) /\ w[i] \in Characters
      BY <1>0, <2>1, <2>3, ElementOfSeq DEF Starts
    <3>2. CASE w[i] = "%"
      <4> DEFINE byte == <<"%", w[i + 1], w[i + 2]>>
      <4>1. /\ i + 2 =< n /\ w[i + 1] \in Digits /\ w[i + 2] \in Digits
            /\ i + 3 \notin Escaped(w) /\ Later(w, i) = Later(w, i + 3) \union {i}
        BY <3>1, <3>2, NextStart
      <4>2. PICK t : f[i + 3] = {t} /\ TextFrom(w, i + 3, t)
        <5>1. i + 3 \in i + 1..n + 3
          BY <1>0, <2>1
        <5> QED
          BY <2>2, <4>1, <5>1
      <4>3. Number(w[i + 1], w[i + 2]) = {byte}
        BY <4>1 DEF Number
      <4>4. f[i] = {<<byte>> \o t}
        <5>1. f[i] = Decoded(w, f, i) /\ ~(i > Len(w)) /\ ~(i + 2 > Len(w))
          BY <1>0, <2>1, <4>1
        <5>2. f[i] = {<<b>> \o rest : b \in {byte}, rest \in {t}}
          BY <3>2, <4>2, <4>3, <5>1 DEF Decoded
        <5> HIDE DEF byte
        <5> QED
          BY <5>2
      <4>5. ByteAt(w, i) = byte /\ byte \in Seq(Characters)
        <5>1. ByteAt(w, i) = byte
          BY <3>2 DEF ByteAt
        <5>2. "%" \in Characters /\ w[i + 1] \in Characters /\ w[i + 2] \in Characters
          BY <4>1 DEF Characters, Tokens
        <5> QED
          BY <5>1, <5>2
      <4> HIDE DEF byte
      <4>6. TextFrom(w, i, <<byte>> \o t)
        <5>1. i + 3 \in Nat /\ i < i + 3
          BY <1>0, <2>1
        <5> QED
          BY <3>1, <4>1, <4>2, <4>5, <5>1, OneByteMore
      <4> QED
        BY <4>4, <4>6
    <3>3. CASE w[i] # "%"
      <4> DEFINE byte == IF w[i] = "+" THEN <<"SP">> ELSE <<w[i]>>
      <4>1. i + 1 \notin Escaped(w) /\ Later(w, i) = Later(w, i + 1) \union {i}
        BY <3>1, <3>3, NextStart
      <4>2. PICK t : f[i + 1] = {t} /\ TextFrom(w, i + 1, t)
        <5>1. i + 1 \in i + 1..n + 3
          BY <1>0, <2>1
        <5> QED
          BY <2>2, <4>1, <5>1
      <4>3. f[i] = {<<byte>> \o t}
        <5>1. f[i] = Decoded(w, f, i) /\ ~(i > Len(w))
          BY <1>0, <2>1
        <5>2. f[i] = {<<byte>> \o rest : rest \in {t}}
          BY <3>3, <4>2, <5>1 DEF Decoded
        <5> HIDE DEF byte
        <5> QED
          BY <5>2
      <4>4. ByteAt(w, i) = byte /\ byte \in Seq(Characters)
        <5>1. ByteAt(w, i) = byte
          BY <3>3 DEF ByteAt
        <5>2. "SP" \in Characters
          BY DEF Characters, Specials
        <5> QED
          BY <3>1, <5>1, <5>2
      <4> HIDE DEF byte
      <4>5. TextFrom(w, i, <<byte>> \o t)
        <5>1. i + 1 \in Nat /\ i < i + 1
          BY <1>0, <2>1
        <5> QED
          BY <3>1, <4>1, <4>2, <4>4, <5>1, OneByteMore
      <4> QED
        BY <4>3, <4>5
    <3> QED
      BY <3>2, <3>3
  <2>4. \A k \in i..n + 3 : Good(k)
    <3> TAKE k \in i..n + 3
    <3>1. CASE k = i
      BY <2>3, <3>1
    <3>2. CASE k # i
      <4>1. k \in i + 1..n + 3
        BY <1>0, <2>1, <3>2
      <4> HIDE DEF Good
      <4> QED
        BY <2>2, <4>1
    <3> QED
      BY <3>1, <3>2
  <2> HIDE DEF Good
  <2> QED
    BY <2>1, <2>4 DEF i
<1>4. n \in S
  <2>1. n \in 0..n
    BY <1>0
  <2> HIDE DEF S, n
  <2> QED
    BY <1>0, <1>2, <1>3, <2>1, UpTo
<1>5. n + 1 - n = 1 /\ \A i \in 1..n + 1 : i \in 1..n + 3
  BY <1>0
<1> HIDE DEF Good
<1>6. \A i \in 1..n + 1 : Good(i)
  BY <1>4, <1>5
<1> QED
  BY <1>6 DEF Good

\* An encoded URI is decoded into the text it encodes.
LEMMA TextIsDecoded ==
    ASSUME NEW w \in Seq(Characters), IsEncoded(w)
    PROVE  \E text \in UrlDecode(w) : UrlDecode(w) = {text} /\ IsTextOf(text, w)
<1>0. Len(w) \in Nat /\ DOMAIN w = 1..Len(w) /\ Starts(w) \subseteq 1..Len(w)
  BY StartsAreFinite, LenProperties
<1>1. PICK f : /\ \A i \in 1..Len(w) + 3 : f[i] = Decoded(w, f, i)
               /\ UrlDecode(w) = f[1]
  BY <1>0, UrlDecodeIsRecursive
<1>2. 1 \in 1..Len(w) + 1 /\ 1 \notin Escaped(w)
  BY <1>0 DEF Escaped, At
<1>3. PICK t : f[1] = {t} /\ TextFrom(w, 1, t)
  BY <1>1, <1>2, DecodedFromEverywhere
<1>4. /\ Later(w, 1) = Starts(w)
      /\ \A i \in Starts(w) : Between(w, 1, i) = {j \in Starts(w) : j =< i}
  BY <1>0 DEF Later, Between
<1>5. IsTextOf(t, w)
  BY <1>3, <1>4 DEF TextFrom, IsTextOf
<1> QED
  BY <1>1, <1>3, <1>5

\* The handler has before it what url_decode makes of the URI it was given; when that is
\* encoded as it should be, it is the text it encodes (PathIsTheTextOfTheUri).
THEOREM UrisAreDecoded == Spec => []PathIsTheTextOfTheUri
<1> DEFINE Handled == result = "handled" => path = UrlDecode(req.uri)
<1>1. Init => Handled
  BY DEF Init
<1>2. Handled /\ [Next]_vars => Handled'
  <2> SUFFICES ASSUME Handled, [Next]_vars, result' = "handled"
               PROVE  path' = UrlDecode(req.uri')
    OBVIOUS
  <2>1. CASE Handle
    BY <2>1 DEF Handle
  <2>2. CASE \E c \in Characters : Consume(c)
    BY <2>2 DEF Consume, Advance, Complete, Refuse
  <2>3. CASE UNCHANGED vars
    BY <2>3 DEF vars
  <2> QED
    BY <2>1, <2>2, <2>3 DEF Next
<1>3. Typed /\ Handled => PathIsTheTextOfTheUri
  <2> SUFFICES ASSUME Typed, Handled, result = "handled", IsEncoded(req.uri)
               PROVE  \E text \in path : path = {text} /\ IsTextOf(text, req.uri)
    BY DEF PathIsTheTextOfTheUri
  <2>1. req.uri \in Seq(Characters)
    BY DEF Typed, TypeOK, Requests
  <2> QED
    BY <2>1, TextIsDecoded
<1> QED
  BY <1>1, <1>2, <1>3, InitTyped, NextTyped, PTL DEF Spec

-----------------------------------------------------------------------------
(* The lines of an input, one character later.                              *)

\* The lines with one character more: a line feed after a carriage return ends the last.
WithCharacter(lines, c) ==
    IF lines.rest # <<>> /\ lines.rest[Len(lines.rest)] = "CR" /\ c = "LF"
    THEN [whole |-> Append(lines.whole, Front(lines.rest)), rest |-> <<>>]
    ELSE [whole |-> lines.whole, rest |-> Append(lines.rest, c)]

\* The number of the lines that have ended at i.
Ended(w, i) == Cardinality({j \in LineEnds(w) : j =< i})

\* Every line has an end, which is that of no other.
Numbered(w) == \A k \in 0..Cardinality(LineEnds(w)) : \E i \in LineEnds(w) \union {0} : Ended(w, i) = k

LEMMA LineEndsAreFinite ==
    ASSUME NEW w \in Seq(Characters)
    PROVE  /\ LineEnds(w) \subseteq 2..Len(w) /\ Len(w) \in Nat
           /\ IsFiniteSet(LineEnds(w)) /\ Cardinality(LineEnds(w)) \in Nat
           /\ \A i : /\ IsFiniteSet({j \in LineEnds(w) : j =< i})
                     /\ Ended(w, i) \in Nat /\ Ended(w, i) =< Cardinality(LineEnds(w))
           /\ Ended(w, 0) = 0 /\ Ended(w, Len(w)) = Cardinality(LineEnds(w))
<1>1. LineEnds(w) \subseteq 2..Len(w) /\ Len(w) \in Nat
  BY LenProperties DEF LineEnds
<1>2. IsFiniteSet(LineEnds(w)) /\ Cardinality(LineEnds(w)) \in Nat
  <2>1. IsFiniteSet(2..Len(w))
    BY <1>1, FS_Interval
  <2> QED
    BY <1>1, <2>1, FS_Subset, FS_CardinalityType
<1>3. ASSUME NEW i
      PROVE  /\ IsFiniteSet({j \in LineEnds(w) : j =< i})
             /\ Ended(w, i) \in Nat /\ Ended(w, i) =< Cardinality(LineEnds(w))
  <2>1. {j \in LineEnds(w) : j =< i} \in SUBSET LineEnds(w)
    OBVIOUS
  <2> QED
    BY <1>2, <2>1, FS_Subset, FS_CardinalityType DEF Ended
<1>4. Ended(w, 0) = 0 /\ Ended(w, Len(w)) = Cardinality(LineEnds(w))
  <2>1. {j \in LineEnds(w) : j =< 0} = {} /\ {j \in LineEnds(w) : j =< Len(w)} = LineEnds(w)
    BY <1>1
  <2> QED
    BY <2>1, FS_EmptySet DEF Ended
<1> QED
  BY <1>1, <1>2, <1>3, <1>4

\* Ends that have as many lines before them are the same.
LEMMA EndsAreToldApart ==
    ASSUME NEW w \in Seq(Characters),
           NEW i \in LineEnds(w) \union {0}, NEW j \in LineEnds(w) \union {0}, Ended(w, i) = Ended(w, j)
    PROVE  i = j
<1>1. ASSUME NEW a \in LineEnds(w) \union {0}, NEW b \in LineEnds(w), a < b PROVE Ended(w, a) < Ended(w, b)
  <2> DEFINE A == {k \in LineEnds(w) : k =< a}
             B == {k \in LineEnds(w) : k =< b}
  <2>1. A \in SUBSET B /\ b \in B /\ b \notin A
    BY <1>1, LineEndsAreFinite
  <2>2. IsFiniteSet(A) /\ IsFiniteSet(B)
    BY LineEndsAreFinite
  <2>3. Cardinality(A) =< Cardinality(B) /\ (Cardinality(A) = Cardinality(B) => A = B)
    <3> HIDE DEF A, B
    <3> QED
      BY <2>1, <2>2, FS_Subset
  <2>4. Cardinality(A) \in Nat /\ Cardinality(B) \in Nat /\ Cardinality(A) # Cardinality(B)
    BY <2>1, <2>2, <2>3, FS_CardinalityType
  <2> QED
    BY <2>3, <2>4 DEF Ended
<1>2. i \in Nat /\ j \in Nat
  BY LineEndsAreFinite
<1>3. Ended(w, i) \in Nat /\ Ended(w, j) \in Nat
  BY LineEndsAreFinite
<1>4. ~(i < j) /\ ~(j < i)
  <2>1. ~(Ended(w, i) < Ended(w, j)) /\ ~(Ended(w, j) < Ended(w, i))
    BY <1>3
  <2>2. i < j => j \in LineEnds(w)
    BY <1>2
  <2>3. j < i => i \in LineEnds(w)
    BY <1>2
  <2> QED
    BY <1>1, <2>1, <2>2, <2>3
<1> QED
  BY <1>2, <1>4

\* The end of a line is the one that as many lines have ended at.
LEMMA EndOfLine ==
    ASSUME NEW w \in Seq(Characters),
           NEW i \in LineEnds(w) \union {0}
    PROVE  LineEnd(w, Ended(w, i)) = i
<1>1. \A k \in LineEnds(w) \union {0} : Ended(w, k) = Ended(w, i) => k = i
  BY EndsAreToldApart
<1> QED
  BY <1>1 DEF LineEnd, Ended

\* A carriage return that a line feed follows ends a line.
LEMMA EndsAfter ==
    ASSUME NEW w \in Seq(Characters), NEW c \in Characters
    PROVE  /\ Append(w, c) \in Seq(Characters)
           /\ Len(Append(w, c)) = Len(w) + 1 /\ Len(w) \in Nat
           /\ \A i \in 1..Len(w) : Append(w, c)[i] = w[i]
           /\ LineEnds(Append(w, c)) =
                  IF w # <<>> /\ w[Len(w)] = "CR" /\ c = "LF"
                  THEN LineEnds(w) \union {Len(w) + 1} ELSE LineEnds(w)
<1> DEFINE v == Append(w, c)
           l == Len(w)
<1>1. /\ v \in Seq(Characters) /\ Len(v) = l + 1 /\ l \in Nat
      /\ DOMAIN v = 1..l + 1 /\ DOMAIN w = 1..l
      /\ v[l + 1] = c /\ \A i \in 1..l : v[i] = w[i]
  BY AppendProperties, LenProperties
<1>2. w # <<>> <=> l > 0
  BY EmptySeq
<1> HIDE DEF v, l
<1>3. \A i : i \in LineEnds(v) <=>
          i \in LineEnds(w) \/ (i = l + 1 /\ i > 1 /\ c = "LF" /\ w[l] = "CR")
  <2>1. ASSUME NEW i \in 1..l PROVE i \in LineEnds(v) <=> i \in LineEnds(w)
    BY <1>1 DEF LineEnds
  <2>2. l + 1 \in LineEnds(v) <=> l > 0 /\ c = "LF" /\ w[l] = "CR"
    BY <1>1 DEF LineEnds
  <2>3. l + 1 \notin LineEnds(w) /\ \A i : i \in LineEnds(v) => i \in 1..l + 1
    BY <1>1 DEF LineEnds
  <2>4. \A i : i \in LineEnds(w) => i \in 1..l
    BY <1>1 DEF LineEnds
  <2> QED
    BY <1>1, <2>1, <2>2, <2>3, <2>4
<1> DEFINE ends == IF w # <<>> /\ w[l] = "CR" /\ c = "LF" THEN LineEnds(w) \union {l + 1}
                   ELSE LineEnds(w)
<1>4. \A i : i \in ends <=> i \in LineEnds(w) \/ (i = l + 1 /\ w # <<>> /\ w[l] = "CR" /\ c = "LF")
  OBVIOUS
<1>5. \A i : i \in LineEnds(v) <=> i \in ends
  BY <1>1, <1>2, <1>3, <1>4
<1> HIDE DEF ends
<1>6. LineEnds(v) = ends
  BY <1>5
<1> QED
  BY <1>1, <1>6 DEF v, l, ends

\* Lines with a character more.
LEMMA LinesAfter ==
    ASSUME NEW w \in Seq(Characters), NEW c \in Characters, Numbered(w)
    PROVE  /\ Numbered(Append(w, c))
           /\ Lines(Append(w, c)) = WithCharacter(Lines(w), c)
           /\ Lines(w).whole \in Seq(Seq(Characters)) /\ Lines(w).rest \in Seq(Characters)
<1> DEFINE v == Append(w, c)
           l == Len(w)
           n == Cardinality(LineEnds(w))
           E == LineEnds(w)
           last == LineEnd(w, n)
<1>1. /\ v \in Seq(Characters) /\ Len(v) = l + 1 /\ l \in Nat
      /\ v[l + 1] = c /\ \A i \in 1..l : v[i] = w[i]
  BY EndsAfter, AppendProperties
<1>2. /\ E \subseteq 2..l /\ IsFiniteSet(E) /\ n \in Nat
      /\ DOMAIN w = 1..l /\ (w # <<>> <=> l > 0)
  BY LineEndsAreFinite, EmptySeq, LenProperties
<1>3. ASSUME NEW k \in 0..n PROVE LineEnd(w, k) \in E \union {0} /\ Ended(w, LineEnd(w, k)) = k
  <2>1. PICK i \in E \union {0} : Ended(w, i) = k
    BY DEF Numbered
  <2> QED
    BY <2>1, EndOfLine
<1>4. last \in 0..l /\ (l > 0 /\ w[l] = "CR" => last < l)
  <2>1. l \notin E \/ w[l] # "CR"
    BY DEF LineEnds
  <2> QED
    BY <1>2, <1>3, <2>1
<1>5. \A i \in 1..l : w[i] \in Characters
  BY <1>1, ElementOfSeq
<1>6. \A k \in 0..n : LineEnd(w, k) \in 0..l
  BY <1>2, <1>3
<1> DEFINE rest == SubSeq(w, last + 1, l)
<1>7. /\ rest \in Seq(Characters) /\ Len(rest) = l - last
      /\ \A k \in 1..l - last : rest[k] = w[last + k]
  <2>1. last + 1 \in Int /\ l \in Int /\ \A k \in last + 1..l : w[k] \in Characters
    BY <1>1, <1>4, <1>5
  <2>2. /\ rest \in Seq(Characters) /\ Len(rest) = IF last + 1 =< l THEN l - (last + 1) + 1 ELSE 0
        /\ \A k \in 1..l - (last + 1) + 1 : rest[k] = w[last + 1 + k - 1]
    BY <2>1, SubSeqProperties
  <2>3. (last + 1 =< l \/ l - last = 0) /\ l - (last + 1) + 1 = l - last
        /\ \A k \in 1..l - last : last + 1 + k - 1 = last + k
    <3>1. l \in Nat /\ last \in 0..l
      BY <1>1, <1>4
    <3> HIDE DEF l, last
    <3> QED
      BY <3>1
  <2> HIDE DEF rest, l, last
  <2> QED
    BY <1>1, <1>4, <2>2, <2>3
<1>8. ASSUME NEW a \in 1..l + 1, NEW b \in -2..l 
      PROVE  SubSeq(v, a, b) = SubSeq(w, a, b) /\ SubSeq(w, a, b) \in Seq(Characters)
  <2>1. a \in Int /\ b \in Int /\ \A k \in a..b : k \in 1..l
    BY <1>1
  <2>2. (\A k \in a..b : w[k] \in Characters) /\ (\A k \in a..b : v[k] \in Characters /\ v[k] = w[k])
    BY <1>1, <1>5, <2>1
  <2> HIDE DEF v, l
  <2>3. /\ SubSeq(w, a, b) \in Seq(Characters) /\ Len(SubSeq(w, a, b)) = IF a =< b THEN b - a + 1 ELSE 0
        /\ \A k \in 1..b - a + 1 : SubSeq(w, a, b)[k] = w[a + k - 1]
    BY <2>1, <2>2, SubSeqProperties
  <2>4. /\ SubSeq(v, a, b) \in Seq(Characters) /\ Len(SubSeq(v, a, b)) = IF a =< b THEN b - a + 1 ELSE 0
        /\ \A k \in 1..b - a + 1 : SubSeq(v, a, b)[k] = v[a + k - 1]
    BY <2>1, <2>2, SubSeqProperties
  <2>5. \A k \in 1..Len(SubSeq(w, a, b)) : k \in 1..b - a + 1 /\ a + k - 1 \in a..b
    BY <2>1, <2>3
  <2>6. \A k \in 1..Len(SubSeq(w, a, b)) : SubSeq(v, a, b)[k] = SubSeq(w, a, b)[k]
    BY <2>2, <2>3, <2>4, <2>5
  <2> QED
    BY <2>3, <2>4, <2>6, SeqEqual
<1>9. (rest # <<>> /\ rest[Len(rest)] = "CR") <=> (w # <<>> /\ w[l] = "CR")
  <2>1. rest # <<>> <=> last < l
    <3> HIDE DEF rest, l, last
    <3> QED
      BY <1>1, <1>4, <1>7, EmptySeq
  <2>2. last < l => rest[Len(rest)] = w[l]
    <3>1. last < l => l - last \in 1..l - last /\ last + (l - last) = l
      BY <1>1, <1>4
    <3> HIDE DEF rest, l, last
    <3> QED
      BY <1>7, <3>1
  <2>3. last < l => l > 0
    BY <1>1, <1>4
  <2> HIDE DEF rest, last
  <2> QED
    BY <1>2, <1>4, <2>1, <2>2, <2>3
<1> DEFINE old == [k \in 1..n |-> SubSeq(w, LineEnd(w, k - 1) + 1, LineEnd(w, k) - 2)]
<1>10. /\ old \in Seq(Seq(Characters)) /\ Len(old) = n
       /\ Lines(w) = [whole |-> old, rest |-> rest]
  <2>1. ASSUME NEW k \in 1..n PROVE SubSeq(w, LineEnd(w, k - 1) + 1, LineEnd(w, k) - 2) \in Seq(Characters)
    <3>1. k \in 0..n /\ k - 1 \in 0..n
      BY <1>2
    <3>2. LineEnd(w, k - 1) + 1 \in 1..l + 1 /\ LineEnd(w, k) - 2 \in -2..l
      BY <1>1, <1>6, <3>1
    <3> QED
      BY <1>8, <3>2
  <2>2. old \in [1..n -> Seq(Characters)]
    BY <2>1
  <2>3. Lines(w) = [whole |-> old, rest |-> rest]
    BY DEF Lines
  <2> HIDE DEF old, rest, n
  <2> QED
    BY <1>2, <2>2, <2>3
<1>11. CASE w # <<>> /\ w[l] = "CR" /\ c = "LF"
  <2>1. LineEnds(v) = E \union {l + 1} /\ l + 1 \notin E /\ last < l
    BY <1>2, <1>4, <1>11, EndsAfter
  <2>2. Cardinality(LineEnds(v)) = n + 1
    BY <1>2, <2>1, FS_AddElement
  <2>3. ASSUME NEW i \in 0..l PROVE Ended(v, i) = Ended(w, i)
    <3>1. {j \in E \union {l + 1} : j =< i} = {j \in E : j =< i}
      BY <1>1
    <3> QED
      BY <2>1, <3>1 DEF Ended
  <2>4. Ended(v, l + 1) = n + 1
    BY <1>1, <2>2, LineEndsAreFinite
  <2>5. ASSUME NEW k \in 0..n PROVE LineEnd(v, k) = LineEnd(w, k) /\ Ended(v, LineEnd(w, k)) = k
    <3>1. LineEnd(w, k) \in LineEnds(v) \union {0} /\ Ended(v, LineEnd(w, k)) = k
      BY <1>3, <1>6, <2>1, <2>3
    <3> QED
      BY <1>1, <3>1, EndOfLine
  <2>6. LineEnd(v, n + 1) = l + 1
    BY <1>1, <2>1, <2>4, EndOfLine
  <2>7. Numbered(v)
    <3>1. ASSUME NEW k \in 0..n + 1 PROVE \E i \in LineEnds(v) \union {0} : Ended(v, i) = k
      <4>1. CASE k = n + 1
        BY <2>1, <2>4, <4>1
      <4>2. CASE k # n + 1
        <5>1. k \in 0..n
          BY <1>2, <4>2
        <5> QED
          BY <1>3, <2>1, <2>5, <5>1
      <4> QED
        BY <4>1, <4>2
    <3> QED
      BY <2>2, <3>1 DEF Numbered
  <2> DEFINE new == [k \in 1..n + 1 |-> SubSeq(v, LineEnd(v, k - 1) + 1, LineEnd(v, k) - 2)]
  <2>8. \A k \in 1..n : new[k] = old[k]
    <3> TAKE k \in 1..n
    <3>1. k \in 0..n /\ k - 1 \in 0..n /\ k \in 1..n + 1
      BY <1>2
    <3>2. LineEnd(w, k - 1) + 1 \in 1..l + 1 /\ LineEnd(w, k) - 2 \in -2..l
      BY <1>1, <1>6, <3>1
    <3>3. new[k] = SubSeq(v, LineEnd(w, k - 1) + 1, LineEnd(w, k) - 2)
      BY <2>5, <3>1
    <3> HIDE DEF new
    <3> QED
      BY <1>8, <3>2, <3>3
  <2>9. new[n + 1] = Front(rest)
    <3>1. n + 1 \in 1..n + 1 /\ (n + 1) - 1 = n /\ n \in 0..n
      BY <1>2
    <3>2. new[n + 1] = SubSeq(v, last + 1, (l + 1) - 2)
      BY <2>5, <2>6, <3>1
    <3>3. (l + 1) - 2 = l - 1 /\ last + 1 \in 1..l + 1 /\ l - 1 \in -2..l
      BY <1>1, <1>4
    <3>4. new[n + 1] = SubSeq(w, last + 1, l - 1)
      BY <1>8, <3>2, <3>3
    <3>5. last + 1 \in 1..Len(w) /\ l \in 1..Len(w) /\ 1 \in 1..l - last /\ l - last - 1 \in 0..l - last
      BY <1>1, <1>4, <2>1
    <3>6. SubSeq(rest, 1, l - last - 1) = SubSeq(w, last + 1, l - 1)
      <4>1. CASE l - last - 1 = 0
        <5>0. l \in Nat /\ last \in 0..l
          BY <1>1, <1>4
        <5> HIDE DEF l, last, rest
        <5>1. /\ l - last - 1 \in Int /\ l - last - 1 < 1
              /\ l - 1 \in Int /\ last + 1 \in Int /\ l - 1 < last + 1
          BY <4>1, <5>0
        <5> QED
          BY <5>1, SubSeqEmpty
      <4>2. CASE l - last - 1 # 0
        <5>1. 1 \in 1..l - (last + 1) + 1 /\ l - last - 1 \in 1..l - (last + 1) + 1
              /\ last + 1 + 1 - 1 = last + 1 /\ last + 1 + (l - last - 1) - 1 = l - 1
          <6>1. l \in Nat /\ last \in 0..l /\ last < l
            BY <1>1, <1>4, <2>1
          <6> HIDE DEF l, last
          <6> QED
            BY <4>2, <6>1
        <5> HIDE DEF last, l
        <5>2. SubSeq(SubSeq(w, last + 1, l), 1, l - last - 1)
                  = SubSeq(w, last + 1 + 1 - 1, last + 1 + (l - last - 1) - 1)
          BY <3>5, <5>1, SubSeqOfSubSeq DEF l
        <5> QED
          BY <5>1, <5>2
      <4> QED
        BY <4>1, <4>2
    <3> QED
      BY <1>7, <3>4, <3>6 DEF Front
  <2>10. SubSeq(v, LineEnd(v, n + 1) + 1, Len(v)) = <<>>
    BY <1>1, <2>6, SubSeqEmpty
  <2>11. Lines(v) = [whole |-> new, rest |-> <<>>]
    BY <2>2, <2>10 DEF Lines
  <2>12. Front(rest) \in Seq(Characters)
    <3>1. l - 1 \in -2..l /\ last + 1 \in 1..l + 1
      BY <1>1, <1>4
    <3>2. n + 1 \in 1..n + 1 /\ n \in 0..n /\ (n + 1) - 1 = n /\ (l + 1) - 2 = l - 1
      BY <1>1, <1>2
    <3>3. \A k \in 1..n + 1 : \A a, b, m :
              m = k - 1 /\ LineEnd(v, m) = a /\ LineEnd(v, k) = b => new[k] = SubSeq(v, a + 1, b - 2)
      OBVIOUS
    <3>4. LineEnd(v, n) = last /\ LineEnd(v, n + 1) = l + 1
      BY <2>5, <2>6, <3>2
    <3> HIDE DEF new, v, l, last, n, rest
    <3>5. Front(rest) = SubSeq(v, last + 1, l - 1)
      <4> DEFINE p == n + 1
                 e == l + 1
      <4>0. p \in 1..n + 1 /\ n = p - 1 /\ LineEnd(v, n) = last /\ LineEnd(v, p) = e
        BY <3>2, <3>4
      <4> HIDE DEF p, e
      <4>1. new[p] = SubSeq(v, last + 1, e - 2)
        BY <3>3, <4>0, Zenon
      <4> QED
        BY <2>9, <3>2, <4>1 DEF p, e
    <3> QED
      BY <1>8, <3>1, <3>5
  <2>13. new = Append(old, Front(rest))
    <3> DEFINE line == Front(rest)
    <3>1. /\ Append(old, line) \in Seq(Seq(Characters)) /\ Len(Append(old, line)) = n + 1
          /\ \A k \in 1..n : Append(old, line)[k] = old[k]
          /\ Append(old, line)[n + 1] = line
      <4> HIDE DEF old, line, n
      <4> QED
        BY <1>10, <2>12, AppendProperties DEF line
    <3>2. new = [k \in 1..n + 1 |-> new[k]]
      OBVIOUS
    <3>3. \A k \in 1..n + 1 : k \in 1..n \/ k = n + 1
      BY <1>2
    <3> HIDE DEF new, old, line, n
    <3>4. \A k \in 1..n + 1 : new[k] = Append(old, line)[k]
      BY <2>8, <2>9, <3>1, <3>3 DEF line
    <3>5. Append(old, line) = [k \in 1..n + 1 |-> Append(old, line)[k]]
      <4> DEFINE longer == Append(old, line)
      <4>1. longer \in Seq(Seq(Characters)) /\ Len(longer) = n + 1
        BY <3>1
      <4> HIDE DEF longer
      <4>2. longer = [k \in 1..n + 1 |-> longer[k]]
        BY <4>1
      <4> QED
        BY <4>2 DEF longer
    <3> QED
      BY <3>2, <3>4, <3>5 DEF line
  <2>14. WithCharacter(Lines(w), c) = [whole |-> Append(old, Front(rest)), rest |-> <<>>]
    <3> HIDE DEF rest, old
    <3> QED
      BY <1>9, <1>10, <1>11 DEF WithCharacter
  <2> HIDE DEF old, new, rest
  <2> QED
    BY <1>7, <1>10, <2>7, <2>11, <2>13, <2>14
<1>12. CASE ~(w # <<>> /\ w[l] = "CR" /\ c = "LF")
  <2>1. LineEnds(v) = E
    BY <1>12, EndsAfter
  <2>2. Numbered(v) /\ \A k : LineEnd(v, k) = LineEnd(w, k)
    BY <2>1 DEF Numbered, Ended, LineEnd
  <2> DEFINE new == [k \in 1..n |-> SubSeq(v, LineEnd(v, k - 1) + 1, LineEnd(v, k) - 2)]
             longer == SubSeq(v, last + 1, l + 1)
  <2>3. Lines(v) = [whole |-> new, rest |-> longer]
    BY <1>1, <2>1, <2>2 DEF Lines
  <2>4. new = old
    <3>1. ASSUME NEW k \in 1..n
          PROVE  SubSeq(v, LineEnd(v, k - 1) + 1, LineEnd(v, k) - 2)
                     = SubSeq(w, LineEnd(w, k - 1) + 1, LineEnd(w, k) - 2)
      <4>1. k \in 0..n /\ k - 1 \in 0..n
        BY <1>2
      <4>2. LineEnd(w, k - 1) + 1 \in 1..l + 1 /\ LineEnd(w, k) - 2 \in -2..l
        BY <1>1, <1>6, <4>1
      <4>3. LineEnd(v, k - 1) = LineEnd(w, k - 1) /\ LineEnd(v, k) = LineEnd(w, k)
        BY <2>2
      <4>4. SubSeq(v, LineEnd(w, k - 1) + 1, LineEnd(w, k) - 2)
                = SubSeq(w, LineEnd(w, k - 1) + 1, LineEnd(w, k) - 2)
        BY <1>8, <4>2
      <4> HIDE DEF v, l
      <4> QED
        BY <4>3, <4>4
    <3> QED
      BY <3>1
  <2>5. longer = Append(rest, c)
    <3>1. /\ Append(rest, c) \in Seq(Characters) /\ Len(Append(rest, c)) = l - last + 1
          /\ \A k \in 1..l - last : Append(rest, c)[k] = w[last + k]
          /\ Append(rest, c)[l - last + 1] = c
      <4> HIDE DEF rest
      <4> QED
        BY <1>7, AppendProperties
    <3>2. /\ last + 1 \in Int /\ l + 1 \in Int /\ last + 1 =< l + 1
          /\ (l + 1) - (last + 1) + 1 = l - last + 1
          /\ \A k \in 1..l - last + 1 : last + 1 + k - 1 = last + k
          /\ \A k \in 1..l - last : last + k \in 1..l
          /\ \A k \in 1..l - last + 1 : k \in 1..l - last \/ (k = l - last + 1 /\ last + k = l + 1)
          /\ \A k \in last + 1..l + 1 : k \in 1..l + 1
      BY <1>1, <1>4
    <3>3. \A k \in last + 1..l + 1 : v[k] \in Characters
      BY <1>1, <3>2, ElementOfSeq
    <3> HIDE DEF v, l, last, rest
    <3>4. /\ longer \in Seq(Characters) /\ Len(longer) = (l + 1) - (last + 1) + 1
          /\ \A k \in 1..(l + 1) - (last + 1) + 1 : longer[k] = v[last + 1 + k - 1]
      BY <3>2, <3>3, SubSeqProperties
    <3> HIDE DEF longer
    <3>5. \A k \in 1..l - last + 1 : longer[k] = v[last + k]
      BY <3>2, <3>4
    <3>6. \A k \in 1..l - last + 1 : longer[k] = Append(rest, c)[k]
      BY <1>1, <3>1, <3>2, <3>5
    <3> QED
      BY <3>1, <3>2, <3>4, <3>6, SeqEqual
  <2>6. WithCharacter(Lines(w), c) = [whole |-> old, rest |-> Append(rest, c)]
    <3> HIDE DEF rest, old
    <3> QED
      BY <1>9, <1>10, <1>12 DEF WithCharacter
  <2> HIDE DEF old, new, rest, longer
  <2> QED
    BY <1>7, <1>10, <2>2, <2>3, <2>4, <2>5, <2>6
<1> QED
  BY <1>11, <1>12

LEMMA NoLines ==
    /\ Numbered(<<>>)
    /\ Lines(<<>>) = [whole |-> <<>>, rest |-> <<>>]
<1>1. LineEnds(<<>>) = {} /\ Cardinality({}) = 0
  BY FS_EmptySet DEF LineEnds
<1>2. Ended(<<>>, 0) = 0
  <2>1. {j \in LineEnds(<<>>) : j =< 0} = {}
    BY <1>1
  <2> QED
    BY <1>1, <2>1 DEF Ended
<1>3. Numbered(<<>>)
  <2>1. Cardinality(LineEnds(<<>>)) = 0 /\ LineEnds(<<>>) \union {0} = {0}
    BY <1>1
  <2>2. \A k \in 0..0 : k = 0
    OBVIOUS
  <2> QED
    BY <1>2, <2>1, <2>2, Zenon DEF Numbered
<1>4. LineEnd(<<>>, 0) = 0
  <2>1. \A i \in {0} : Cardinality({j \in LineEnds(<<>>) : j =< i}) = 0 <=> i = 0
    BY <1>2 DEF Ended
  <2> QED
    BY <1>1, <2>1 DEF LineEnd
<1>5. [k \in 1..0 |-> SubSeq(<<>>, LineEnd(<<>>, k - 1) + 1, LineEnd(<<>>, k) - 2)] = <<>>
  OBVIOUS
<1>6. SubSeq(<<>>, 0 + 1, Len(<<>>)) = <<>>
  OBVIOUS
<1> QED
  BY <1>1, <1>3, <1>4, <1>5, <1>6 DEF Lines

-----------------------------------------------------------------------------
(* What has arrived of a line, in each state.                               *)

\* The method has, and what there is of the URI.
BeganUri(r, i) ==
    /\ i \in At("SP", r) /\ 1 < i
    /\ AllIn(r, 1, i - 1, Tokens)
    /\ AllIn(r, i + 1, Len(r), Printable \ {"SP"})

\* The method and the URI have, and m characters of the protocol.
BeganProtocol(r, i, j, m) ==
    /\ i \in At("SP", r) /\ j \in At("SP", r)
    /\ SplitsRequest(r, i, j)
    /\ \A k \in 1..m : r[j + k] = Protocol[k]

BeganVersion(r, m) == \E i, j \in DOMAIN r : BeganProtocol(r, i, j, m) /\ Len(r) = j + m

BeganMajor(r) ==
    \E i, j \in DOMAIN r :
        BeganProtocol(r, i, j, 5) /\ j + 5 < Len(r) /\ AllIn(r, j + 6, Len(r), Digits)

BeganMinor(r) ==
    \E i, j \in DOMAIN r :
        /\ BeganProtocol(r, i, j, 5)
        /\ j + 6 < Len(r) /\ AllIn(r, j + 6, Len(r) - 1, Digits)
        /\ r[Len(r)] = "."

RequestLineShape(s, r) ==
    \/ s = "method_start" /\ r = <<>>
    \/ s = "method" /\ r # <<>> /\ AllIn(r, 1, Len(r), Tokens)
    \/ s = "uri" /\ \E i \in DOMAIN r : BeganUri(r, i)
    \/ s = "http_version_h" /\ BeganVersion(r, 0)
    \/ s = "http_version_t_1" /\ BeganVersion(r, 1)
    \/ s = "http_version_t_2" /\ BeganVersion(r, 2)
    \/ s = "http_version_p" /\ BeganVersion(r, 3)
    \/ s = "http_version_slash" /\ BeganVersion(r, 4)
    \/ s = "http_version_major_start" /\ BeganVersion(r, 5)
    \/ s = "http_version_major" /\ BeganMajor(r)
    \/ s = "http_version_minor_start" /\ BeganMinor(r)
    \/ s = "http_version_minor" /\ IsRequestLine(r)
    \/ s = "expecting_newline_1" /\ r # <<>> /\ r[Len(r)] = "CR" /\ IsRequestLine(Front(r))

\* The colon has arrived, and nothing after it.
BeganHeader(r) == 1 < Len(r) /\ r[Len(r)] = ":" /\ AllIn(r, 1, Len(r) - 1, Tokens)

\* Something has after the blanks that continue a header.
BeganContinuation(r) == \E i \in DOMAIN r : SplitsContinuation(r, i) /\ i < Len(r)

\* In the line after n >= 1 others.
HeaderLineShape(s, n, r) ==
    \/ s = "header_line_start" /\ r = <<>>
    \/ s = "expecting_newline_3" /\ r = <<"CR">>
    \/ s = "header_lws" /\ n >= 2 /\ r # <<>> /\ AllIn(r, 1, Len(r), Blanks)
    \/ s = "header_name" /\ r # <<>> /\ AllIn(r, 1, Len(r), Tokens)
    \/ s = "space_before_header_value" /\ BeganHeader(r)
    \/ s = "header_value" /\ IsHeader(r)
    \/ s = "header_value" /\ n >= 2 /\ BeganContinuation(r)
    \/ s = "expecting_newline_2" /\ r # <<>> /\ r[Len(r)] = "CR" /\ IsLine(n + 1, Front(r))

Shape(s, n, r) ==
    \/ n = 0 /\ RequestLineShape(s, r)
    \/ n >= 1 /\ HeaderLineShape(s, n, r)

\* What Append does to a line.
LEMMA Longer ==
    ASSUME NEW r \in Seq(Characters), NEW c \in Characters, NEW a, a = Append(r, c)
    PROVE  /\ a \in Seq(Characters) /\ a # <<>> /\ Front(a) = r
           /\ Len(r) \in Nat /\ Len(a) = Len(r) + 1
           /\ DOMAIN r = 1..Len(r) /\ DOMAIN a = 1..Len(r) + 1
           /\ a[Len(r) + 1] = c /\ \A k \in 1..Len(r) : a[k] = r[k] /\ r[k] \in Characters
           /\ r = <<>> <=> Len(r) = 0
<1>1. /\ a \in Seq(Characters) /\ a # <<>>
      /\ Len(r) \in Nat /\ Len(a) = Len(r) + 1
      /\ DOMAIN r = 1..Len(r) /\ DOMAIN a = 1..Len(r) + 1
      /\ a[Len(r) + 1] = c /\ \A k \in 1..Len(r) : a[k] = r[k] /\ r[k] \in Characters
  BY AppendProperties, LenProperties, ElementOfSeq
<1>2. r = <<>> <=> Len(r) = 0
  BY EmptySeq
<1>3. Front(a) = r
  <2>1. Front(a) = SubSeq(a, 1, Len(r))
    BY <1>1 DEF Front
  <2>2. 1 \in Int /\ Len(r) \in Int /\ \A k \in 1..Len(r) : a[k] \in Characters
    BY <1>1
  <2>3. /\ SubSeq(a, 1, Len(r)) \in Seq(Characters)
        /\ Len(SubSeq(a, 1, Len(r))) = IF 1 =< Len(r) THEN Len(r) - 1 + 1 ELSE 0
        /\ \A k \in 1..Len(r) - 1 + 1 : SubSeq(a, 1, Len(r))[k] = a[1 + k - 1]
    BY <2>2, SubSeqProperties
  <2>4. Len(SubSeq(a, 1, Len(r))) = Len(r) /\ \A k \in 1..Len(r) : SubSeq(a, 1, Len(r))[k] = r[k]
    BY <1>1, <2>3
  <2> QED
    BY <2>1, <2>3, <2>4, SeqEqual
<1> QED
  BY <1>1, <1>2, <1>3

\* What a request line is made of, one character after the other.
LEMMA MethodGrows ==
    ASSUME NEW r \in Seq(Characters), NEW c \in Characters, NEW a, a = Append(r, c),
           r = <<>> \/ AllIn(r, 1, Len(r), Tokens)
    PROVE  /\ c \in Tokens => a # <<>> /\ AllIn(a, 1, Len(a), Tokens)
           /\ c = "SP" /\ r # <<>> => \E i \in DOMAIN a : BeganUri(a, i)
<1> DEFINE l == Len(r)
<1>1. /\ a \in Seq(Characters) /\ a # <<>> /\ l \in Nat /\ Len(a) = l + 1 /\ DOMAIN a = 1..l + 1
      /\ a[l + 1] = c /\ \A k \in 1..l : a[k] = r[k]
      /\ r = <<>> <=> l = 0
  BY Longer
<1>2. \A k \in 1..l : r[k] \in Tokens
  BY <1>1 DEF AllIn
<1> HIDE DEF l
<1>3. ASSUME c \in Tokens PROVE AllIn(a, 1, Len(a), Tokens)
  BY <1>1, <1>2, <1>3 DEF AllIn
<1>4. ASSUME c = "SP", r # <<>> PROVE BeganUri(a, l + 1) /\ l + 1 \in DOMAIN a
  BY <1>1, <1>2, <1>4 DEF AllIn, BeganUri, At
<1> QED
  BY <1>1, <1>3, <1>4

LEMMA UriGrows ==
    ASSUME NEW r \in Seq(Characters), NEW c \in Characters, NEW a, a = Append(r, c),
           \E i \in DOMAIN r : BeganUri(r, i)
    PROVE  /\ c \in Printable \ {"SP"} => \E i \in DOMAIN a : BeganUri(a, i)
           /\ c = "SP" => BeganVersion(a, 0)
<1> DEFINE l == Len(r)
<1>1. /\ a \in Seq(Characters) /\ a # <<>> /\ l \in Nat /\ Len(a) = l + 1 /\ DOMAIN a = 1..l + 1
      /\ a[l + 1] = c /\ \A k \in 1..l : a[k] = r[k]
      /\ DOMAIN r = 1..l
  BY Longer
<1>2. PICK i \in DOMAIN r : BeganUri(r, i)
  OBVIOUS
<1>3. /\ i \in 1..l /\ r[i] = "SP" /\ 1 < i /\ \A k \in 1..i - 1 : r[k] \in Tokens
      /\ \A k \in i + 1..l : r[k] \in Printable \ {"SP"}
  BY <1>1, <1>2 DEF BeganUri, At, AllIn
<1> HIDE DEF l
<1>4. ASSUME c \in Printable \ {"SP"} PROVE BeganUri(a, i) /\ i \in DOMAIN a
  BY <1>1, <1>3, <1>4 DEF AllIn, BeganUri, At
<1>5. ASSUME c = "SP"
      PROVE  BeganProtocol(a, i, l + 1, 0) /\ Len(a) = l + 1 + 0 /\ i \in DOMAIN a /\ l + 1 \in DOMAIN a
  BY <1>1, <1>3, <1>5 DEF AllIn, BeganProtocol, SplitsRequest, At
<1> QED
  BY <1>4, <1>5 DEF BeganVersion

\* What is split stays split.
LEMMA ProtocolStays ==
    ASSUME NEW r \in Seq(Characters), NEW c \in Characters, NEW a, a = Append(r, c),
           NEW i \in DOMAIN r, NEW j \in DOMAIN r, NEW m \in 0..5,
           BeganProtocol(r, i, j, m), j + m =< Len(r)
    PROVE  /\ i \in DOMAIN a /\ j \in DOMAIN a
           /\ BeganProtocol(a, i, j, m)
<1> DEFINE l == Len(r)
<1>1. /\ l \in Nat /\ DOMAIN a = 1..l + 1 /\ DOMAIN r = 1..l
      /\ \A k \in 1..l : a[k] = r[k]
  BY Longer
<1>2. /\ i \in 1..l /\ j \in 1..l /\ r[i] = "SP" /\ r[j] = "SP" /\ 1 < i /\ i < j
      /\ \A k \in 1..i - 1 : r[k] \in Tokens
      /\ \A k \in i + 1..j - 1 : r[k] \in Printable \ {"SP"}
      /\ \A k \in 1..m : r[j + k] = Protocol[k]
  BY <1>1 DEF BeganProtocol, SplitsRequest, At, AllIn
<1>3. j + m =< l
  OBVIOUS
<1> HIDE DEF l
<1>4. \A k \in 1..m : j + k \in 1..l
  BY <1>1, <1>2, <1>3
<1>5. /\ i \in At("SP", a) /\ j \in At("SP", a)
      /\ SplitsRequest(a, i, j)
      /\ \A k \in 1..m : a[j + k] = Protocol[k]
  BY <1>1, <1>2, <1>4 DEF SplitsRequest, At, AllIn
<1> QED
  BY <1>1, <1>2, <1>5 DEF BeganProtocol

LEMMA VersionGrows ==
    ASSUME NEW r \in Seq(Characters), NEW c \in Characters, NEW a, a = Append(r, c),
           NEW m \in 0..5, BeganVersion(r, m)
    PROVE  /\ m < 5 /\ c = Protocol[m + 1] => BeganVersion(a, m + 1)
           /\ m = 5 /\ c \in Digits => BeganMajor(a)
<1> DEFINE l == Len(r)
<1>1. l \in Nat /\ Len(a) = l + 1 /\ DOMAIN r = 1..l /\ a[l + 1] = c
  BY Longer
<1>2. PICK i \in DOMAIN r, j \in DOMAIN r : BeganProtocol(r, i, j, m) /\ l = j + m
  BY DEF BeganVersion
<1>3. i \in DOMAIN a /\ j \in DOMAIN a /\ BeganProtocol(a, i, j, m)
  <2>1. j + m =< Len(r)
    BY <1>1, <1>2
  <2> QED
    BY <1>2, <2>1, ProtocolStays, Zenon
<1>4. j \in Nat /\ l + 1 = j + (m + 1)
  BY <1>1, <1>2
<1> HIDE DEF l
<1>5. ASSUME m < 5, c = Protocol[m + 1] PROVE BeganVersion(a, m + 1)
  <2>1. \A k \in 1..m + 1 : k \in 1..m \/ k = m + 1
    OBVIOUS
  <2>2. BeganProtocol(a, i, j, m + 1)
    BY <1>1, <1>3, <1>4, <1>5, <2>1 DEF BeganProtocol
  <2> QED
    BY <1>1, <1>3, <1>4, <2>2 DEF BeganVersion
<1>6. ASSUME m = 5, c \in Digits PROVE BeganMajor(a)
  <2>1. j + 5 < Len(a) /\ \A k \in j + 6..Len(a) : k = l + 1
    BY <1>1, <1>4, <1>6
  <2> QED
    BY <1>1, <1>3, <1>6, <2>1 DEF BeganMajor, AllIn
<1> QED
  BY <1>5, <1>6

LEMMA MajorGrows ==
    ASSUME NEW r \in Seq(Characters), NEW c \in Characters, NEW a, a = Append(r, c),
           BeganMajor(r)
    PROVE  /\ c \in Digits => BeganMajor(a)
           /\ c = "." => BeganMinor(a)
<1> DEFINE l == Len(r)
<1>1. /\ l \in Nat /\ Len(a) = l + 1 /\ DOMAIN r = 1..l /\ a[l + 1] = c
      /\ \A k \in 1..l : a[k] = r[k]
  BY Longer
<1>2. PICK i \in DOMAIN r, j \in DOMAIN r :
          BeganProtocol(r, i, j, 5) /\ j + 5 < l /\ AllIn(r, j + 6, l, Digits)
  BY DEF BeganMajor
<1>3. i \in DOMAIN a /\ j \in DOMAIN a /\ BeganProtocol(a, i, j, 5)
  <2> DEFINE m == 5
  <2>1. j + m =< Len(r) /\ m \in 0..5 /\ BeganProtocol(r, i, j, m)
    BY <1>1, <1>2
  <2> HIDE DEF m
  <2>2. i \in DOMAIN a /\ j \in DOMAIN a /\ BeganProtocol(a, i, j, m)
    BY <2>1, ProtocolStays, Zenon
  <2> QED
    BY <2>2 DEF m
<1>4. j \in Nat /\ j + 5 < l + 1 /\ j + 6 < l + 1 /\ (l + 1) - 1 = l
  BY <1>1, <1>2
<1>5. \A k \in j + 6..l : a[k] \in Digits
  BY <1>1, <1>2 DEF AllIn
<1> HIDE DEF l
<1>6. ASSUME c \in Digits PROVE BeganMajor(a)
  <2>1. \A k \in j + 6..l + 1 : k \in j + 6..l \/ k = l + 1
    BY <1>1, <1>4
  <2> QED
    BY <1>1, <1>3, <1>4, <1>5, <1>6, <2>1 DEF BeganMajor, AllIn
<1>7. ASSUME c = "." PROVE BeganMinor(a)
  BY <1>1, <1>3, <1>4, <1>5, <1>7 DEF BeganMinor, AllIn
<1> QED
  BY <1>6, <1>7

LEMMA MinorGrows ==
    ASSUME NEW r \in Seq(Characters), NEW c \in Digits, NEW a, a = Append(r, c),
           BeganMinor(r) \/ IsRequestLine(r)
    PROVE  IsRequestLine(a)
<1> DEFINE l == Len(r)
<1>0. c \in Characters
  BY DEF Digits, Tokens, Characters
<1>1. /\ l \in Nat /\ Len(a) = l + 1 /\ DOMAIN r = 1..l /\ a[l + 1] = c /\ DOMAIN a = 1..l + 1
      /\ \A k \in 1..l : a[k] = r[k]
  BY <1>0, Longer
<1>2. PICK i \in DOMAIN r, j \in DOMAIN r, dot \in DOMAIN r :
          /\ BeganProtocol(r, i, j, 5)
          /\ r[dot] = "." /\ j + 6 < dot
          /\ AllIn(r, j + 6, dot - 1, Digits) /\ AllIn(r, dot + 1, l, Digits)
  <2>1. CASE BeganMinor(r)
    <3>1. PICK i \in DOMAIN r, j \in DOMAIN r :
              /\ BeganProtocol(r, i, j, 5)
              /\ j + 6 < l /\ AllIn(r, j + 6, l - 1, Digits)
              /\ r[l] = "."
      BY <2>1 DEF BeganMinor
    <3>2. l \in DOMAIN r /\ AllIn(r, l + 1, l, Digits)
      BY <1>1, <3>1 DEF AllIn
    <3> QED
      BY <3>1, <3>2
  <2>2. CASE IsRequestLine(r)
    BY <1>1, <2>2 DEF IsRequestLine, SplitsVersion, BeganProtocol, At
  <2> QED
    BY <2>1, <2>2
<1>3. i \in DOMAIN a /\ j \in DOMAIN a /\ BeganProtocol(a, i, j, 5)
  <2> DEFINE m == 5
  <2>1. j + m =< Len(r) /\ m \in 0..5 /\ BeganProtocol(r, i, j, m)
    BY <1>1, <1>2
  <2> HIDE DEF m
  <2>2. i \in DOMAIN a /\ j \in DOMAIN a /\ BeganProtocol(a, i, j, m)
    BY <1>0, <2>1, ProtocolStays, Zenon
  <2> QED
    BY <2>2 DEF m
<1> HIDE DEF l
<1>4. dot \in At(".", a) /\ dot < Len(a) /\ dot \in Nat /\ j \in Nat
  BY <1>1, <1>2 DEF At
<1>5. AllIn(a, j + 6, dot - 1, Digits)
  BY <1>1, <1>2 DEF AllIn
<1>6. AllIn(a, dot + 1, Len(a), Digits)
  <2>1. \A k \in dot + 1..l + 1 : k \in dot + 1..l \/ k = l + 1
    BY <1>1, <1>2
  <2>2. \A k \in dot + 1..l : k \in 1..l
    BY <1>1, <1>2
  <2> QED
    BY <1>1, <1>2, <2>1, <2>2 DEF AllIn
<1>7. SplitsVersion(a, j, dot)
  BY <1>2, <1>3, <1>4, <1>5, <1>6 DEF SplitsVersion, BeganProtocol
<1> QED
  BY <1>3, <1>4, <1>7 DEF IsRequestLine, BeganProtocol

\* What header lines are made of.
LEMMA BlanksGrow ==
    ASSUME NEW r \in Seq(Characters), NEW c \in Characters, NEW a, a = Append(r, c),
           r = <<>> \/ AllIn(r, 1, Len(r), Blanks)
    PROVE  /\ c \in Blanks => a # <<>> /\ AllIn(a, 1, Len(a), Blanks)
           /\ c \in Printable \ Blanks /\ r # <<>> => BeganContinuation(a)
<1> DEFINE l == Len(r)
<1>1. /\ a # <<>> /\ l \in Nat /\ Len(a) = l + 1 /\ DOMAIN a = 1..l + 1
      /\ a[l + 1] = c /\ \A k \in 1..l : a[k] = r[k]
      /\ r = <<>> <=> l = 0
  BY Longer
<1>2. \A k \in 1..l : r[k] \in Blanks
  BY <1>1 DEF AllIn
<1> HIDE DEF l
<1>3. ASSUME c \in Blanks PROVE AllIn(a, 1, Len(a), Blanks)
  BY <1>1, <1>2, <1>3 DEF AllIn
<1>4. ASSUME c \in Printable \ Blanks, r # <<>> PROVE l \in DOMAIN a /\ SplitsContinuation(a, l) /\ l < Len(a)
  BY <1>1, <1>2, <1>4 DEF AllIn, SplitsContinuation
<1> QED
  BY <1>1, <1>3, <1>4 DEF BeganContinuation

LEMMA NameGrows ==
    ASSUME NEW r \in Seq(Characters), NEW a, a = Append(r, ":"),
           r # <<>>, AllIn(r, 1, Len(r), Tokens)
    PROVE  BeganHeader(a)
<1> DEFINE l == Len(r)
<1>0. ":" \in Characters
  BY DEF Characters, Specials
<1>1. /\ l \in Nat /\ Len(a) = l + 1
      /\ a[l + 1] = ":" /\ \A k \in 1..l : a[k] = r[k]
      /\ r = <<>> <=> l = 0
  BY <1>0, Longer
<1> HIDE DEF l
<1>2. 1 < l + 1 /\ (l + 1) - 1 = l /\ \A k \in 1..l : r[k] \in Tokens
  BY <1>1 DEF AllIn, l
<1> QED
  BY <1>1, <1>2 DEF BeganHeader, AllIn

LEMMA HeaderGrows ==
    ASSUME NEW r \in Seq(Characters), NEW c \in Characters, NEW a, a = Append(r, c)
    PROVE  /\ BeganHeader(r) /\ c = "SP" => IsHeader(a)
           /\ IsHeader(r) /\ c \in Printable => IsHeader(a)
           /\ BeganContinuation(r) /\ c \in Printable => BeganContinuation(a)
<1> DEFINE l == Len(r)
<1>1. /\ l \in Nat /\ Len(a) = l + 1 /\ DOMAIN a = 1..l + 1 /\ DOMAIN r = 1..l
      /\ a[l + 1] = c /\ \A k \in 1..l : a[k] = r[k]
  BY Longer
<1>2. ASSUME BeganHeader(r), c = "SP" PROVE l \in At(":", a) /\ SplitsHeader(a, l)
  <2>1. 1 < l /\ r[l] = ":" /\ \A k \in 1..l - 1 : r[k] \in Tokens
    BY <1>2 DEF BeganHeader, AllIn
  <2> HIDE DEF l
  <2> QED
    BY <1>1, <1>2, <2>1 DEF SplitsHeader, AllIn, At
<1>3. ASSUME IsHeader(r), c \in Printable PROVE IsHeader(a)
  <2>1. PICK i \in 1..l : SplitsHeader(r, i) /\ r[i] = ":"
    BY <1>1, <1>3 DEF IsHeader, At
  <2>2. /\ 1 < i /\ i < l /\ r[i + 1] = "SP"
        /\ \A k \in 1..i - 1 : r[k] \in Tokens
        /\ \A k \in i + 2..l : r[k] \in Printable
    BY <2>1 DEF SplitsHeader, AllIn
  <2> HIDE DEF l
  <2>3. i \in At(":", a) /\ SplitsHeader(a, i)
    BY <1>1, <1>3, <2>1, <2>2 DEF SplitsHeader, AllIn, At
  <2> QED
    BY <2>3 DEF IsHeader
<1>4. ASSUME BeganContinuation(r), c \in Printable PROVE BeganContinuation(a)
  <2>1. PICK i \in 1..l : SplitsContinuation(r, i) /\ i < l
    BY <1>1, <1>4 DEF BeganContinuation
  <2>2. /\ r[i + 1] \notin Blanks
        /\ \A k \in 1..i : r[k] \in Blanks
        /\ \A k \in i + 1..l : r[k] \in Printable
    BY <2>1 DEF SplitsContinuation, AllIn
  <2> HIDE DEF l
  <2>3. SplitsContinuation(a, i) /\ i < Len(a) /\ i \in DOMAIN a
    BY <1>1, <1>4, <2>1, <2>2 DEF SplitsContinuation, AllIn
  <2> QED
    BY <2>3 DEF BeganContinuation
<1> QED
  BY <1>2, <1>3, <1>4 DEF IsHeader

-----------------------------------------------------------------------------
(* What may follow: the character after the start of a line is one that the *)
(* state the parser is in after that start moves on.                        *)

\* The line begins with r, which c follows, be it the carriage return after the line.
Continues(r, c, line) ==
    /\ line \in Seq(Characters)
    /\ Len(r) =< Len(line)
    /\ \A k \in 1..Len(r) : line[k] = r[k]
    /\ \/ c = "CR" /\ Len(line) = Len(r)
       \/ Len(r) < Len(line) /\ line[Len(r) + 1] = c

\* The places of a request line.
RequestLineAt(w, i, j, dot) ==
    /\ i \in 1..Len(w) /\ j \in 1..Len(w) /\ dot \in 1..Len(w)
    /\ 1 < i /\ i < j /\ j + 6 < dot /\ dot < Len(w)
    /\ w[i] = "SP" /\ w[j] = "SP" /\ w[dot] = "."
    /\ \A k \in 1..i - 1 : w[k] \in Tokens
    /\ \A k \in i + 1..j - 1 : w[k] \in Printable \ {"SP"}
    /\ \A k \in 1..5 : w[j + k] = Protocol[k]
    /\ \A k \in j + 6..dot - 1 : w[k] \in Digits
    /\ \A k \in dot + 1..Len(w) : w[k] \in Digits

LEMMA PlacesOfRequestLine ==
    ASSUME NEW w \in Seq(Characters), IsRequestLine(w)
    PROVE  Len(w) \in Nat /\ \E i, j, dot \in Nat : RequestLineAt(w, i, j, dot)
<1>1. Len(w) \in Nat /\ DOMAIN w = 1..Len(w)
  BY LenProperties
<1>2. PICK i \in 1..Len(w), j \in 1..Len(w), dot \in 1..Len(w) :
          /\ w[i] = "SP" /\ w[j] = "SP" /\ w[dot] = "."
          /\ SplitsRequest(w, i, j) /\ SplitsVersion(w, j, dot)
  BY <1>1 DEF IsRequestLine, At
<1>3. RequestLineAt(w, i, j, dot)
  BY <1>2 DEF RequestLineAt, SplitsRequest, SplitsVersion, AllIn
<1> QED
  BY <1>1, <1>2, <1>3

LEMMA Classes ==
    /\ Digits \subseteq Tokens /\ Tokens \subseteq Printable /\ Printable \subseteq Characters
    /\ "SP" \notin Tokens /\ ":" \notin Tokens /\ "." \notin Digits
    /\ "SP" \in Printable /\ ":" \in Printable /\ Blanks \subseteq Characters
    /\ "CR" \notin Printable /\ "LF" \notin Printable /\ "CR" \notin Blanks /\ "LF" \notin Blanks
    /\ Blanks \intersect Tokens = {} /\ ":" \notin Blanks
    /\ \A k \in 1..5 : Protocol[k] \in Printable /\ Protocol[k] # "SP"
    /\ "CR" \in Characters /\ "LF" \in Characters
  BY DEF Digits, Tokens, Printable, Characters, Specials, Controls, Blanks, Protocol

LEMMA AfterMethod ==
    ASSUME NEW r \in Seq(Characters), NEW c, NEW line, Continues(r, c, line), IsRequestLine(line),
           r = <<>> \/ AllIn(r, 1, Len(r), Tokens)
    PROVE  c \in Tokens \/ (c = "SP" /\ r # <<>>)
<1> DEFINE l == Len(r)
<1>1. l \in Nat /\ (r = <<>> <=> l = 0) /\ \A k \in 1..l : r[k] \in Tokens
  BY EmptySeq, LenProperties DEF AllIn
<1>2. PICK i \in Nat, j \in Nat, dot \in Nat : RequestLineAt(line, i, j, dot) /\ Len(line) \in Nat
  BY PlacesOfRequestLine DEF Continues
<1>3. /\ l =< Len(line) /\ \A k \in 1..l : line[k] = r[k]
      /\ (c = "CR" /\ Len(line) = l) \/ (l < Len(line) /\ line[l + 1] = c)
  BY DEF Continues
<1> HIDE DEF l
<1>4. ~(i \in 1..l)
  BY <1>1, <1>2, <1>3, Classes DEF RequestLineAt
<1>5. l < i /\ line[l + 1] = c
  BY <1>1, <1>2, <1>3, <1>4 DEF RequestLineAt
<1>6. CASE l + 1 = i
  BY <1>1, <1>2, <1>5, <1>6 DEF RequestLineAt
<1>7. CASE l + 1 # i
  <2>1. l + 1 \in 1..i - 1
    BY <1>1, <1>5, <1>7
  <2> QED
    BY <1>2, <1>5, <2>1 DEF RequestLineAt
<1> QED
  BY <1>6, <1>7

LEMMA AfterUri ==
    ASSUME NEW r \in Seq(Characters), NEW c, NEW line, Continues(r, c, line), IsRequestLine(line),
           \E i \in DOMAIN r : BeganUri(r, i)
    PROVE  c \in Printable
<1> DEFINE l == Len(r)
<1>1. l \in Nat /\ DOMAIN r = 1..l
  BY LenProperties
<1>2. PICK i \in Nat, j \in Nat, dot \in Nat : RequestLineAt(line, i, j, dot) /\ Len(line) \in Nat
  BY PlacesOfRequestLine DEF Continues
<1>3. /\ l =< Len(line) /\ \A k \in 1..l : line[k] = r[k]
      /\ (c = "CR" /\ Len(line) = l) \/ (l < Len(line) /\ line[l + 1] = c)
  BY DEF Continues
<1>4. PICK space \in 1..l :
          /\ r[space] = "SP" /\ 1 < space /\ \A k \in 1..space - 1 : r[k] \in Tokens
          /\ \A k \in space + 1..l : r[k] \in Printable \ {"SP"}
  BY <1>1 DEF BeganUri, At, AllIn
<1> HIDE DEF l
<1>5. space = i
  <2>1. ~(space \in 1..i - 1)
    BY <1>2, <1>3, <1>4, Classes DEF RequestLineAt
  <2>2. ~(i \in 1..space - 1)
    BY <1>1, <1>2, <1>3, <1>4, Classes DEF RequestLineAt
  <2> QED
    BY <1>1, <1>2, <1>4, <2>1, <2>2 DEF RequestLineAt
<1>6. ~(j \in space + 1..l)
  BY <1>1, <1>2, <1>3, <1>4 DEF RequestLineAt
<1>7. l < j /\ line[l + 1] = c
  BY <1>1, <1>2, <1>3, <1>4, <1>5, <1>6 DEF RequestLineAt
<1>8. CASE l + 1 = j
  BY <1>1, <1>2, <1>7, <1>8, Classes DEF RequestLineAt
<1>9. CASE l + 1 # j
  <2>1. l + 1 \in i + 1..j - 1
    BY <1>1, <1>2, <1>4, <1>5, <1>7, <1>9
  <2> QED
    BY <1>2, <1>7, <2>1 DEF RequestLineAt
<1> QED
  BY <1>8, <1>9

\* Where the spaces are.
LEMMA SameSpaces ==
    ASSUME NEW r \in Seq(Characters), NEW c, NEW line, Continues(r, c, line),
           NEW i \in Nat, NEW j \in Nat, NEW dot \in Nat, RequestLineAt(line, i, j, dot),
           NEW space \in DOMAIN r, NEW other \in DOMAIN r, NEW m, BeganProtocol(r, space, other, m)
    PROVE  space = i /\ other = j
<1> DEFINE l == Len(r)
<1>1. l \in Nat /\ DOMAIN r = 1..l /\ Len(line) \in Nat
  BY LenProperties DEF Continues
<1>2. l =< Len(line) /\ \A k \in 1..l : line[k] = r[k]
  BY DEF Continues
<1>3. /\ space \in 1..l /\ other \in 1..l
      /\ r[space] = "SP" /\ r[other] = "SP" /\ 1 < space /\ space < other
      /\ \A k \in 1..space - 1 : r[k] \in Tokens
      /\ \A k \in space + 1..other - 1 : r[k] \in Printable \ {"SP"}
  BY <1>1 DEF BeganProtocol, SplitsRequest, At, AllIn
<1> HIDE DEF l
<1>4. space = i
  <2>1. ~(space \in 1..i - 1)
    <3>1. line[space] = "SP"
      BY <1>2, <1>3
    <3> QED
      BY <3>1, Classes DEF RequestLineAt
  <2>2. ~(i \in 1..space - 1)
    BY <1>1, <1>2, <1>3, Classes DEF RequestLineAt
  <2> QED
    BY <1>1, <1>3, <2>1, <2>2 DEF RequestLineAt
<1>5. other = j
  <2>1. ~(other \in i + 1..j - 1)
    BY <1>2, <1>3 DEF RequestLineAt
  <2>2. ~(j \in space + 1..other - 1)
    BY <1>1, <1>2, <1>3 DEF RequestLineAt
  <2> QED
    <3>1. i < j /\ i < other /\ other \in Nat
      BY <1>1, <1>3, <1>4 DEF RequestLineAt
    <3> QED
      BY <1>4, <2>1, <2>2, <3>1
<1> QED
  BY <1>4, <1>5

LEMMA AfterProtocol ==
    ASSUME NEW r \in Seq(Characters), NEW c, NEW line, Continues(r, c, line), IsRequestLine(line),
           NEW m \in 0..5, BeganVersion(r, m)
    PROVE  IF m < 5 THEN c = Protocol[m + 1] ELSE c \in Digits
<1> DEFINE l == Len(r)
<1>1. l \in Nat /\ DOMAIN r = 1..l /\ Len(line) \in Nat
  BY LenProperties DEF Continues
<1>2. PICK i \in Nat, j \in Nat, dot \in Nat : RequestLineAt(line, i, j, dot)
  BY PlacesOfRequestLine DEF Continues
<1>3. l = j + m
  BY <1>2, SameSpaces DEF BeganVersion
<1>4. (c = "CR" /\ Len(line) = l) \/ (l < Len(line) /\ line[l + 1] = c)
  BY DEF Continues
<1> HIDE DEF l
<1>5. l < Len(line) /\ line[l + 1] = c
  BY <1>1, <1>2, <1>3, <1>4 DEF RequestLineAt
<1>6. CASE m < 5
  <2>1. m + 1 \in 1..5 /\ l + 1 = j + (m + 1)
    BY <1>3, <1>6
  <2> QED
    BY <1>2, <1>5, <1>6, <2>1 DEF RequestLineAt
<1>7. CASE m = 5
  <2>1. l + 1 \in j + 6..dot - 1
    BY <1>2, <1>3, <1>7 DEF RequestLineAt
  <2> QED
    BY <1>2, <1>5, <1>7, <2>1 DEF RequestLineAt
<1> QED
  BY <1>6, <1>7

LEMMA AfterMajor ==
    ASSUME NEW r \in Seq(Characters), NEW c, NEW line, Continues(r, c, line), IsRequestLine(line),
           BeganMajor(r)
    PROVE  c \in Digits \/ c = "."
<1> DEFINE l == Len(r)
<1>1. l \in Nat /\ DOMAIN r = 1..l /\ Len(line) \in Nat
  BY LenProperties DEF Continues
<1>2. PICK i \in Nat, j \in Nat, dot \in Nat : RequestLineAt(line, i, j, dot)
  BY PlacesOfRequestLine DEF Continues
<1>3. j + 5 < l /\ \A k \in j + 6..l : r[k] \in Digits
  <2>1. PICK space \in DOMAIN r, other \in DOMAIN r :
            /\ BeganProtocol(r, space, other, 5)
            /\ other + 5 < l /\ \A k \in other + 6..l : r[k] \in Digits
    BY DEF BeganMajor, AllIn
  <2>2. other = j
    BY <1>2, <2>1, SameSpaces
  <2> QED
    BY <2>1, <2>2
<1>4. /\ \A k \in 1..l : line[k] = r[k]
      /\ (c = "CR" /\ Len(line) = l) \/ (l < Len(line) /\ line[l + 1] = c)
  BY DEF Continues
<1> HIDE DEF l
<1>5. ~(dot \in j + 6..l)
  BY <1>1, <1>2, <1>3, <1>4, Classes DEF RequestLineAt
<1>6. l < dot /\ line[l + 1] = c
  BY <1>1, <1>2, <1>3, <1>4, <1>5 DEF RequestLineAt
<1>7. CASE l + 1 = dot
  BY <1>2, <1>6, <1>7 DEF RequestLineAt
<1>8. CASE l + 1 # dot
  <2>1. l + 1 \in j + 6..dot - 1
    BY <1>1, <1>2, <1>3, <1>6, <1>8
  <2> QED
    BY <1>2, <1>6, <2>1 DEF RequestLineAt
<1> QED
  BY <1>7, <1>8

\* The dot is where it was.
LEMMA SameDot ==
    ASSUME NEW r \in Seq(Characters), NEW c, NEW line, Continues(r, c, line),
           NEW i \in Nat, NEW j \in Nat, NEW dot \in Nat, RequestLineAt(line, i, j, dot),
           NEW other \in DOMAIN r, r[other] = ".", j + 6 < other, AllIn(r, j + 6, other - 1, Digits)
    PROVE  other = dot
<1> DEFINE l == Len(r)
<1>1. l \in Nat /\ DOMAIN r = 1..l /\ Len(line) \in Nat
  BY LenProperties DEF Continues
<1>2. l =< Len(line) /\ \A k \in 1..l : line[k] = r[k]
  BY DEF Continues
<1> HIDE DEF l
<1>3. other \in 1..l /\ \A k \in j + 6..other - 1 : r[k] \in Digits
  BY <1>1 DEF AllIn
<1>4. ~(other \in j + 6..dot - 1)
  <2>1. line[other] = "."
    BY <1>2, <1>3
  <2> QED
    BY <2>1, Classes DEF RequestLineAt
<1>5. ~(dot \in j + 6..other - 1)
  BY <1>1, <1>2, <1>3, Classes DEF RequestLineAt
<1>6. j + 6 < dot
  BY DEF RequestLineAt
<1> QED
  BY <1>3, <1>4, <1>5, <1>6

LEMMA AfterMinor ==
    ASSUME NEW r \in Seq(Characters), NEW c, NEW line, Continues(r, c, line), IsRequestLine(line)
    PROVE  /\ BeganMinor(r) => c \in Digits
           /\ IsRequestLine(r) => c \in Digits \/ c = "CR"
<1> DEFINE l == Len(r)
<1>1. l \in Nat /\ DOMAIN r = 1..l /\ Len(line) \in Nat
  BY LenProperties DEF Continues
<1>2. PICK i \in Nat, j \in Nat, dot \in Nat : RequestLineAt(line, i, j, dot)
  BY PlacesOfRequestLine DEF Continues
<1>3. (c = "CR" /\ Len(line) = l) \/ (l < Len(line) /\ line[l + 1] = c)
  BY DEF Continues
<1>4. ASSUME BeganMinor(r) PROVE c \in Digits
  <2>1. PICK space \in DOMAIN r, other \in DOMAIN r :
            /\ BeganProtocol(r, space, other, 5)
            /\ other + 6 < l /\ AllIn(r, other + 6, l - 1, Digits)
            /\ r[l] = "."
    BY <1>4 DEF BeganMinor
  <2>2. other = j
    BY <1>2, <2>1, SameSpaces
  <2>3. l \in DOMAIN r
    BY <1>1, <2>1
  <2>4. l = dot
    BY <1>2, <2>1, <2>2, <2>3, SameDot
  <2> HIDE DEF l
  <2> QED
    BY <1>1, <1>2, <1>3, <2>4 DEF RequestLineAt
<1>5. ASSUME IsRequestLine(r), l < Len(line) PROVE c \in Digits
  <2>1. PICK space \in 1..l, other \in 1..l, point \in 1..l :
            /\ r[space] = "SP" /\ r[other] = "SP" /\ r[point] = "."
            /\ SplitsRequest(r, space, other) /\ SplitsVersion(r, other, point)
    BY <1>1, <1>5 DEF IsRequestLine, At
  <2>2. BeganProtocol(r, space, other, 0)
    BY <1>1, <2>1 DEF BeganProtocol, At
  <2>3. other = j
    BY <1>1, <1>2, <2>2, SameSpaces
  <2>4. point = dot
    <3>1. j + 6 < point /\ AllIn(r, j + 6, point - 1, Digits) /\ point \in DOMAIN r
      BY <1>1, <2>1, <2>3 DEF SplitsVersion
    <3> QED
      BY <1>2, <2>1, <3>1, SameDot
  <2> HIDE DEF l
  <2>5. l + 1 \in dot + 1..Len(line)
    BY <1>1, <1>5, <2>1, <2>4
  <2>6. line[l + 1] = c
    BY <1>1, <1>3, <1>5
  <2>7. \A k \in dot + 1..Len(line) : line[k] \in Digits
    BY <1>2 DEF RequestLineAt
  <2> QED
    BY <2>5, <2>6, <2>7
<1> QED
  BY <1>3, <1>4, <1>5

\* No line goes on after a carriage return.
LEMMA NoLineAfterReturn ==
    ASSUME NEW w \in Seq(Characters), NEW k, IsLine(k, w)
    PROVE  w # <<>> /\ \A x \in DOMAIN w : w[x] # "CR"
<1>1. Len(w) \in Nat /\ DOMAIN w = 1..Len(w) /\ (w = <<>> <=> Len(w) = 0)
  BY EmptySeq, LenProperties
<1>2. CASE IsRequestLine(w)
  <2>1. PICK i \in Nat, j \in Nat, dot \in Nat : RequestLineAt(w, i, j, dot)
    BY <1>2, PlacesOfRequestLine
  <2>2. ASSUME NEW x \in 1..Len(w) PROVE w[x] # "CR"
    <3>1. CASE x \in 1..i - 1 \/ x = i
      BY <2>1, <3>1, Classes DEF RequestLineAt
    <3>2. CASE x \in i + 1..j - 1 \/ x = j
      BY <2>1, <3>2, Classes DEF RequestLineAt
    <3>3. CASE x \in j + 1..j + 5
      <4>1. x - j \in 1..5 /\ x = j + (x - j)
        BY <3>3
      <4> QED
        BY <2>1, <4>1, Classes DEF RequestLineAt
    <3>4. CASE x \in j + 6..dot - 1 \/ x = dot \/ x \in dot + 1..Len(w)
      BY <2>1, <3>4, Classes DEF RequestLineAt
    <3> QED
      BY <1>1, <3>1, <3>2, <3>3, <3>4
  <2> QED
    BY <1>1, <2>1, <2>2 DEF RequestLineAt
<1>3. CASE IsHeader(w)
  <2>1. PICK i \in 1..Len(w) : w[i] = ":" /\ SplitsHeader(w, i)
    BY <1>1, <1>3 DEF IsHeader, At
  <2>2. ASSUME NEW x \in 1..Len(w) PROVE w[x] # "CR"
    <3>1. x \in 1..i - 1 \/ x = i \/ x = i + 1 \/ x \in i + 2..Len(w)
      BY <1>1
    <3> QED
      BY <2>1, <3>1, Classes DEF SplitsHeader, AllIn
  <2> QED
    BY <1>1, <2>1, <2>2
<1>4. CASE IsContinuation(w)
  <2>1. PICK i \in 1..Len(w) : SplitsContinuation(w, i)
    BY <1>1, <1>4 DEF IsContinuation
  <2>2. ASSUME NEW x \in 1..Len(w) PROVE w[x] # "CR"
    <3>1. x \in 1..i \/ x \in i + 1..Len(w)
      BY <1>1
    <3> QED
      BY <2>1, <3>1, Classes DEF SplitsContinuation, AllIn
  <2> QED
    BY <1>1, <2>1, <2>2
<1> QED
  BY <1>2, <1>3, <1>4 DEF IsLine

\* The places of a header, and of a line that continues one.
HeaderAt(w, i) ==
    /\ 1 < i /\ i < Len(w) /\ w[i] = ":" /\ w[i + 1] = "SP"
    /\ \A k \in 1..i - 1 : w[k] \in Tokens
    /\ \A k \in i + 2..Len(w) : w[k] \in Printable

ContinuationAt(w, i) ==
    /\ 1 =< i /\ i =< Len(w)
    /\ \A k \in 1..i : w[k] \in Blanks
    /\ \A k \in i + 1..Len(w) : w[k] \in Printable
    /\ i < Len(w) => w[i + 1] \notin Blanks

LEMMA PlacesOfLaterLine ==
    ASSUME NEW w \in Seq(Characters), NEW k \in Nat, k >= 2, IsLine(k, w)
    PROVE  /\ Len(w) \in Nat
           /\ \/ \E i \in Nat : HeaderAt(w, i)
              \/ k >= 3 /\ \E i \in Nat : ContinuationAt(w, i)
<1>1. Len(w) \in Nat /\ DOMAIN w = 1..Len(w)
  BY LenProperties
<1>2. IsHeader(w) \/ (k >= 3 /\ IsContinuation(w))
  BY DEF IsLine
<1>3. ASSUME IsHeader(w) PROVE \E i \in Nat : HeaderAt(w, i)
  <2>1. PICK i \in 1..Len(w) : w[i] = ":" /\ SplitsHeader(w, i)
    BY <1>1, <1>3 DEF IsHeader, At
  <2>2. HeaderAt(w, i)
    BY <2>1 DEF HeaderAt, SplitsHeader, AllIn
  <2> QED
    BY <2>2
<1>4. ASSUME IsContinuation(w) PROVE \E i \in Nat : ContinuationAt(w, i)
  <2>1. PICK i \in 1..Len(w) : SplitsContinuation(w, i)
    BY <1>1, <1>4 DEF IsContinuation
  <2>2. ContinuationAt(w, i)
    BY <2>1 DEF ContinuationAt, SplitsContinuation, AllIn
  <2> QED
    BY <2>2
<1> QED
  BY <1>1, <1>2, <1>3, <1>4

LEMMA AfterLine ==
    ASSUME NEW c, NEW k \in Nat, k >= 2, NEW line, Continues(<<>>, c, line), IsLine(k, line)
    PROVE  c \in Tokens \/ (k >= 3 /\ c \in Blanks)
<1>1. /\ line \in Seq(Characters) /\ Len(line) \in Nat
      /\ (c = "CR" /\ Len(line) = 0) \/ (0 < Len(line) /\ line[1] = c)
  BY PlacesOfLaterLine DEF Continues
<1>2. ASSUME NEW i \in Nat, HeaderAt(line, i) PROVE c \in Tokens
  BY <1>1, <1>2 DEF HeaderAt
<1>3. ASSUME NEW i \in Nat, ContinuationAt(line, i) PROVE c \in Blanks
  BY <1>1, <1>3 DEF ContinuationAt
<1> QED
  BY <1>1, <1>2, <1>3, PlacesOfLaterLine

LEMMA AfterBlanks ==
    ASSUME NEW r \in Seq(Characters), NEW c, NEW k \in Nat, k >= 2,
           NEW line, Continues(r, c, line), IsLine(k, line),
           r # <<>>, AllIn(r, 1, Len(r), Blanks)
    PROVE  c \in Blanks \/ c \in Printable \/ c = "CR"
<1> DEFINE l == Len(r)
<1>1. /\ line \in Seq(Characters) /\ Len(line) \in Nat /\ l \in Nat /\ 1 =< l
      /\ \A x \in 1..l : line[x] = r[x] /\ r[x] \in Blanks
      /\ c = "CR" \/ (l < Len(line) /\ line[l + 1] = c)
  BY EmptySeq, LenProperties, PlacesOfLaterLine DEF Continues, AllIn
<1> HIDE DEF l
<1>2. ASSUME NEW i \in Nat, HeaderAt(line, i) PROVE FALSE
  <2>1. line[1] \in Blanks
    BY <1>1
  <2>2. line[1] \in Tokens
    BY <1>2 DEF HeaderAt
  <2> QED
    BY <2>1, <2>2, Classes
<1>3. ASSUME NEW i \in Nat, ContinuationAt(line, i), c # "CR" PROVE c \in Blanks \/ c \in Printable
  <2>1. l + 1 \in 1..i \/ l + 1 \in i + 1..Len(line)
    BY <1>1, <1>3
  <2> QED
    BY <1>1, <1>3, <2>1 DEF ContinuationAt
<1> QED
  BY <1>1, <1>2, <1>3, PlacesOfLaterLine

LEMMA AfterName ==
    ASSUME NEW r \in Seq(Characters), NEW c, NEW k \in Nat, k >= 2,
           NEW line, Continues(r, c, line), IsLine(k, line),
           r # <<>>, AllIn(r, 1, Len(r), Tokens)
    PROVE  c \in Tokens \/ c = ":"
<1> DEFINE l == Len(r)
<1>1. /\ line \in Seq(Characters) /\ Len(line) \in Nat /\ l \in Nat /\ 1 =< l /\ l =< Len(line)
      /\ \A x \in 1..l : line[x] = r[x] /\ r[x] \in Tokens
      /\ (c = "CR" /\ Len(line) = l) \/ (l < Len(line) /\ line[l + 1] = c)
  BY EmptySeq, LenProperties, PlacesOfLaterLine DEF Continues, AllIn
<1> HIDE DEF l
<1>2. ASSUME NEW i \in Nat, ContinuationAt(line, i) PROVE FALSE
  <2>1. line[1] \in Tokens
    BY <1>1
  <2>2. line[1] \in Blanks
    BY <1>2 DEF ContinuationAt
  <2> QED
    BY <2>1, <2>2, Classes
<1>3. ASSUME NEW i \in Nat, HeaderAt(line, i) PROVE c \in Tokens \/ c = ":"
  <2>1. ~(i \in 1..l)
    BY <1>1, <1>3, Classes DEF HeaderAt
  <2>2. l < i /\ line[l + 1] = c
    BY <1>1, <1>3, <2>1 DEF HeaderAt
  <2>3. l + 1 \in 1..i - 1 \/ l + 1 = i
    BY <1>1, <2>2
  <2> QED
    BY <1>3, <2>2, <2>3 DEF HeaderAt
<1> QED
  BY <1>2, <1>3, PlacesOfLaterLine, <1>1

LEMMA AfterColon ==
    ASSUME NEW r \in Seq(Characters), NEW c, NEW k \in Nat, k >= 2,
           NEW line, Continues(r, c, line), IsLine(k, line), BeganHeader(r)
    PROVE  c = "SP"
<1> DEFINE l == Len(r)
<1>1. /\ line \in Seq(Characters) /\ Len(line) \in Nat /\ l \in Nat /\ 1 < l /\ l =< Len(line)
      /\ r[l] = ":" /\ \A x \in 1..l - 1 : r[x] \in Tokens
      /\ \A x \in 1..l : line[x] = r[x]
      /\ (c = "CR" /\ Len(line) = l) \/ (l < Len(line) /\ line[l + 1] = c)
  BY LenProperties, PlacesOfLaterLine DEF Continues, AllIn, BeganHeader
<1> HIDE DEF l
<1>2. ASSUME NEW i \in Nat, ContinuationAt(line, i) PROVE FALSE
  <2>1. line[1] \in Tokens
    BY <1>1
  <2>2. line[1] \in Blanks
    BY <1>2 DEF ContinuationAt
  <2> QED
    BY <2>1, <2>2, Classes
<1>3. ASSUME NEW i \in Nat, HeaderAt(line, i) PROVE c = "SP"
  <2>1. ~(i \in 1..l - 1)
    BY <1>1, <1>3, Classes DEF HeaderAt
  <2>2. ~(l \in 1..i - 1)
    <3>1. line[l] = ":"
      BY <1>1
    <3> QED
      BY <1>3, <3>1, Classes DEF HeaderAt
  <2>3. i = l
    BY <1>1, <1>3, <2>1, <2>2 DEF HeaderAt
  <2> QED
    BY <1>1, <1>3, <2>3 DEF HeaderAt
<1> QED
  BY <1>2, <1>3, PlacesOfLaterLine, <1>1

LEMMA AfterValue ==
    ASSUME NEW r \in Seq(Characters), NEW c, NEW k \in Nat, k >= 2,
           NEW line, Continues(r, c, line), IsLine(k, line), IsHeader(r) \/ BeganContinuation(r)
    PROVE  c \in Printable \/ c = "CR"
<1> DEFINE l == Len(r)
<1>1. /\ line \in Seq(Characters) /\ Len(line) \in Nat /\ l \in Nat /\ l =< Len(line)
      /\ DOMAIN r = 1..l
      /\ \A x \in 1..l : line[x] = r[x]
      /\ c = "CR" \/ (l < Len(line) /\ line[l + 1] = c)
  BY LenProperties, PlacesOfLaterLine DEF Continues
<1>2. ASSUME IsHeader(r) PROVE \E x \in Nat : HeaderAt(r, x)
  <2>1. IsLine(2, r)
    BY <1>2 DEF IsLine
  <2>2. ~(2 >= 3) /\ 2 >= 2 /\ 2 \in Nat
    OBVIOUS
  <2> QED
    BY <2>1, <2>2, PlacesOfLaterLine
<1>3. ASSUME BeganContinuation(r) PROVE \E x \in Nat : ContinuationAt(r, x) /\ x < l
  <2>1. PICK x \in 1..l : SplitsContinuation(r, x) /\ x < l
    BY <1>1, <1>3 DEF BeganContinuation
  <2>2. ContinuationAt(r, x)
    BY <2>1 DEF ContinuationAt, SplitsContinuation, AllIn
  <2> QED
    BY <2>1, <2>2
<1>4. ASSUME NEW i \in Nat, HeaderAt(line, i), NEW x \in Nat, HeaderAt(r, x), c # "CR"
      PROVE  c \in Printable
  <2> HIDE DEF l
  <2>1. ~(i \in 1..x - 1)
    <3>1. \A y \in 1..x - 1 : y \in 1..l /\ r[y] \in Tokens
      BY <1>1, <1>4 DEF HeaderAt, l
    <3>2. i \in 1..x - 1 => line[i] \in Tokens
      BY <1>1, <3>1
    <3> QED
      BY <1>4, <3>2, Classes DEF HeaderAt
  <2>2. ~(x \in 1..i - 1)
    <3>1. x \in 1..l /\ r[x] = ":"
      BY <1>1, <1>4 DEF HeaderAt, l
    <3>2. line[x] = ":"
      BY <1>1, <3>1
    <3> QED
      BY <1>4, <3>2, Classes DEF HeaderAt
  <2>3. i = x /\ x < l
    BY <1>1, <1>4, <2>1, <2>2 DEF HeaderAt, l
  <2>4. l + 1 \in i + 2..Len(line)
    BY <1>1, <1>4, <2>3
  <2> QED
    BY <1>1, <1>4, <2>4 DEF HeaderAt
<1>5. ASSUME NEW i \in Nat, ContinuationAt(line, i), NEW x \in Nat, ContinuationAt(r, x), x < l, c # "CR"
      PROVE  c \in Printable
  <2> HIDE DEF l
  <2>1. ~(i < x)
    <3>1. i + 1 \in 1..x => r[i + 1] \in Blanks /\ i + 1 \in 1..l
      BY <1>1, <1>5 DEF ContinuationAt, l
    <3>2. i < x => i + 1 \in 1..x /\ i < Len(line)
      BY <1>1, <1>5
    <3> QED
      BY <1>1, <1>5, <3>1, <3>2 DEF ContinuationAt
  <2>2. ~(x < i)
    <3>1. x + 1 \in 1..l /\ r[x + 1] \notin Blanks
      BY <1>1, <1>5 DEF ContinuationAt, l
    <3>2. line[x + 1] \notin Blanks
      BY <1>1, <3>1
    <3>3. x < i => x + 1 \in 1..i
      BY <1>5
    <3> QED
      BY <1>5, <3>2, <3>3 DEF ContinuationAt
  <2>3. l + 1 \in i + 1..Len(line)
    BY <1>1, <1>5, <2>1, <2>2
  <2> QED
    BY <1>1, <1>5, <2>3 DEF ContinuationAt
<1>6. ASSUME NEW w, NEW v, Len(w) \in Nat, Len(v) \in Nat, NEW i \in Nat, HeaderAt(w, i),
             NEW x \in Nat, ContinuationAt(v, x)
      PROVE  w[1] # v[1]
  <2>1. w[1] \in Tokens /\ v[1] \in Blanks
    BY <1>6 DEF HeaderAt, ContinuationAt
  <2> QED
    BY <2>1, Classes
<1>7. l # 0 => line[1] = r[1]
  <2> HIDE DEF l
  <2> QED
    BY <1>1
<1>8. l # 0
  BY <1>1, <1>2, <1>3 DEF HeaderAt, ContinuationAt
<1> QED
  BY <1>1, <1>2, <1>3, <1>4, <1>5, <1>6, <1>7, <1>8, PlacesOfLaterLine

\* What begins a line may be followed by its last character.
LEMMA BeginningsContinue ==
    ASSUME NEW r \in Seq(Characters), NEW c \in Characters, NEW k, BeginsLine(k, Append(r, c))
    PROVE  \/ k >= 2 /\ r = <<>> /\ c = "CR"
           \/ \E line : Continues(r, c, line) /\ IsLine(k, line)
<1> DEFINE a == Append(r, c)
           l == Len(r)
<1>0. a = Append(r, c)
  OBVIOUS
<1> HIDE DEF a
<1>1. /\ a \in Seq(Characters) /\ a # <<>> /\ Front(a) = r
      /\ l \in Nat /\ Len(a) = l + 1 /\ a[l + 1] = c
      /\ \A x \in 1..l : a[x] = r[x]
      /\ r = <<>> <=> l = 0
  <2>1. Front(a) = r
    BY <1>0, Longer, Zenon
  <2>2. /\ a \in Seq(Characters) /\ a # <<>>
        /\ l \in Nat /\ Len(a) = l + 1 /\ a[l + 1] = c
        /\ \A x \in 1..l : a[x] = r[x]
        /\ r = <<>> <=> l = 0
    BY <1>0, Longer
  <2> QED
    BY <2>1, <2>2
<1>2. CASE k >= 2 /\ a \in {<<>>, <<"CR">>}
  <2>1. Len(a) = 1 /\ a[1] = "CR"
    BY <1>1, <1>2
  <2>2. l = 0
    BY <1>1, <2>1
  <2> QED
    BY <1>1, <1>2, <2>1, <2>2
<1>3. CASE a # <<>> /\ Last(a) = "CR" /\ IsLine(k, Front(a))
  <2>1. c = "CR"
    BY <1>1, <1>3 DEF Last
  <2>2. Continues(r, c, r)
    BY <1>1, <2>1 DEF Continues
  <2> QED
    BY <1>1, <1>3, <2>2
<1>4. CASE \E other \in Completed(a, IF k = 1 THEN ARequestLine ELSE AHeader) : IsLine(k, other)
  <2> DEFINE T == IF k = 1 THEN ARequestLine ELSE AHeader
  <2>1. T \in Seq(Characters) /\ Len(T) \in Nat
    <3>1. {"P", "SP", "H", "T", "/", "1", ".", ":"} \subseteq Characters
      BY DEF Characters, Tokens, Specials, Digits
    <3>2. /\ ARequestLine \in Seq(Characters) /\ Len(ARequestLine) = 11
          /\ AHeader \in Seq(Characters) /\ Len(AHeader) = 3
      BY <3>1 DEF ARequestLine, AHeader
    <3> QED
      BY <3>2
  <2> HIDE DEF T
  <2>2. PICK x \in 1..Len(T) + 1 : IsLine(k, a \o SubSeq(T, x, Len(T)))
    BY <1>4 DEF Completed, T
  <2>3. SubSeq(T, x, Len(T)) \in Seq(Characters)
    <3>1. x \in Int /\ Len(T) \in Int /\ \A y \in x..Len(T) : y \in 1..Len(T)
      BY <2>1
    <3>2. \A y \in x..Len(T) : T[y] \in Characters
      BY <2>1, <3>1, ElementOfSeq
    <3> QED
      BY <3>1, <3>2, SubSeqProperties
  <2> DEFINE tail == SubSeq(T, x, Len(T))
             line == a \o tail
  <2> HIDE DEF tail
  <2>4. /\ line \in Seq(Characters) /\ Len(line) = Len(a) + Len(tail) /\ Len(tail) \in Nat
        /\ \A y \in 1..Len(a) + Len(tail) : line[y] = IF y =< Len(a) THEN a[y] ELSE tail[y - Len(a)]
    BY <1>1, <2>3, ConcatProperties, LenProperties DEF tail
  <2>5. IsLine(k, line)
    BY <2>2 DEF tail
  <2> HIDE DEF line, l
  <2>6. /\ Len(line) >= l + 1
        /\ \A y \in 1..l + 1 : line[y] = a[y]
    BY <1>1, <2>4
  <2>7. Continues(r, c, line)
    BY <1>1, <2>4, <2>6 DEF Continues, l
  <2> QED
    BY <2>5, <2>7
<1> QED
  BY <1>2, <1>3, <1>4 DEF BeginsLine, a

\* What each state moves on.
RequestLineAllows(s, c) ==
    \/ s \in {"method_start", "method"} /\ c \in Tokens
    \/ s = "method" /\ c = "SP"
    \/ s = "uri" /\ c \in Printable
    \/ s = "http_version_h" /\ c = "H"
    \/ s \in {"http_version_t_1", "http_version_t_2"} /\ c = "T"
    \/ s = "http_version_p" /\ c = "P"
    \/ s = "http_version_slash" /\ c = "/"
    \/ s \in {"http_version_major_start", "http_version_major",
              "http_version_minor_start", "http_version_minor"} /\ c \in Digits
    \/ s = "http_version_major" /\ c = "."
    \/ s = "http_version_minor" /\ c = "CR"

HeaderLineAllows(s, n, c) ==
    \/ s = "header_line_start" /\ (c \in Tokens \/ c = "CR" \/ (n >= 2 /\ c \in Blanks))
    \/ s = "header_lws" /\ (c \in Blanks \/ c \in Printable \/ c = "CR")
    \/ s = "header_name" /\ (c \in Tokens \/ c = ":")
    \/ s = "space_before_header_value" /\ c = "SP"
    \/ s = "header_value" /\ (c \in Printable \/ c = "CR")

LEMMA RequestLineContinues ==
    ASSUME NEW s, NEW r \in Seq(Characters), NEW c \in Characters, RequestLineShape(s, r),
           NEW line, Continues(r, c, line), IsRequestLine(line)
    PROVE  RequestLineAllows(s, c)
<1>1. CASE s = "method_start" /\ r = <<>>
  BY <1>1, AfterMethod DEF RequestLineAllows
<1>2. CASE s = "method" /\ r # <<>> /\ AllIn(r, 1, Len(r), Tokens)
  BY <1>2, AfterMethod DEF RequestLineAllows
<1>3. CASE s = "uri" /\ \E i \in DOMAIN r : BeganUri(r, i)
  BY <1>3, AfterUri DEF RequestLineAllows
<1>4. ASSUME NEW m \in 0..5, BeganVersion(r, m)
      PROVE  IF m < 5 THEN c = Protocol[m + 1] ELSE c \in Digits
  BY <1>4, AfterProtocol
<1>5. CASE s = "http_version_h" /\ BeganVersion(r, 0)
  <2>1. 0 \in 0..5 /\ 0 < 5 /\ 0 + 1 = 1
    OBVIOUS
  <2>2. c = Protocol[1]
    BY <1>4, <1>5, <2>1
  <2> QED
    BY <1>5, <2>2 DEF RequestLineAllows, Protocol
<1>6. CASE s = "http_version_t_1" /\ BeganVersion(r, 1)
  <2>1. 1 \in 0..5 /\ 1 < 5 /\ 1 + 1 = 2
    OBVIOUS
  <2>2. c = Protocol[2]
    BY <1>4, <1>6, <2>1
  <2> QED
    BY <1>6, <2>2 DEF RequestLineAllows, Protocol
<1>7. CASE s = "http_version_t_2" /\ BeganVersion(r, 2)
  <2>1. 2 \in 0..5 /\ 2 < 5 /\ 2 + 1 = 3
    OBVIOUS
  <2>2. c = Protocol[3]
    BY <1>4, <1>7, <2>1
  <2> QED
    BY <1>7, <2>2 DEF RequestLineAllows, Protocol
<1>8. CASE s = "http_version_p" /\ BeganVersion(r, 3)
  <2>1. 3 \in 0..5 /\ 3 < 5 /\ 3 + 1 = 4
    OBVIOUS
  <2>2. c = Protocol[4]
    BY <1>4, <1>8, <2>1
  <2> QED
    BY <1>8, <2>2 DEF RequestLineAllows, Protocol
<1>9. CASE s = "http_version_slash" /\ BeganVersion(r, 4)
  <2>1. 4 \in 0..5 /\ 4 < 5 /\ 4 + 1 = 5
    OBVIOUS
  <2>2. c = Protocol[5]
    BY <1>4, <1>9, <2>1
  <2> QED
    BY <1>9, <2>2 DEF RequestLineAllows, Protocol
<1>10. CASE s = "http_version_major_start" /\ BeganVersion(r, 5)
  <2>1. 5 \in 0..5 /\ ~(5 < 5)
    OBVIOUS
  <2>2. c \in Digits
    BY <1>4, <1>10, <2>1
  <2> QED
    BY <1>10, <2>2 DEF RequestLineAllows
<1>11. CASE s = "http_version_major" /\ BeganMajor(r)
  BY <1>11, AfterMajor DEF RequestLineAllows
<1>12. CASE s = "http_version_minor_start" /\ BeganMinor(r)
  BY <1>12, AfterMinor DEF RequestLineAllows
<1>13. CASE s = "http_version_minor" /\ IsRequestLine(r)
  BY <1>13, AfterMinor DEF RequestLineAllows
<1>14. CASE s = "expecting_newline_1" /\ r # <<>> /\ r[Len(r)] = "CR" /\ IsRequestLine(Front(r))
  <2>1. Len(r) \in 1..Len(r) /\ Len(r) \in DOMAIN line /\ line \in Seq(Characters)
    BY <1>14, EmptySeq, LenProperties DEF Continues
  <2>2. line[Len(r)] = "CR" /\ IsLine(1, line)
    BY <1>14, <2>1 DEF Continues, IsLine
  <2> QED
    BY <2>1, <2>2, NoLineAfterReturn
<1> QED
  BY <1>1, <1>2, <1>3, <1>5, <1>6, <1>7, <1>8, <1>9, <1>10, <1>11, <1>12, <1>13, <1>14
  DEF RequestLineShape

LEMMA HeaderLineContinues ==
    ASSUME NEW s, NEW n \in Nat, n >= 1, NEW r \in Seq(Characters), NEW c \in Characters,
           HeaderLineShape(s, n, r),
           NEW line, Continues(r, c, line), IsLine(n + 1, line)
    PROVE  HeaderLineAllows(s, n, c)
<1>0. n + 1 \in Nat /\ n + 1 >= 2 /\ (n + 1 >= 3 => n >= 2)
  OBVIOUS
<1> DEFINE k == n + 1
<1> HIDE DEF k
<1>1. k \in Nat /\ k >= 2 /\ IsLine(k, line) /\ (k >= 3 => n >= 2)
  BY <1>0 DEF k
<1>2. CASE s = "header_line_start" /\ r = <<>>
  BY <1>1, <1>2, AfterLine DEF HeaderLineAllows
<1>3. CASE s = "header_lws" /\ n >= 2 /\ r # <<>> /\ AllIn(r, 1, Len(r), Blanks)
  BY <1>1, <1>3, AfterBlanks DEF HeaderLineAllows
<1>4. CASE s = "header_name" /\ r # <<>> /\ AllIn(r, 1, Len(r), Tokens)
  BY <1>1, <1>4, AfterName DEF HeaderLineAllows
<1>5. CASE s = "space_before_header_value" /\ BeganHeader(r)
  BY <1>1, <1>5, AfterColon DEF HeaderLineAllows
<1>6. CASE s = "header_value" /\ (IsHeader(r) \/ (n >= 2 /\ BeganContinuation(r)))
  BY <1>1, <1>6, AfterValue DEF HeaderLineAllows
<1>7. CASE r # <<>> /\ r[Len(r)] = "CR"
  <2>1. Len(r) \in 1..Len(r) /\ Len(r) \in DOMAIN line /\ line \in Seq(Characters)
    BY <1>7, EmptySeq, LenProperties DEF Continues
  <2>2. line[Len(r)] = "CR"
    BY <1>7, <2>1 DEF Continues
  <2> QED
    BY <1>1, <2>1, <2>2, NoLineAfterReturn
<1>8. r = <<"CR">> => r # <<>> /\ r[Len(r)] = "CR"
  OBVIOUS
<1> QED
  BY <1>2, <1>3, <1>4, <1>5, <1>6, <1>7, <1>8 DEF HeaderLineShape

\* The parser moves on what may follow.
LEMMA FollowingIsAllowed ==
    ASSUME NEW s, NEW n \in Nat, NEW r \in Seq(Characters), NEW c \in Characters,
           Shape(s, n, r), BeginsLine(n + 1, Append(r, c))
    PROVE  RequestLineAllows(s, c) \/ HeaderLineAllows(s, n, c)
<1>1. \/ n + 1 >= 2 /\ r = <<>> /\ c = "CR"
      \/ \E line : Continues(r, c, line) /\ IsLine(n + 1, line)
  BY BeginningsContinue
<1>2. CASE n = 0 /\ RequestLineShape(s, r)
  <2>1. PICK line : Continues(r, c, line) /\ IsRequestLine(line)
    BY <1>1, <1>2 DEF IsLine
  <2> QED
    BY <1>2, <2>1, RequestLineContinues
<1>3. CASE n >= 1 /\ HeaderLineShape(s, n, r)
  <2>1. CASE r = <<>> /\ c = "CR"
    <3>1. Len(r) = 0 /\ DOMAIN r = {}
      BY <2>1
    <3>2. ~BeganHeader(r) /\ ~IsHeader(r) /\ ~BeganContinuation(r) /\ r # <<"CR">>
      BY <3>1 DEF BeganHeader, IsHeader, At, BeganContinuation
    <3>3. s = "header_line_start"
      BY <1>3, <2>1, <3>2 DEF HeaderLineShape
    <3> QED
      BY <2>1, <3>3 DEF HeaderLineAllows
  <2>2. ASSUME NEW line, Continues(r, c, line), IsLine(n + 1, line) PROVE HeaderLineAllows(s, n, c)
    BY <1>3, <2>2, HeaderLineContinues
  <2> QED
    BY <1>1, <2>1, <2>2
<1> QED
  BY <1>2, <1>3 DEF Shape

LEMMA AllowedIsMoved ==
    ASSUME NEW c \in Characters, NEW n \in Nat, n >= 2 => req.headers # <<>>,
           RequestLineAllows(state_, c) \/ HeaderLineAllows(state_, n, c)
    PROVE  Moves(c) # {}
<1>1. ASSUME NEW s, NEW rq PROVE To(s, rq) # {} /\ When(TRUE, To(s, rq)) = To(s, rq)
  BY DEF To, When
<1>2. ASSUME NEW t \in Fixed, t[1] = state_, t[2] = c PROVE Moves(c) # {}
  <2>1. When(t[1] = state_ /\ t[2] = c, To(t[3], req)) # {}
    BY <1>2 DEF To, When
  <2>2. FixedMoves(c) # {}
    BY <2>1 DEF FixedMoves
  <2> QED
    BY <2>2 DEF Moves
<1>3. ASSUME NEW s, <<state_, c, s>> \in Fixed PROVE Moves(c) # {}
  <2> DEFINE t == <<state_, c, s>>
  <2>1. t[1] = state_ /\ t[2] = c /\ t \in Fixed
    BY <1>3
  <2> QED
    BY <1>2, <2>1
<1>4. CASE state_ \in {"method_start", "method"} /\ c \in Tokens
  <2>1. MethodMoves(c) # {}
    BY <1>4 DEF MethodMoves, To, When
  <2> QED
    BY <2>1 DEF Moves
<1>5. CASE state_ = "uri" /\ c \in Printable \ {"SP"}
  <2>1. UriMoves(c) # {}
    BY <1>5 DEF UriMoves, To, When
  <2> QED
    BY <2>1 DEF Moves
<1>6. CASE /\ state_ \in {"http_version_major_start", "http_version_major",
                         "http_version_minor_start", "http_version_minor"}
           /\ c \in Digits
  <2>1. VersionMoves(c) # {}
    BY <1>6 DEF VersionMoves, To, When
  <2> QED
    BY <2>1 DEF Moves
<1>7. CASE state_ = "header_line_start" /\ (c \in Tokens \/ (n >= 2 /\ c \in Blanks))
  <2>1. LineMoves(c) # {}
    BY <1>7 DEF LineMoves, To, When
  <2> QED
    BY <2>1 DEF Moves
<1>8. CASE \/ state_ = "header_lws" /\ (c \in Blanks \/ c \in Printable)
           \/ state_ = "header_value" /\ c \in Printable
           \/ state_ = "header_name" /\ c \in Tokens
  <2>1. HeaderMoves(c) # {}
    BY <1>8 DEF HeaderMoves, To, When
  <2> QED
    BY <2>1 DEF Moves
<1>9. CASE \E s \in States \union {"expecting_newline_3"} : <<state_, c, s>> \in Fixed
  BY <1>3, <1>9
<1>10. CASE RequestLineAllows(state_, c)
  <2>1. \/ state_ \in {"method_start", "method"} /\ c \in Tokens
        \/ state_ = "uri" /\ c \in Printable \ {"SP"}
        \/ /\ state_ \in {"http_version_major_start", "http_version_major",
                         "http_version_minor_start", "http_version_minor"}
           /\ c \in Digits
        \/ \E s : <<state_, c, s>> \in Fixed
    BY <1>10 DEF RequestLineAllows, Fixed
  <2> QED
    BY <1>3, <1>4, <1>5, <1>6, <2>1
<1>11. CASE HeaderLineAllows(state_, n, c)
  <2>1. \/ state_ = "header_line_start" /\ (c \in Tokens \/ (n >= 2 /\ c \in Blanks))
        \/ state_ = "header_lws" /\ (c \in Blanks \/ c \in Printable)
        \/ state_ = "header_value" /\ c \in Printable
        \/ state_ = "header_name" /\ c \in Tokens
        \/ \E s : <<state_, c, s>> \in Fixed
    BY <1>11 DEF HeaderLineAllows, Fixed
  <2> QED
    BY <1>3, <1>7, <1>8, <2>1
<1> QED
  BY <1>10, <1>11

-----------------------------------------------------------------------------
(* What has arrived may become a line.                                      *)

\* What is completed with the rest of a line is completed with one character more of it.
LEMMA OneEarlier ==
    ASSUME NEW T \in Seq(Characters), NEW k \in 1..Len(T), NEW r \in Seq(Characters)
    PROVE  Append(r, T[k]) \o SubSeq(T, k + 1, Len(T)) = r \o SubSeq(T, k, Len(T))
<1>1. Len(T) \in Nat /\ T[k] \in Characters /\ Len(T) \in k..Len(T)
  BY LenProperties, ElementOfSeq
<1>2. SubSeq(T, k, Len(T)) = <<T[k]>> \o SubSeq(T, k + 1, Len(T))
  BY <1>1, SubSeqRecursiveFirst
<1>3. Append(r, T[k]) = r \o <<T[k]>>
  BY <1>1, AppendIsConcat
<1> DEFINE first == <<T[k]>>
           others == SubSeq(T, k + 1, Len(T))
<1>4. first \in Seq(Characters)
  BY <1>1
<1>5. others \in Seq(Characters)
  <2>1. k + 1 \in Int /\ Len(T) \in Int /\ \A x \in k + 1..Len(T) : x \in 1..Len(T)
    BY <1>1
  <2>2. \A x \in k + 1..Len(T) : T[x] \in Characters
    BY <2>1, ElementOfSeq
  <2> QED
    BY <2>1, <2>2, SubSeqProperties
<1>6. Append(r, T[k]) = r \o first /\ SubSeq(T, k, Len(T)) = first \o others
  BY <1>2, <1>3
<1> HIDE DEF first, others
<1>7. (r \o first) \o others = r \o (first \o others)
  <2> DEFINE x == (r \o first) \o others
             y == r \o (first \o others)
  <2>1. r \o first \in Seq(Characters) /\ first \o others \in Seq(Characters)
    BY <1>4, <1>5
  <2>2. x \in Seq(Characters) /\ y \in Seq(Characters)
    BY <1>4, <1>5, <2>1
  <2>3. Len(x) = Len(y)
    BY <1>4, <1>5, <2>1
  <2>4. \A i \in 1..Len(x) : x[i] = y[i]
    BY <1>4, <1>5, <2>1
  <2> HIDE DEF x, y
  <2>5. x = y
    BY <2>2, <2>3, <2>4, SeqEqual
  <2> QED
    BY <2>5 DEF x, y
<1>8. Append(r, T[k]) \o others = r \o SubSeq(T, k, Len(T))
  BY <1>6, <1>7
<1> QED
  BY <1>8 DEF others

\* The line is completed by T from its place k on.
CompletedBy(T, k, n, r) == IsLine(n, r \o SubSeq(T, k, Len(T)))

LEMMA CompletedByOneMore ==
    ASSUME NEW T \in Seq(Characters), NEW r \in Seq(Characters), NEW n,
           NEW k \in 1..Len(T), NEW next, next = k + 1, NEW c, c = T[k],
           NEW a, a = Append(r, c), CompletedBy(T, next, n, a)
    PROVE  CompletedBy(T, k, n, r)
  BY OneEarlier DEF CompletedBy

LEMMA CompletedByNothing ==
    ASSUME NEW T \in Seq(Characters), NEW r \in Seq(Characters), NEW n, IsLine(n, r)
    PROVE  CompletedBy(T, Len(T) + 1, n, r)
<1>1. Len(T) \in Int /\ Len(T) + 1 \in Int /\ Len(T) < Len(T) + 1
  BY LenProperties
<1>2. SubSeq(T, Len(T) + 1, Len(T)) = <<>>
  BY <1>1, SubSeqEmpty
<1>3. r \o <<>> = r
  BY ConcatEmptySeq
<1> QED
  BY <1>2, <1>3 DEF CompletedBy

LEMMA CompletedBegins ==
    ASSUME NEW T \in Seq(Characters), NEW r \in Seq(Characters), NEW n,
           T = IF n = 1 THEN ARequestLine ELSE AHeader,
           NEW k \in 1..Len(T) + 1, CompletedBy(T, k, n, r)
    PROVE  BeginsLine(n, r)
<1>1. r \o SubSeq(T, k, Len(T)) \in Completed(r, T)
  BY DEF Completed
<1> QED
  BY <1>1 DEF BeginsLine, CompletedBy

LEMMA TheTemplates ==
    /\ ARequestLine \in Seq(Characters) /\ Len(ARequestLine) = 11
    /\ AHeader \in Seq(Characters) /\ Len(AHeader) = 3
<1>1. {"P", "SP", "H", "T", "/", "1", ".", ":"} \subseteq Characters
  BY DEF Characters, Tokens, Specials, Digits
<1> QED
  BY <1>1 DEF ARequestLine, AHeader

\* VersionGrows by the places of the version.
LEMMA ProtocolGrows ==
    ASSUME NEW r \in Seq(Characters), NEW c \in Characters, NEW a, a = Append(r, c)
    PROVE  /\ BeganVersion(r, 0) /\ c = "H" => BeganVersion(a, 1)
           /\ BeganVersion(r, 1) /\ c = "T" => BeganVersion(a, 2)
           /\ BeganVersion(r, 2) /\ c = "T" => BeganVersion(a, 3)
           /\ BeganVersion(r, 3) /\ c = "P" => BeganVersion(a, 4)
           /\ BeganVersion(r, 4) /\ c = "/" => BeganVersion(a, 5)
           /\ BeganVersion(r, 5) /\ c \in Digits => BeganMajor(a)
<1>1. \A m \in 0..5 : m < 5 /\ BeganVersion(r, m) /\ c = Protocol[m + 1] => BeganVersion(a, m + 1)
  BY VersionGrows
<1>2. \A m, n \in 0..5 : \A p : n = m + 1 /\ p = Protocol[n] /\ m < 5 /\ BeganVersion(r, m) /\ c = p
                               => BeganVersion(a, n)
  BY <1>1, Zenon
<1>3. \A m \in 0..5 : m = 5 /\ BeganVersion(r, m) /\ c \in Digits => BeganMajor(a)
  BY VersionGrows
<1>4. /\ 0 \in 0..5 /\ 1 \in 0..5 /\ 2 \in 0..5 /\ 3 \in 0..5 /\ 4 \in 0..5 /\ 5 \in 0..5
      /\ 1 = 0 + 1 /\ 2 = 1 + 1 /\ 3 = 2 + 1 /\ 4 = 3 + 1 /\ 5 = 4 + 1
      /\ 0 < 5 /\ 1 < 5 /\ 2 < 5 /\ 3 < 5 /\ 4 < 5
  OBVIOUS
<1>5. /\ "H" = Protocol[1] /\ "T" = Protocol[2] /\ "T" = Protocol[3] /\ "P" = Protocol[4]
      /\ "/" = Protocol[5]
  BY DEF Protocol
<1> QED
  BY <1>2, <1>3, <1>4, <1>5, Zenon

\* Blanks alone continue a header, by nothing.
LEMMA BlanksAreALine ==
    ASSUME NEW r \in Seq(Characters), r # <<>>, AllIn(r, 1, Len(r), Blanks)
    PROVE  IsContinuation(r)
<1>1. Len(r) \in DOMAIN r /\ Len(r) \in Nat
  BY EmptySeq, LenProperties
<1>2. SplitsContinuation(r, Len(r))
  BY <1>1 DEF SplitsContinuation, AllIn
<1> QED
  BY <1>1, <1>2 DEF IsContinuation

\* Every start of a request line is completed, but the one that is.
LEMMA RequestLineIsCompleted ==
    ASSUME NEW s, NEW r \in Seq(Characters), RequestLineShape(s, r), s # "expecting_newline_1"
    PROVE  \E k \in 1..12 : CompletedBy(ARequestLine, k, 1, r)
<1> DEFINE T == ARequestLine
           C(k, w) == CompletedBy(T, k, 1, w)
<1>0. T \in Seq(Characters) /\ Len(T) = 11
  BY TheTemplates
<1>2. \A k \in 1..11, w \in Seq(Characters) : \A next, c, a :
          next = k + 1 /\ c = T[k] /\ a = Append(w, c) /\ C(next, a) => C(k, w)
  <2>1. 1..11 = 1..Len(T)
    BY <1>0
  <2> HIDE DEF T
  <2> QED
    BY <1>0, <2>1, CompletedByOneMore, Zenon
<1>3. \A w \in Seq(Characters), c \in Characters : \A a : a = Append(w, c) => a \in Seq(Characters)
  BY AppendProperties
<1>4. \A w \in Seq(Characters) : IsRequestLine(w) => C(12, w)
  <2>1. Len(T) + 1 = 12
    BY <1>0
  <2>2. \A w \in Seq(Characters) : IsRequestLine(w) => IsLine(1, w)
    BY DEF IsLine
  <2>3. \A w \in Seq(Characters) : IsLine(1, w) => CompletedBy(T, Len(T) + 1, 1, w)
    BY <1>0, CompletedByNothing
  <2> HIDE DEF T
  <2> QED
    BY <2>1, <2>2, <2>3, Zenon
<1>5. /\ T[1] = "P" /\ T[2] = "SP" /\ T[3] = "SP" /\ T[4] = "H" /\ T[5] = "T" /\ T[6] = "T"
      /\ T[7] = "P" /\ T[8] = "/" /\ T[9] = "1" /\ T[10] = "." /\ T[11] = "1"
  BY DEF ARequestLine
<1>6. /\ "1" \in Digits /\ "P" \in Tokens
      /\ {"1", "P", "H", "T", "/", "SP", "."} \subseteq Characters
  BY DEF Digits, Tokens, Characters, Specials
<1>7. /\ 1 \in 1..12 /\ 2 \in 1..12 /\ 3 \in 1..12 /\ 4 \in 1..12 /\ 5 \in 1..12 /\ 6 \in 1..12
      /\ 7 \in 1..12 /\ 8 \in 1..12 /\ 9 \in 1..12 /\ 10 \in 1..12 /\ 11 \in 1..12 /\ 12 \in 1..12
  OBVIOUS
<1> HIDE DEF T, C
<1>8. \A w \in Seq(Characters) : BeganMinor(w) => C(11, w)
  <2> TAKE w \in Seq(Characters)
  <2> HAVE BeganMinor(w)
  <2>1. PICK a : a = Append(w, "1")
    OBVIOUS
  <2>2. a \in Seq(Characters) /\ "1" \in Characters
    BY <1>3, <1>6, <2>1
  <2>3. IsRequestLine(a)
    BY <1>6, MinorGrows, <2>1, <2>2
  <2>4. C(12, a)
    BY <1>4, <2>2, <2>3, Zenon
  <2>5. 11 \in 1..11 /\ 12 = 11 + 1 /\ "1" = T[11]
    BY <1>5
  <2> QED
    BY <1>2, <2>1, <2>4, <2>5, Zenon
<1>9. \A w \in Seq(Characters) : BeganMajor(w) => C(10, w)
  <2> TAKE w \in Seq(Characters)
  <2> HAVE BeganMajor(w)
  <2>1. PICK a : a = Append(w, ".")
    OBVIOUS
  <2>2. a \in Seq(Characters) /\ "." \in Characters
    BY <1>3, <1>6, <2>1
  <2>3. BeganMinor(a)
    BY MajorGrows, <2>1, <2>2
  <2>4. C(11, a)
    BY <1>8, <2>2, <2>3, Zenon
  <2>5. 10 \in 1..11 /\ 11 = 10 + 1 /\ "." = T[10]
    BY <1>5
  <2> QED
    BY <1>2, <2>1, <2>4, <2>5, Zenon
<1>10. \A w \in Seq(Characters) : BeganVersion(w, 5) => C(9, w)
  <2> TAKE w \in Seq(Characters)
  <2> HAVE BeganVersion(w, 5)
  <2>1. PICK a : a = Append(w, "1")
    OBVIOUS
  <2>2. a \in Seq(Characters) /\ "1" \in Characters
    BY <1>3, <1>6, <2>1
  <2>3. BeganMajor(a)
    BY <1>6, ProtocolGrows, <2>1, <2>2
  <2>4. C(10, a)
    BY <1>9, <2>2, <2>3, Zenon
  <2>5. 9 \in 1..11 /\ 10 = 9 + 1 /\ "1" = T[9]
    BY <1>5
  <2> QED
    BY <1>2, <2>1, <2>4, <2>5, Zenon
<1>11. \A w \in Seq(Characters) : BeganVersion(w, 4) => C(8, w)
  <2> TAKE w \in Seq(Characters)
  <2> HAVE BeganVersion(w, 4)
  <2>1. PICK a : a = Append(w, "/")
    OBVIOUS
  <2>2. a \in Seq(Characters) /\ "/" \in Characters
    BY <1>3, <1>6, <2>1
  <2>3. BeganVersion(a, 5)
    BY ProtocolGrows, <2>1, <2>2
  <2>4. C(9, a)
    BY <1>10, <2>2, <2>3, Zenon
  <2>5. 8 \in 1..11 /\ 9 = 8 + 1 /\ "/" = T[8]
    BY <1>5
  <2> QED
    BY <1>2, <2>1, <2>4, <2>5, Zenon
<1>12. \A w \in Seq(Characters) : BeganVersion(w, 3) => C(7, w)
  <2> TAKE w \in Seq(Characters)
  <2> HAVE BeganVersion(w, 3)
  <2>1. PICK a : a = Append(w, "P")
    OBVIOUS
  <2>2. a \in Seq(Characters) /\ "P" \in Characters
    BY <1>3, <1>6, <2>1
  <2>3. BeganVersion(a, 4)
    BY ProtocolGrows, <2>1, <2>2
  <2>4. C(8, a)
    BY <1>11, <2>2, <2>3, Zenon
  <2>5. 7 \in 1..11 /\ 8 = 7 + 1 /\ "P" = T[7]
    BY <1>5
  <2> QED
    BY <1>2, <2>1, <2>4, <2>5, Zenon
<1>13. \A w \in Seq(Characters) : BeganVersion(w, 2) => C(6, w)
  <2> TAKE w \in Seq(Characters)
  <2> HAVE BeganVersion(w, 2)
  <2>1. PICK a : a = Append(w, "T")
    OBVIOUS
  <2>2. a \in Seq(Characters) /\ "T" \in Characters
    BY <1>3, <1>6, <2>1
  <2>3. BeganVersion(a, 3)
    BY ProtocolGrows, <2>1, <2>2
  <2>4. C(7, a)
    BY <1>12, <2>2, <2>3, Zenon
  <2>5. 6 \in 1..11 /\ 7 = 6 + 1 /\ "T" = T[6]
    BY <1>5
  <2> QED
    BY <1>2, <2>1, <2>4, <2>5, Zenon
<1>14. \A w \in Seq(Characters) : BeganVersion(w, 1) => C(5, w)
  <2> TAKE w \in Seq(Characters)
  <2> HAVE BeganVersion(w, 1)
  <2>1. PICK a : a = Append(w, "T")
    OBVIOUS
  <2>2. a \in Seq(Characters) /\ "T" \in Characters
    BY <1>3, <1>6, <2>1
  <2>3. BeganVersion(a, 2)
    BY ProtocolGrows, <2>1, <2>2
  <2>4. C(6, a)
    BY <1>13, <2>2, <2>3, Zenon
  <2>5. 5 \in 1..11 /\ 6 = 5 + 1 /\ "T" = T[5]
    BY <1>5
  <2> QED
    BY <1>2, <2>1, <2>4, <2>5, Zenon
<1>15. \A w \in Seq(Characters) : BeganVersion(w, 0) => C(4, w)
  <2> TAKE w \in Seq(Characters)
  <2> HAVE BeganVersion(w, 0)
  <2>1. PICK a : a = Append(w, "H")
    OBVIOUS
  <2>2. a \in Seq(Characters) /\ "H" \in Characters
    BY <1>3, <1>6, <2>1
  <2>3. BeganVersion(a, 1)
    BY ProtocolGrows, <2>1, <2>2
  <2>4. C(5, a)
    BY <1>14, <2>2, <2>3, Zenon
  <2>5. 4 \in 1..11 /\ 5 = 4 + 1 /\ "H" = T[4]
    BY <1>5
  <2> QED
    BY <1>2, <2>1, <2>4, <2>5, Zenon
<1>16. \A w \in Seq(Characters) : (\E i \in DOMAIN w : BeganUri(w, i)) => C(3, w)
  <2> TAKE w \in Seq(Characters)
  <2> HAVE \E i \in DOMAIN w : BeganUri(w, i)
  <2>1. PICK a : a = Append(w, "SP")
    OBVIOUS
  <2>2. a \in Seq(Characters) /\ "SP" \in Characters
    BY <1>3, <1>6, <2>1
  <2>3. BeganVersion(a, 0)
    BY UriGrows, <2>1, <2>2
  <2>4. C(4, a)
    BY <1>15, <2>2, <2>3, Zenon
  <2>5. 3 \in 1..11 /\ 4 = 3 + 1 /\ "SP" = T[3]
    BY <1>5
  <2> QED
    BY <1>2, <2>1, <2>4, <2>5, Zenon
<1>17. \A w \in Seq(Characters) : w # <<>> /\ AllIn(w, 1, Len(w), Tokens) => C(2, w)
  <2> TAKE w \in Seq(Characters)
  <2> HAVE w # <<>> /\ AllIn(w, 1, Len(w), Tokens)
  <2>1. PICK a : a = Append(w, "SP")
    OBVIOUS
  <2>2. a \in Seq(Characters) /\ "SP" \in Characters
    BY <1>3, <1>6, <2>1
  <2>3. \E i \in DOMAIN a : BeganUri(a, i)
    BY MethodGrows, <2>1, <2>2
  <2>4. C(3, a)
    BY <1>16, <2>2, <2>3, Zenon
  <2>5. 2 \in 1..11 /\ 3 = 2 + 1 /\ "SP" = T[2]
    BY <1>5
  <2> QED
    BY <1>2, <2>1, <2>4, <2>5, Zenon
<1>18. C(1, <<>>)
  <2>1. PICK a, e : e = <<>> /\ a = Append(e, "P")
    OBVIOUS
  <2>2. a \in Seq(Characters) /\ e \in Seq(Characters) /\ "P" \in Characters
    BY <1>3, <1>6, <2>1
  <2>3. a # <<>> /\ AllIn(a, 1, Len(a), Tokens)
    BY <1>6, MethodGrows, <2>1, <2>2
  <2>4. C(2, a)
    BY <1>17, <2>2, <2>3, Zenon
  <2>5. 1 \in 1..11 /\ 2 = 1 + 1 /\ "P" = T[1]
    BY <1>5
  <2>6. C(1, e)
    BY <1>2, <2>1, <2>2, <2>4, <2>5, Zenon
  <2> QED
    BY <2>1, <2>6
<1>19. \E k \in 1..12 : C(k, r)
  BY <1>4, <1>7, <1>8, <1>9, <1>10, <1>11, <1>12, <1>13, <1>14, <1>15, <1>16, <1>17, <1>18, Zenon
  DEF RequestLineShape
<1> QED
  BY <1>19 DEF C, T

\* And of a later one.
LEMMA LaterLineIsCompleted ==
    ASSUME NEW s, NEW n \in Nat, n >= 1, NEW r \in Seq(Characters), HeaderLineShape(s, n, r),
           s \notin {"header_line_start", "expecting_newline_2", "expecting_newline_3"}
    PROVE  \E x \in 1..4 : CompletedBy(AHeader, x, n + 1, r)
<1> DEFINE T == AHeader
           k == n + 1
           C(x, w) == CompletedBy(T, x, k, w)
<1>0. T \in Seq(Characters) /\ Len(T) = 3 /\ T[2] = ":" /\ T[3] = "SP"
      /\ ":" \in Characters /\ "SP" \in Characters
  BY TheTemplates, Classes DEF AHeader
<1>1. k >= 2 /\ k # 1 /\ (n >= 2 => k >= 3)
  OBVIOUS
<1>a. Len(T) + 1 = 4 /\ 2 \in 1..4 /\ 3 \in 1..4 /\ 4 \in 1..4
  BY <1>0
<1> HIDE DEF T, k
<1>3. \A w \in Seq(Characters) : IsLine(k, w) => C(4, w)
  <2>1. \A w \in Seq(Characters) : IsLine(k, w) => CompletedBy(T, Len(T) + 1, k, w)
    BY <1>0, CompletedByNothing
  <2> QED
    BY <1>a, <2>1, Zenon
<1>c. \A x \in 1..Len(T), w \in Seq(Characters) : \A next, c, a :
          next = x + 1 /\ c = T[x] /\ a = Append(w, c) /\ C(next, a) => C(x, w)
  BY <1>0, CompletedByOneMore, Zenon
<1>d. \A w \in Seq(Characters), c \in Characters : \A a : a = Append(w, c) => a \in Seq(Characters)
  BY AppendProperties
<1> HIDE DEF C
<1>4. \A w \in Seq(Characters) : BeganHeader(w) => C(3, w)
  <2> TAKE w \in Seq(Characters)
  <2> HAVE BeganHeader(w)
  <2>1. PICK a : a = Append(w, "SP")
    OBVIOUS
  <2>2. a \in Seq(Characters)
    BY <1>0, <1>d, <2>1
  <2>3. IsHeader(a)
    BY <1>0, HeaderGrows, <2>1, <2>2
  <2>4. IsLine(k, a)
    BY <1>1, <2>3 DEF IsLine
  <2>5. C(4, a)
    BY <1>3, <2>2, <2>4, Zenon
  <2>6. 3 \in 1..Len(T) /\ 4 = 3 + 1 /\ "SP" = T[3]
    BY <1>0
  <2> QED
    BY <1>c, <2>1, <2>5, <2>6, Zenon
<1>5. ASSUME r # <<>>, AllIn(r, 1, Len(r), Tokens) PROVE C(2, r)
  <2>1. PICK a : a = Append(r, ":")
    OBVIOUS
  <2>2. a \in Seq(Characters)
    BY <1>0, <1>d, <2>1
  <2>3. BeganHeader(a)
    BY <1>5, NameGrows, <2>1
  <2>4. C(3, a)
    BY <1>4, <2>2, <2>3, Zenon
  <2>5. 2 \in 1..Len(T) /\ 3 = 2 + 1 /\ ":" = T[2]
    BY <1>0
  <2> QED
    BY <1>c, <2>1, <2>4, <2>5, Zenon
<1>6. CASE s = "header_lws"
  <2>1. IsLine(k, r)
    BY <1>1, <1>6, BlanksAreALine DEF HeaderLineShape, IsLine
  <2> QED
    BY <1>3, <1>a, <2>1 DEF C, T, k
<1>7. CASE s = "header_name"
  BY <1>5, <1>7, <1>a DEF HeaderLineShape, C, T, k
<1>8. CASE s = "space_before_header_value"
  BY <1>4, <1>8, <1>a DEF HeaderLineShape, C, T, k
<1>9. CASE s = "header_value"
  <2>1. IsLine(k, r)
    BY <1>1, <1>9 DEF HeaderLineShape, IsLine, BeganContinuation, IsContinuation
  <2> QED
    BY <1>3, <1>a, <2>1 DEF C, T, k
<1> QED
  BY <1>6, <1>7, <1>8, <1>9 DEF HeaderLineShape

\* What has arrived of a line may become one.
LEMMA LineIsBegun ==
    ASSUME NEW s, NEW n \in Nat, NEW r \in Seq(Characters), Shape(s, n, r)
    PROVE  BeginsLine(n + 1, r)
<1> DEFINE k == n + 1
<1>1. ASSUME n = 0, RequestLineShape(s, r), s # "expecting_newline_1" PROVE BeginsLine(k, r)
  <2>1. PICK x \in 1..12 : CompletedBy(ARequestLine, x, 1, r)
    BY <1>1, RequestLineIsCompleted
  <2> DEFINE T == ARequestLine
  <2>2. k = 1 /\ T = IF k = 1 THEN ARequestLine ELSE AHeader
    BY <1>1
  <2>3. T \in Seq(Characters) /\ x \in 1..Len(T) + 1
    BY TheTemplates
  <2>4. CompletedBy(T, x, k, r)
    BY <2>1, <2>2
  <2> HIDE DEF T, k
  <2> QED
    BY <2>2, <2>3, <2>4, CompletedBegins
<1>2. ASSUME n >= 1, HeaderLineShape(s, n, r),
             s \notin {"header_line_start", "expecting_newline_2", "expecting_newline_3"}
      PROVE  BeginsLine(k, r)
  <2>1. PICK x \in 1..4 : CompletedBy(AHeader, x, n + 1, r)
    BY <1>2, LaterLineIsCompleted
  <2> DEFINE T == AHeader
  <2>2. T = IF k = 1 THEN ARequestLine ELSE AHeader
    BY <1>2
  <2>3. T \in Seq(Characters) /\ x \in 1..Len(T) + 1
    BY TheTemplates
  <2>4. CompletedBy(T, x, k, r)
    BY <2>1
  <2> HIDE DEF T, k
  <2> QED
    BY <2>2, <2>3, <2>4, CompletedBegins
<1>3. ASSUME n = 0, RequestLineShape(s, r), s = "expecting_newline_1" PROVE BeginsLine(k, r)
  BY <1>3 DEF RequestLineShape, BeginsLine, Last, IsLine
<1>4. ASSUME n >= 1, HeaderLineShape(s, n, r), s \in {"header_line_start", "expecting_newline_3"}
      PROVE  BeginsLine(k, r)
  <2>1. r \in {<<>>, <<"CR">>} /\ k >= 2
    BY <1>4 DEF HeaderLineShape
  <2> QED
    BY <2>1 DEF BeginsLine
<1>5. ASSUME n >= 1, HeaderLineShape(s, n, r), s = "expecting_newline_2" PROVE BeginsLine(k, r)
  BY <1>5 DEF HeaderLineShape, BeginsLine, Last
<1> QED
  BY <1>1, <1>2, <1>3, <1>4, <1>5 DEF Shape

\* What is completed to a line has no carriage return in it.
LEMMA NoReturnInside ==
    ASSUME NEW T \in Seq(Characters), NEW r \in Seq(Characters), NEW n,
           NEW k \in 1..Len(T) + 1, CompletedBy(T, k, n, r), r # <<>>
    PROVE  r[Len(r)] # "CR"
<1> DEFINE others == SubSeq(T, k, Len(T))
           line == r \o others
           l == Len(r)
<1>1. l \in Nat /\ l > 0
  BY EmptySeq, LenProperties
<1>2. others \in Seq(Characters)
  <2>1. k \in Int /\ Len(T) \in Int /\ \A x \in k..Len(T) : x \in 1..Len(T)
    BY LenProperties
  <2>2. \A x \in k..Len(T) : T[x] \in Characters
    BY <2>1, ElementOfSeq
  <2> QED
    BY <2>1, <2>2, SubSeqProperties
<1>3. IsLine(n, line)
  BY DEF CompletedBy
<1>4. line \in Seq(Characters)
  <2> HIDE DEF others
  <2> QED
    BY <1>2, ConcatProperties
<1>5. DOMAIN line = 1..l + Len(others) /\ Len(others) \in Nat /\ line[l] = r[l]
  <2> HIDE DEF others
  <2>1. /\ line \in Seq(Characters) /\ Len(line) = l + Len(others) /\ Len(others) \in Nat
        /\ \A i \in 1..l + Len(others) : line[i] = IF i =< l THEN r[i] ELSE others[i - l]
    BY <1>2, ConcatProperties, LenProperties
  <2>2. DOMAIN line = 1..Len(line)
    BY <2>1, LenProperties
  <2> QED
    BY <1>1, <2>1, <2>2
<1> HIDE DEF others, line, l
<1>6. l \in DOMAIN line
  BY <1>1, <1>5
<1>7. \A x \in DOMAIN line : line[x] # "CR"
  BY <1>3, <1>4, NoLineAfterReturn
<1> QED
  BY <1>5, <1>6, <1>7 DEF l

\* Only a state that waits for a line feed has seen the carriage return before it.
LEMMA ReturnIsAwaited ==
    ASSUME NEW s, NEW n \in Nat, NEW r \in Seq(Characters), Shape(s, n, r),
           r # <<>>, r[Len(r)] = "CR"
    PROVE  s \in {"expecting_newline_1", "expecting_newline_2", "expecting_newline_3"}
<1>1. CASE n = 0 /\ RequestLineShape(s, r) /\ s # "expecting_newline_1"
  <2>1. PICK x \in 1..12 : CompletedBy(ARequestLine, x, 1, r)
    BY <1>1, RequestLineIsCompleted
  <2> DEFINE T == ARequestLine
  <2>2. T \in Seq(Characters) /\ x \in 1..Len(T) + 1 /\ CompletedBy(T, x, 1, r)
    BY <2>1, TheTemplates
  <2> HIDE DEF T
  <2> QED
    BY <2>2, NoReturnInside
<1>2. CASE n >= 1 /\ HeaderLineShape(s, n, r)
           /\ s \notin {"header_line_start", "expecting_newline_2", "expecting_newline_3"}
  <2>1. PICK x \in 1..4 : CompletedBy(AHeader, x, n + 1, r)
    BY <1>2, LaterLineIsCompleted
  <2> DEFINE T == AHeader
             k == n + 1
  <2>2. T \in Seq(Characters) /\ x \in 1..Len(T) + 1 /\ CompletedBy(T, x, k, r)
    BY <2>1, TheTemplates
  <2> HIDE DEF T, k
  <2> QED
    BY <2>2, NoReturnInside
<1> QED
  BY <1>1, <1>2 DEF Shape, HeaderLineShape

-----------------------------------------------------------------------------
(* The moves keep the state of the parser that of what has arrived.         *)

FixedBy(s, c, next) == <<s, c, next>> \in Fixed

LEMMA FixedCases ==
    ASSUME NEW s, NEW c, NEW next, FixedBy(s, c, next)
    PROVE  \/ s = "http_version_h" /\ c = "H" /\ next = "http_version_t_1"
           \/ s = "http_version_t_1" /\ c = "T" /\ next = "http_version_t_2"
           \/ s = "http_version_t_2" /\ c = "T" /\ next = "http_version_p"
           \/ s = "http_version_p" /\ c = "P" /\ next = "http_version_slash"
           \/ s = "http_version_slash" /\ c = "/" /\ next = "http_version_major_start"
           \/ s = "http_version_major" /\ c = "." /\ next = "http_version_minor_start"
           \/ s = "http_version_minor" /\ c = "CR" /\ next = "expecting_newline_1"
           \/ s = "expecting_newline_1" /\ c = "LF" /\ next = "header_line_start"
           \/ s = "method" /\ c = "SP" /\ next = "uri"
           \/ s = "uri" /\ c = "SP" /\ next = "http_version_h"
           \/ s = "header_line_start" /\ c = "CR" /\ next = "expecting_newline_3"
           \/ s = "header_lws" /\ c = "CR" /\ next = "expecting_newline_2"
           \/ s = "header_name" /\ c = ":" /\ next = "space_before_header_value"
           \/ s = "space_before_header_value" /\ c = "SP" /\ next = "header_value"
           \/ s = "header_value" /\ c = "CR" /\ next = "expecting_newline_2"
           \/ s = "expecting_newline_2" /\ c = "LF" /\ next = "header_line_start"
  BY DEF FixedBy, Fixed

\* The carriage return after a line waits for its end.
LEMMA ReturnGrows ==
    ASSUME NEW r \in Seq(Characters), NEW c \in Characters, c = "CR", NEW a, a = Append(r, c)
    PROVE  a # <<>> /\ a[Len(a)] = "CR" /\ Front(a) = r
<1>1. Front(a) = r
  BY Longer, Zenon
<1>2. a # <<>> /\ Len(a) = Len(r) + 1 /\ a[Len(r) + 1] = c
  BY AppendProperties
<1> QED
  BY <1>1, <1>2

LEMMA RequestLineMoves ==
    ASSUME NEW c \in Characters, NEW move \in Moves(c), NEW r \in Seq(Characters),
           RequestLineShape(state_, r)
    PROVE  IF c = "LF"
           THEN state_ = "expecting_newline_1" /\ move.state = "header_line_start"
           ELSE RequestLineShape(move.state, Append(r, c))
<1> DEFINE a == Append(r, c)
<1>0. a = Append(r, c)
  OBVIOUS
<1>1. "LF" \notin Tokens \union Printable \union Digits \union Blanks
  BY Classes
<1> HIDE DEF a
<1>2. CASE MethodMove(c, move)
  <2>1. r = <<>> \/ AllIn(r, 1, Len(r), Tokens)
    BY <1>2 DEF MethodMove, RequestLineShape
  <2>2. a # <<>> /\ AllIn(a, 1, Len(a), Tokens)
    BY <1>0, <1>2, <2>1, MethodGrows DEF MethodMove
  <2> QED
    BY <1>0, <1>1, <1>2, <2>2 DEF MethodMove, RequestLineShape
<1>3. CASE UriMove(c, move)
  <2>1. \E i \in DOMAIN r : BeganUri(r, i)
    BY <1>3 DEF UriMove, RequestLineShape
  <2>2. \E i \in DOMAIN a : BeganUri(a, i)
    BY <1>0, <1>3, <2>1, UriGrows DEF UriMove
  <2> QED
    BY <1>0, <1>1, <1>3, <2>2 DEF UriMove, RequestLineShape
<1>4. CASE MajorMove(c, move)
  <2>1. BeganVersion(r, 5) \/ BeganMajor(r)
    BY <1>4 DEF MajorMove, RequestLineShape
  <2>2. c \in Digits
    BY <1>4 DEF MajorMove
  <2>3. BeganMajor(a)
    BY <1>0, <2>1, <2>2, ProtocolGrows, MajorGrows
  <2> QED
    BY <1>0, <1>1, <1>4, <2>3 DEF MajorMove, RequestLineShape
<1>5. CASE MinorMove(c, move)
  <2>1. BeganMinor(r) \/ IsRequestLine(r)
    BY <1>5 DEF MinorMove, RequestLineShape
  <2>2. c \in Digits
    BY <1>5 DEF MinorMove
  <2>3. IsRequestLine(a)
    BY <1>0, <2>1, <2>2, MinorGrows
  <2> QED
    BY <1>0, <1>1, <1>5, <2>3 DEF MinorMove, RequestLineShape
<1>6. CASE FixedMove(c, move)
  <2>0. FixedBy(state_, c, move.state)
    BY <1>6 DEF FixedMove, FixedBy
  <2>1. CASE state_ = "method" /\ c = "SP" /\ move.state = "uri"
    <3>1. r # <<>> /\ AllIn(r, 1, Len(r), Tokens)
      BY <2>1 DEF RequestLineShape
    <3>2. \E i \in DOMAIN a : BeganUri(a, i)
      BY <1>0, <2>1, <3>1, MethodGrows
    <3> QED
      BY <1>0, <2>1, <3>2 DEF RequestLineShape
  <2>2. CASE state_ = "uri" /\ c = "SP" /\ move.state = "http_version_h"
    <3>1. BeganVersion(a, 0)
      BY <1>0, <2>2, UriGrows DEF RequestLineShape
    <3> QED
      BY <1>0, <2>2, <3>1 DEF RequestLineShape
  <2>3. CASE state_ = "http_version_h" /\ c = "H" /\ move.state = "http_version_t_1"
    <3>1. BeganVersion(r, 0)
      BY <2>3 DEF RequestLineShape
    <3>2. BeganVersion(a, 1)
      BY <1>0, <2>3, <3>1, ProtocolGrows
    <3> QED
      BY <1>0, <2>3, <3>2 DEF RequestLineShape
  <2>4. CASE state_ = "http_version_t_1" /\ c = "T" /\ move.state = "http_version_t_2"
    <3>1. BeganVersion(r, 1)
      BY <2>4 DEF RequestLineShape
    <3>2. BeganVersion(a, 2)
      BY <1>0, <2>4, <3>1, ProtocolGrows
    <3> QED
      BY <1>0, <2>4, <3>2 DEF RequestLineShape
  <2>5. CASE state_ = "http_version_t_2" /\ c = "T" /\ move.state = "http_version_p"
    <3>1. BeganVersion(r, 2)
      BY <2>5 DEF RequestLineShape
    <3>2. BeganVersion(a, 3)
      BY <1>0, <2>5, <3>1, ProtocolGrows
    <3> QED
      BY <1>0, <2>5, <3>2 DEF RequestLineShape
  <2>6. CASE state_ = "http_version_p" /\ c = "P" /\ move.state = "http_version_slash"
    <3>1. BeganVersion(r, 3)
      BY <2>6 DEF RequestLineShape
    <3>2. BeganVersion(a, 4)
      BY <1>0, <2>6, <3>1, ProtocolGrows
    <3> QED
      BY <1>0, <2>6, <3>2 DEF RequestLineShape
  <2>7. CASE state_ = "http_version_slash" /\ c = "/" /\ move.state = "http_version_major_start"
    <3>1. BeganVersion(r, 4)
      BY <2>7 DEF RequestLineShape
    <3>2. BeganVersion(a, 5)
      BY <1>0, <2>7, <3>1, ProtocolGrows
    <3> QED
      BY <1>0, <2>7, <3>2 DEF RequestLineShape
  <2>8. CASE state_ = "http_version_major" /\ c = "." /\ move.state = "http_version_minor_start"
    <3>1. BeganMajor(r)
      BY <2>8 DEF RequestLineShape
    <3>2. BeganMinor(a)
      BY <1>0, <2>8, <3>1, MajorGrows
    <3> QED
      BY <1>0, <2>8, <3>2 DEF RequestLineShape
  <2>9. CASE state_ = "http_version_minor" /\ c = "CR" /\ move.state = "expecting_newline_1"
    <3>1. IsRequestLine(r)
      BY <2>9 DEF RequestLineShape
    <3>2. a # <<>> /\ a[Len(a)] = "CR" /\ Front(a) = r
      BY <1>0, <2>9, ReturnGrows
    <3> QED
      BY <1>0, <2>9, <3>1, <3>2 DEF RequestLineShape
  <2>10. CASE state_ = "expecting_newline_1" /\ c = "LF" /\ move.state = "header_line_start"
    BY <2>10
  <2>11. state_ \notin {"header_line_start", "header_lws", "header_name", "header_value",
                        "space_before_header_value", "expecting_newline_2"}
    BY DEF RequestLineShape
  <2>12. \/ state_ = "method" /\ c = "SP" /\ move.state = "uri"
         \/ state_ = "uri" /\ c = "SP" /\ move.state = "http_version_h"
         \/ state_ = "http_version_h" /\ c = "H" /\ move.state = "http_version_t_1"
         \/ state_ = "http_version_t_1" /\ c = "T" /\ move.state = "http_version_t_2"
         \/ state_ = "http_version_t_2" /\ c = "T" /\ move.state = "http_version_p"
         \/ state_ = "http_version_p" /\ c = "P" /\ move.state = "http_version_slash"
         \/ state_ = "http_version_slash" /\ c = "/" /\ move.state = "http_version_major_start"
         \/ state_ = "http_version_major" /\ c = "." /\ move.state = "http_version_minor_start"
         \/ state_ = "http_version_minor" /\ c = "CR" /\ move.state = "expecting_newline_1"
         \/ state_ = "expecting_newline_1" /\ c = "LF" /\ move.state = "header_line_start"
    BY <2>0, <2>11, FixedCases
  <2> QED
    BY <2>1, <2>2, <2>3, <2>4, <2>5, <2>6, <2>7, <2>8, <2>9, <2>10, <2>12
<1>7. ~BlankMove(c, move) /\ ~HeaderMove(c, move) /\ ~NameMove(c, move) /\ ~ValueMove(c, move)
  BY DEF BlankMove, HeaderMove, NameMove, ValueMove, RequestLineShape
<1> QED
  BY <1>2, <1>3, <1>4, <1>5, <1>6, <1>7, MoveCases, Zenon

LEMMA HeaderLineMoves ==
    ASSUME NEW c \in Characters, NEW move \in Moves(c), NEW n \in Nat, NEW r \in Seq(Characters),
           HeaderLineShape(state_, n, r), n >= 1, n >= 2 \/ req.headers = <<>> \/ r # <<>>
    PROVE  IF c = "LF"
           THEN state_ = "expecting_newline_2" /\ move.state = "header_line_start"
           ELSE HeaderLineShape(move.state, n, Append(r, c))
<1> DEFINE a == Append(r, c)
<1>0. a = Append(r, c)
  OBVIOUS
<1>1. "LF" \notin Tokens \union Printable \union Digits \union Blanks
      /\ n + 1 >= 2 /\ n + 1 # 1 /\ (n >= 2 => n + 1 >= 3)
  BY Classes
<1> HIDE DEF a
<1>2. CASE BlankMove(c, move)
  <2>1. n >= 2 /\ (r = <<>> \/ AllIn(r, 1, Len(r), Blanks)) /\ c \in Blanks
    BY <1>2 DEF BlankMove, HeaderLineShape
  <2>2. a # <<>> /\ AllIn(a, 1, Len(a), Blanks)
    BY <1>0, <2>1, BlanksGrow
  <2> QED
    BY <1>0, <1>1, <1>2, <2>1, <2>2 DEF BlankMove, HeaderLineShape
<1>3. CASE HeaderMove(c, move) \/ NameMove(c, move)
  <2>1. (r = <<>> \/ AllIn(r, 1, Len(r), Tokens)) /\ c \in Tokens /\ move.state = "header_name"
    BY <1>3 DEF HeaderMove, NameMove, HeaderLineShape
  <2>2. a # <<>> /\ AllIn(a, 1, Len(a), Tokens)
    BY <1>0, <2>1, MethodGrows
  <2> QED
    BY <1>0, <1>1, <2>1, <2>2 DEF HeaderLineShape
<1>4. CASE ValueMove(c, move)
  <2>1. move.state = "header_value" /\ c \in Printable
    BY <1>4 DEF ValueMove
  <2>2. CASE state_ = "header_lws"
    <3>1. n >= 2 /\ r # <<>> /\ AllIn(r, 1, Len(r), Blanks) /\ c \in Printable \ Blanks
      BY <1>4, <2>2 DEF HeaderLineShape, ValueMove
    <3>2. BeganContinuation(a)
      BY <1>0, <3>1, BlanksGrow
    <3> QED
      BY <1>0, <1>1, <2>1, <3>1, <3>2 DEF HeaderLineShape
  <2>3. CASE state_ = "header_value"
    <3>1. IsHeader(r) \/ (n >= 2 /\ BeganContinuation(r))
      BY <2>3 DEF HeaderLineShape
    <3>2. IsHeader(a) \/ (n >= 2 /\ BeganContinuation(a))
      BY <1>0, <2>1, <3>1, HeaderGrows
    <3> QED
      BY <1>0, <1>1, <2>1, <3>2 DEF HeaderLineShape
  <2> QED
    BY <1>4, <2>2, <2>3 DEF ValueMove
<1>5. CASE FixedMove(c, move)
  <2>0. FixedBy(state_, c, move.state)
    BY <1>5 DEF FixedMove, FixedBy
  <2>1. CASE state_ = "header_line_start" /\ c = "CR" /\ move.state = "expecting_newline_3"
    <3>1. r = <<>>
      BY <2>1 DEF HeaderLineShape
    <3>2. a = <<"CR">>
      BY <1>0, <2>1, <3>1
    <3> QED
      BY <1>0, <2>1, <3>2 DEF HeaderLineShape
  <2>2. ASSUME IsLine(n + 1, r), c = "CR", move.state = "expecting_newline_2"
        PROVE  HeaderLineShape(move.state, n, a)
    <3>1. a # <<>> /\ a[Len(a)] = "CR" /\ Front(a) = r
      BY <1>0, <2>2, ReturnGrows
    <3> QED
      BY <2>2, <3>1 DEF HeaderLineShape
  <2>3. CASE state_ = "header_lws" /\ c = "CR" /\ move.state = "expecting_newline_2"
    <3>1. n >= 2 /\ r # <<>> /\ AllIn(r, 1, Len(r), Blanks)
      BY <2>3 DEF HeaderLineShape
    <3>2. IsLine(n + 1, r)
      BY <1>1, <3>1, BlanksAreALine DEF IsLine
    <3> QED
      BY <1>0, <2>2, <2>3, <3>2
  <2>4. CASE state_ = "header_value" /\ c = "CR" /\ move.state = "expecting_newline_2"
    <3>1. IsHeader(r) \/ (n >= 2 /\ BeganContinuation(r))
      BY <2>4 DEF HeaderLineShape
    <3>2. IsLine(n + 1, r)
      BY <1>1, <3>1 DEF IsLine, BeganContinuation, IsContinuation
    <3> QED
      BY <1>0, <2>2, <2>4, <3>2
  <2>5. CASE state_ = "header_name" /\ c = ":" /\ move.state = "space_before_header_value"
    <3>1. r # <<>> /\ AllIn(r, 1, Len(r), Tokens)
      BY <2>5 DEF HeaderLineShape
    <3>2. BeganHeader(a)
      BY <1>0, <2>5, <3>1, NameGrows
    <3> QED
      BY <1>0, <2>5, <3>2 DEF HeaderLineShape
  <2>6. CASE state_ = "space_before_header_value" /\ c = "SP" /\ move.state = "header_value"
    <3>1. BeganHeader(r)
      BY <2>6 DEF HeaderLineShape
    <3>2. IsHeader(a)
      BY <1>0, <2>6, <3>1, HeaderGrows
    <3> QED
      BY <1>0, <2>6, <3>2 DEF HeaderLineShape
  <2>7. CASE state_ = "expecting_newline_2" /\ c = "LF" /\ move.state = "header_line_start"
    BY <2>7
  <2>8. state_ \notin {"method", "uri", "http_version_h", "http_version_t_1", "http_version_t_2",
                       "http_version_p", "http_version_slash", "http_version_major",
                       "http_version_minor", "expecting_newline_1"}
    BY DEF HeaderLineShape
  <2> QED
    BY <2>0, <2>1, <2>3, <2>4, <2>5, <2>6, <2>7, <2>8, FixedCases, Zenon
<1>6. ~MethodMove(c, move) /\ ~UriMove(c, move) /\ ~MajorMove(c, move) /\ ~MinorMove(c, move)
  BY DEF MethodMove, UriMove, MajorMove, MinorMove, HeaderLineShape
<1> QED
  BY <1>2, <1>3, <1>4, <1>5, <1>6, MoveCases, Zenon

-----------------------------------------------------------------------------
(* The answer of the parser.                                                *)

NoHeader(s, n) == n = 0 \/ (n = 1 /\ s \in {"header_line_start", "expecting_newline_3"})

\* The state of the parser is that of the lines it was given.
HasRead(s, rq, lines) ==
    /\ AreLines(lines.whole, Len(lines.whole))
    /\ Shape(s, Len(lines.whole), lines.rest)
    /\ rq.headers = <<>> <=> NoHeader(s, Len(lines.whole))

AreOfCharacters(lines) ==
    lines.whole \in Seq(Seq(Characters)) /\ lines.rest \in Seq(Characters)

\* The first header is begun by the first line that is one.
LEMMA HeadersMove ==
    ASSUME Typed, NEW c \in Characters, NEW move \in Moves(c), NEW n \in Nat, NEW r,
           Shape(state_, n, r), req.headers = <<>> <=> NoHeader(state_, n)
    PROVE  move.req.headers = <<>> <=> NoHeader(move.state, IF c = "LF" THEN n + 1 ELSE n)
<1>1. req \in Requests /\ (state_ \in InHeader => req.headers # <<>>)
  BY DEF Typed, TypeOK
<1>2. "LF" \notin Tokens \union Printable \union Digits \union Blanks
  BY Classes
<1>3. CASE MethodMove(c, move) \/ UriMove(c, move)
  <2>1. move.req.headers = req.headers /\ n = 0 /\ c # "LF"
    BY <1>1, <1>2, <1>3, LongerType DEF MethodMove, UriMove, Shape, HeaderLineShape
  <2> QED
    BY <2>1 DEF NoHeader
<1>4. CASE MajorMove(c, move) \/ MinorMove(c, move)
  <2>1. move.req.headers = req.headers /\ n = 0 /\ c # "LF"
    BY <1>1, <1>2, <1>4 DEF MajorMove, MinorMove, Shape, HeaderLineShape
  <2> QED
    BY <2>1 DEF NoHeader
<1>5. CASE FixedMove(c, move)
  <2>1. move.req.headers = req.headers /\ FixedBy(state_, c, move.state)
    BY <1>5 DEF FixedMove, FixedBy
  <2>2. CASE state_ = "expecting_newline_1" /\ c = "LF" /\ move.state = "header_line_start"
    <3>1. n = 0
      BY <2>2 DEF Shape, HeaderLineShape
    <3> QED
      BY <2>1, <2>2, <3>1 DEF NoHeader
  <2>3. CASE state_ = "expecting_newline_2" /\ c = "LF" /\ move.state = "header_line_start"
    <3>1. n >= 1
      BY <2>3 DEF Shape, RequestLineShape
    <3> QED
      BY <2>1, <2>3, <3>1 DEF NoHeader
  <2>4. CASE c # "LF" /\ n = 0
    BY <2>1, <2>4 DEF NoHeader
  <2>5. CASE c # "LF" /\ n >= 1
    <3>1. state_ \in {"header_line_start", "expecting_newline_3"}
              <=> move.state \in {"header_line_start", "expecting_newline_3"}
      <4>1. HeaderLineShape(state_, n, r)
        BY <2>5 DEF Shape
      <4> QED
        BY <2>1, <2>5, <4>1, FixedCases DEF HeaderLineShape
    <3> QED
      BY <2>1, <2>5, <3>1 DEF NoHeader
  <2> QED
    BY <2>1, <2>2, <2>3, <2>4, <2>5, FixedCases
<1>6. ASSUME n >= 1, c # "LF", move.req.headers # <<>>,
             move.state \notin {"header_line_start", "expecting_newline_3"}
      PROVE  move.req.headers = <<>> <=> NoHeader(move.state, IF c = "LF" THEN n + 1 ELSE n)
  BY <1>6 DEF NoHeader
<1>7. CASE BlankMove(c, move)
  <2>1. n >= 1 /\ c # "LF" /\ move.req.headers # <<>> /\ move.state = "header_lws"
    BY <1>1, <1>2, <1>7 DEF BlankMove, Shape, RequestLineShape, InHeader
  <2> QED
    BY <1>6, <2>1
<1>8. CASE HeaderMove(c, move)
  <2>1. n >= 1 /\ c # "LF" /\ move.state = "header_name"
    BY <1>1, <1>2, <1>8 DEF HeaderMove, Shape, RequestLineShape
  <2>2. move.req.headers # <<>>
    BY <1>1, <1>8, LongerType DEF HeaderMove
  <2> QED
    BY <1>6, <2>1, <2>2
<1>9. CASE NameMove(c, move) \/ ValueMove(c, move)
  <2>1. n >= 1 /\ c # "LF" /\ move.state \in {"header_name", "header_value"} /\ state_ \in InHeader
    BY <1>1, <1>2, <1>9 DEF NameMove, ValueMove, Shape, RequestLineShape, InHeader
  <2>2. move.req.headers # <<>>
    BY <1>1, <1>9, <2>1, LongerType DEF NameMove, ValueMove
  <2> QED
    BY <1>6, <2>1, <2>2
<1> QED
  BY <1>3, <1>4, <1>5, <1>7, <1>8, <1>9, MoveCases, Zenon

LEMMA FrontOfSeq ==
    ASSUME NEW r \in Seq(Characters), r # <<>>
    PROVE  Front(r) \in Seq(Characters)
<1> DEFINE l == Len(r)
           m == l - 1
<1>1. l \in Nat /\ l > 0 /\ m \in Int /\ \A x \in 1..m : x \in 1..l
  BY EmptySeq, LenProperties
<1>2. \A x \in 1..m : r[x] \in Characters
  BY <1>1, ElementOfSeq
<1> HIDE DEF m, l
<1>3. SubSeq(r, 1, m) \in Seq(Characters)
  BY <1>1, <1>2, SubSeqProperties
<1> QED
  BY <1>3 DEF Front, m, l

\* Where there is a header and one line only, the second has begun.
LEMMA FirstHeaderLine ==
    ASSUME NEW n \in Nat, n >= 1, NEW r, HeaderLineShape(state_, n, r),
           req.headers = <<>> <=> NoHeader(state_, n)
    PROVE  n >= 2 \/ req.headers = <<>> \/ r # <<>>
<1>1. CASE state_ = "header_line_start"
  <2>1. n = 1 => req.headers = <<>>
    BY <1>1 DEF NoHeader
  <2> QED
    BY <1>1, <2>1
<1>2. CASE state_ # "header_line_start"
  <2>1. \/ r = <<"CR">> \/ BeganHeader(r) \/ IsHeader(r) \/ BeganContinuation(r) \/ r # <<>>
    BY <1>2 DEF HeaderLineShape
  <2>2. Len(<<>>) = 0 /\ DOMAIN <<>> = {} /\ <<"CR">> # <<>>
    OBVIOUS
  <2> QED
    BY <2>1, <2>2 DEF BeganHeader, IsHeader, BeganContinuation, At
<1> QED
  BY <1>1, <1>2

\* After a move the parser has read one character more.
LEMMA MovesRead ==
    ASSUME Typed, NEW c \in Characters, NEW move \in Moves(c),
           NEW lines, AreOfCharacters(lines), HasRead(state_, req, lines)
    PROVE  HasRead(move.state, move.req, WithCharacter(lines, c)) /\ AreOfCharacters(WithCharacter(lines, c))
<1> DEFINE whole == lines.whole
           r == lines.rest
           n == Len(whole)
           after == WithCharacter(lines, c)
<1>1. /\ whole \in Seq(Seq(Characters)) /\ r \in Seq(Characters) /\ n \in Nat
      /\ AreLines(whole, n) /\ Shape(state_, n, r)
      /\ req.headers = <<>> <=> NoHeader(state_, n)
  BY DEF AreOfCharacters, HasRead
<1>2. /\ c = "LF" /\ r # <<>> /\ r[Len(r)] = "CR" =>
             after.whole = Append(whole, Front(r)) /\ after.rest = <<>>
      /\ c # "LF" => after.whole = whole /\ after.rest = Append(r, c)
  BY DEF WithCharacter
<1> HIDE DEF whole, r, n, after
<1>a. n >= 1 /\ HeaderLineShape(state_, n, r) => n >= 2 \/ req.headers = <<>> \/ r # <<>>
  BY <1>1, FirstHeaderLine
<1>3. move.req.headers = <<>> <=> NoHeader(move.state, IF c = "LF" THEN n + 1 ELSE n)
  BY <1>1, HeadersMove
<1>4. CASE c # "LF"
  <2>1. n = 0 /\ RequestLineShape(state_, r) => RequestLineShape(move.state, Append(r, c))
    BY <1>1, <1>4, RequestLineMoves
  <2>2. n >= 1 /\ HeaderLineShape(state_, n, r) => n >= 2 \/ req.headers = <<>> \/ r # <<>>
    BY <1>a
  <2>3. n >= 1 /\ HeaderLineShape(state_, n, r) => HeaderLineShape(move.state, n, Append(r, c))
    BY <1>1, <1>4, <2>2, HeaderLineMoves
  <2>4. Shape(move.state, n, Append(r, c))
    BY <1>1, <2>1, <2>3 DEF Shape
  <2>5. Append(r, c) \in Seq(Characters)
    BY <1>1, AppendProperties
  <2>6. after.whole = whole /\ after.rest = Append(r, c) /\ Len(after.whole) = n
    BY <1>2, <1>4 DEF n
  <2> QED
    BY <1>1, <1>3, <1>4, <2>4, <2>5, <2>6 DEF HasRead, AreOfCharacters, after
<1>5. CASE c = "LF"
  <2>1. n = 0 /\ RequestLineShape(state_, r) =>
            state_ = "expecting_newline_1" /\ move.state = "header_line_start"
    BY <1>1, <1>5, RequestLineMoves
  <2>2. n >= 1 /\ HeaderLineShape(state_, n, r) => n >= 2 \/ req.headers = <<>> \/ r # <<>>
    BY <1>a
  <2>3. n >= 1 /\ HeaderLineShape(state_, n, r) =>
            state_ = "expecting_newline_2" /\ move.state = "header_line_start"
    BY <1>1, <1>5, <2>2, HeaderLineMoves
  <2>4. /\ r # <<>> /\ r[Len(r)] = "CR" /\ IsLine(n + 1, Front(r))
        /\ move.state = "header_line_start"
    <3>1. CASE n = 0 /\ RequestLineShape(state_, r)
      BY <2>1, <3>1 DEF RequestLineShape, IsLine
    <3>2. CASE n >= 1 /\ HeaderLineShape(state_, n, r)
      BY <2>3, <3>2 DEF HeaderLineShape
    <3> QED
      BY <1>1, <3>1, <3>2 DEF Shape
  <2>5. after.whole = Append(whole, Front(r)) /\ after.rest = <<>>
    BY <1>2, <1>5, <2>4
  <2>6. Front(r) \in Seq(Characters)
    BY <1>1, <2>4, FrontOfSeq
  <2> DEFINE line == Front(r)
  <2> HIDE DEF line
  <2>7. /\ after.whole \in Seq(Seq(Characters)) /\ Len(after.whole) = n + 1
        /\ after.whole[n + 1] = line /\ \A k \in 1..n : after.whole[k] = whole[k]
    BY <1>1, <2>5, <2>6, AppendProperties DEF line, n
  <2>8. AreLines(after.whole, n + 1)
    <3>1. \A k \in 1..n : IsLine(k, whole[k])
      BY <1>1 DEF AreLines
    <3>2. IsLine(n + 1, line)
      BY <2>4 DEF line
    <3>3. \A k \in 1..n + 1 : k \in 1..n \/ k = n + 1
      BY <1>1
    <3>4. \A k \in 1..n + 1 : IsLine(k, after.whole[k])
      BY <2>7, <3>1, <3>2, <3>3
    <3> QED
      BY <3>4 DEF AreLines
  <2>9. Shape(move.state, n + 1, <<>>)
    BY <1>1, <2>4 DEF Shape, HeaderLineShape
  <2>10. <<>> \in Seq(Characters)
    OBVIOUS
  <2> QED
    BY <1>3, <1>5, <2>5, <2>7, <2>8, <2>9, <2>10 DEF HasRead, AreOfCharacters, after
<1> QED
  BY <1>4, <1>5

\* What it has read is the start of a request.
LEMMA ReadIsIndeterminate ==
    ASSUME NEW s, NEW rq, NEW lines, AreOfCharacters(lines), HasRead(s, rq, lines)
    PROVE  Answer(lines) = "indeterminate"
<1> DEFINE whole == lines.whole
           n == Len(whole)
<1>1. whole \in Seq(Seq(Characters)) /\ n \in Nat /\ AreLines(whole, n)
  BY DEF AreOfCharacters, HasRead
<1>2. BeginsLine(n + 1, lines.rest)
  BY <1>1, LineIsBegun DEF AreOfCharacters, HasRead
<1>3. ASSUME n >= 2 PROVE whole[n] # <<>>
  <2>1. \A k \in 1..n : IsLine(k, whole[k])
    BY <1>1 DEF AreLines
  <2>2. n \in 1..n
    BY <1>1, <1>3
  <2>3. whole[n] \in Seq(Characters)
    BY <1>1, <2>2, ElementOfSeq
  <2> HIDE DEF whole, n
  <2> QED
    BY <2>1, <2>2, <2>3, NoLineAfterReturn
<1> QED
  BY <1>1, <1>2, <1>3 DEF Answer

\* The line feed that completes the request leaves its lines, up to an empty one.
LEMMA CompleteIsGood ==
    ASSUME NEW rq, NEW lines, AreOfCharacters(lines), HasRead("expecting_newline_3", rq, lines)
    PROVE  Answer(WithCharacter(lines, "LF")) = "good"
<1> DEFINE whole == lines.whole
           n == Len(whole)
           after == WithCharacter(lines, "LF")
<1>1. whole \in Seq(Seq(Characters)) /\ n \in Nat /\ AreLines(whole, n)
  BY DEF AreOfCharacters, HasRead
<1>2. n >= 1 /\ lines.rest = <<"CR">>
  BY DEF HasRead, Shape, RequestLineShape, HeaderLineShape
<1>3. Front(<<"CR">>) = <<>> /\ Len(<<"CR">>) = 1 /\ <<"CR">>[1] = "CR" /\ <<"CR">> # <<>>
  BY DEF Front
<1>4. after.whole = Append(whole, <<>>) /\ after.rest = <<>>
  BY <1>2, <1>3 DEF WithCharacter
<1>5. <<>> \in Seq(Characters)
  OBVIOUS
<1>6. /\ Len(after.whole) = n + 1 /\ after.whole[n + 1] = <<>>
      /\ \A k \in 1..n : after.whole[k] = whole[k]
  BY <1>1, <1>4, <1>5, AppendProperties
<1>7. AreLines(after.whole, n)
  BY <1>1, <1>6 DEF AreLines
<1>8. n + 1 >= 2 /\ (n + 1) - 1 = n
  BY <1>1, <1>2
<1> HIDE DEF after, n
<1>9. Answer(after) = "good"
  BY <1>4, <1>6, <1>7, <1>8 DEF Answer
<1> QED
  BY <1>9 DEF after

\* What is refused is the start of no request.
LEMMA RefusedIsBad ==
    ASSUME NEW c \in Characters, Moves(c) = {}, ~(state_ = "expecting_newline_3" /\ c = "LF"),
           NEW lines, AreOfCharacters(lines), HasRead(state_, req, lines)
    PROVE  Answer(WithCharacter(lines, c)) = "bad"
<1> DEFINE whole == lines.whole
           r == lines.rest
           n == Len(whole)
           after == WithCharacter(lines, c)
<1>1. /\ whole \in Seq(Seq(Characters)) /\ r \in Seq(Characters) /\ n \in Nat
      /\ Shape(state_, n, r)
      /\ req.headers = <<>> <=> NoHeader(state_, n)
  BY DEF AreOfCharacters, HasRead
<1> HIDE DEF whole, r, n
<1>2. ~(r # <<>> /\ r[Len(r)] = "CR" /\ c = "LF")
  <2> SUFFICES ASSUME r # <<>>, r[Len(r)] = "CR", c = "LF" PROVE FALSE
    OBVIOUS
  <2>1. state_ \in {"expecting_newline_1", "expecting_newline_2"}
    BY <1>1, ReturnIsAwaited
  <2>2. PICK t \in Fixed : t[1] = state_ /\ t[2] = c
    BY <2>1 DEF Fixed
  <2>3. When(t[1] = state_ /\ t[2] = c, To(t[3], req)) # {}
    BY <2>2 DEF To, When
  <2>4. FixedMoves(c) # {}
    BY <2>2, <2>3 DEF FixedMoves
  <2> QED
    BY <2>4 DEF Moves
<1>3. after.whole = whole /\ after.rest = Append(r, c)
  BY <1>2 DEF WithCharacter, whole, r
<1>4. Append(r, c) # <<>>
  BY <1>1, AppendProperties
<1>5. n >= 2 => req.headers # <<>>
  BY <1>1 DEF NoHeader
<1>6. ~BeginsLine(n + 1, Append(r, c))
  BY <1>1, <1>5, FollowingIsAllowed, AllowedIsMoved
<1> HIDE DEF after
<1>7. Answer(after) = "bad"
  BY <1>3, <1>4, <1>6 DEF Answer, n
<1> QED
  BY <1>7 DEF after

\* The inductive invariant: the state is that of the lines read, and so is the result.
Parsed ==
    /\ Numbered(read)
    /\ result = "indeterminate" => HasRead(state_, req, Lines(read))
    /\ result # "handled" => result = Answer(Lines(read))

LEMMA InitParsed == Init => Parsed
<1> SUFFICES ASSUME Init PROVE Parsed
  OBVIOUS
<1> DEFINE lines == Lines(read)
<1>1. read = <<>> /\ Numbered(read) /\ lines.whole = <<>> /\ lines.rest = <<>>
  BY NoLines DEF Init
<1>2. <<>> \in Seq(Characters) /\ <<>> \in Seq(Seq(Characters)) /\ Len(<<>>) = 0
  OBVIOUS
<1>3. AreOfCharacters(lines)
  BY <1>1, <1>2 DEF AreOfCharacters
<1> HIDE DEF lines
<1>4. HasRead(state_, req, lines)
  BY <1>1, <1>2 DEF Init, HasRead, AreLines, Shape, RequestLineShape, NoHeader
<1>5. Answer(lines) = "indeterminate"
  BY <1>3, <1>4, ReadIsIndeterminate
<1> QED
  BY <1>1, <1>4, <1>5 DEF Parsed, Init, lines

LEMMA NextParsed == Typed /\ Parsed /\ [Next]_vars => Parsed'
<1> SUFFICES ASSUME Typed, Parsed, [Next]_vars PROVE Parsed'
  OBVIOUS
<1>1. ASSUME NEW c \in Characters, Consume(c) PROVE Parsed'
  <2> DEFINE lines == Lines(read)
             after == WithCharacter(lines, c)
  <2>1. read \in Seq(Characters) /\ Numbered(read)
    BY DEF Typed, TypeOK, Parsed
  <2>2. Numbered(read') /\ Lines(read') = after /\ AreOfCharacters(lines)
    BY <1>1, <2>1, LinesAfter DEF Consume, AreOfCharacters
  <2>3. HasRead(state_, req, lines)
    BY <1>1 DEF Parsed, Consume
  <2> HIDE DEF lines, after
  <2>4. CASE Advance(c)
    <3>1. PICK move \in Moves(c) : state_' = move.state /\ req' = move.req /\ result' = "indeterminate"
      BY <2>4 DEF Advance
    <3>2. HasRead(move.state, move.req, after) /\ AreOfCharacters(after)
      BY <2>2, <2>3, MovesRead DEF after
    <3>3. Answer(after) = "indeterminate"
      BY <3>2, ReadIsIndeterminate
    <3> QED
      BY <2>2, <3>1, <3>2, <3>3 DEF Parsed
  <2>5. CASE Complete(c)
    <3>1. state_ = "expecting_newline_3" /\ c = "LF" /\ result' = "good"
      BY <2>5 DEF Complete
    <3>2. Answer(after) = "good"
      BY <2>2, <2>3, <3>1, CompleteIsGood DEF after
    <3> QED
      BY <2>2, <3>1, <3>2 DEF Parsed
  <2>6. CASE Refuse(c)
    <3>1. Answer(after) = "bad" /\ result' = "bad"
      BY <2>2, <2>3, <2>6, RefusedIsBad DEF Refuse, after
    <3> QED
      BY <2>2, <3>1 DEF Parsed
  <2> QED
    BY <1>1, <2>4, <2>5, <2>6 DEF Consume
<1>2. CASE Handle
  BY <1>2 DEF Handle, Parsed
<1>3. CASE UNCHANGED vars
  BY <1>3 DEF vars, Parsed
<1> QED
  BY <1>1, <1>2, <1>3 DEF Next

\* The parser answers as the grammar does, whatever it is sent: it refuses the input with the
\* first character that no request has there, and is content with the last of a request.
THEOREM ParserFollowsTheGrammar == Spec => []ResultIsThatOfTheGrammar
<1>1. Parsed => ResultIsThatOfTheGrammar
  BY DEF Parsed, ResultIsThatOfTheGrammar
<1> QED
  BY <1>1, InitTyped, NextTyped, InitParsed, NextParsed, PTL DEF Spec

-----------------------------------------------------------------------------
(* The request that is kept.                                                *)

\* The start of the request line that has the method and the URI of the request.
StartOf(rq) == rq.method \o <<"SP">> \o rq.uri \o <<"SP", "H">>

\* What the request has of its first line.
RequestFields(s, rq, r) ==
    \/ s = "method_start" /\ r = <<>> /\ rq.method = <<>> /\ rq.uri = <<>>
    \/ s = "method" /\ r = rq.method /\ rq.uri = <<>>
    \/ s = "uri" /\ r = rq.method \o <<"SP">> \o rq.uri
    \/ s = "http_version_h" /\ r = Append(rq.method \o <<"SP">> \o rq.uri, "SP")
    \/ /\ s \in {"http_version_t_1", "http_version_t_2", "http_version_p", "http_version_slash",
                 "http_version_major_start", "http_version_major",
                 "http_version_minor_start", "http_version_minor"}
       /\ IsPrefix(StartOf(rq), r)
    \/ s = "expecting_newline_1" /\ IsPrefix(StartOf(rq), Front(r))

\* And of a later one: whole are the lines before.
HeaderFields(s, headers, before, r) ==
    \/ s \in {"header_line_start", "expecting_newline_3", "header_lws"} /\ headers = before
    \/ s = "header_name" /\ headers = Append(before, [name |-> r, value |-> <<>>])
    \/ s = "space_before_header_value"
       /\ headers = Append(before, [name |-> Front(r), value |-> <<>>])
    \/ s = "header_value" /\ headers = WithLine(before, r)
    \/ s = "expecting_newline_2" /\ headers = WithLine(before, Front(r))

HasKept(s, rq, lines) ==
    IF lines.whole = <<>> THEN RequestFields(s, rq, lines.rest)
    ELSE /\ IsPrefix(StartOf(rq), lines.whole[1])
         /\ HeadersOf(lines.whole) \in Seq(Headers)
         /\ Len(lines.whole) >= 2 => HeadersOf(lines.whole) # <<>>
         /\ HeaderFields(s, rq.headers, HeadersOf(lines.whole), lines.rest)

\* A character after two texts is one after the second.
LEMMA AppendToConcat ==
    ASSUME NEW s \in Seq(Characters), NEW t \in Seq(Characters), NEW c \in Characters
    PROVE  Append(s \o t, c) = s \o Append(t, c)
<1> DEFINE x == Append(s \o t, c)
           m == Len(s)
           n == Len(t)
           u == s \o t
           a == Append(t, c)
           y == s \o a
<1>1. /\ m \in Nat /\ n \in Nat /\ u \in Seq(Characters) /\ Len(u) = m + n
      /\ \A i \in 1..m + n : u[i] = IF i =< m THEN s[i] ELSE t[i - m]
  BY ConcatProperties, LenProperties
<1>2. a \in Seq(Characters) /\ Len(a) = n + 1 /\ a[n + 1] = c /\ \A i \in 1..n : a[i] = t[i]
  BY AppendProperties
<1> HIDE DEF u, a, m, n
<1>3. /\ x \in Seq(Characters) /\ Len(x) = m + n + 1 /\ x[m + n + 1] = c
      /\ \A i \in 1..m + n : x[i] = u[i]
  BY <1>1, AppendProperties DEF u
<1>4. /\ y \in Seq(Characters) /\ Len(y) = m + (n + 1)
      /\ \A i \in 1..m + (n + 1) : y[i] = IF i =< m THEN s[i] ELSE a[i - m]
  <2>1. /\ y \in Seq(Characters) /\ Len(y) = Len(s) + Len(a)
        /\ \A i \in 1..Len(s) + Len(a) : y[i] = IF i =< Len(s) THEN s[i] ELSE a[i - Len(s)]
    BY <1>2, ConcatProperties
  <2> HIDE DEF y
  <2> QED
    BY <1>2, <2>1 DEF m
<1> HIDE DEF x, y
<1>5. \A i \in 1..m + n + 1 : x[i] = y[i]
  <2> TAKE i \in 1..m + n + 1
  <2>1. CASE i = m + n + 1
    <3>1. y[i] = a[i - m] /\ i - m = n + 1
      BY <1>1, <1>4, <2>1
    <3> QED
      BY <1>2, <1>3, <2>1, <3>1
  <2>2. CASE i \in 1..m
    <3>1. i \in 1..m + n /\ i \in 1..m + (n + 1) /\ i =< m
      BY <1>1, <2>2
    <3> QED
      BY <1>1, <1>3, <1>4, <3>1
  <2>3. CASE i \in m + 1..m + n
    <3>1. i \in 1..m + n /\ i \in 1..m + (n + 1) /\ ~(i =< m) /\ i - m \in 1..n
      BY <1>1, <2>3
    <3>2. x[i] = t[i - m] /\ y[i] = a[i - m] /\ a[i - m] = t[i - m]
      BY <1>1, <1>2, <1>3, <1>4, <3>1
    <3> QED
      BY <3>2
  <2> QED
    BY <1>1, <2>1, <2>2, <2>3
<1>6. Len(x) = Len(y)
  BY <1>1, <1>3, <1>4
<1>7. \A i \in 1..Len(x) : x[i] = y[i]
  BY <1>3, <1>5
<1>8. x = y
  BY <1>3, <1>4, <1>6, <1>7, SeqEqual
<1> QED
  BY <1>8 DEF x, y, a, u

-----------------------------------------------------------------------------
(* What is kept of the lines.                                               *)

\* The headers of the first k lines from those of the first k - 1.
HeadersFrom(f, whole, k) == IF k = 1 THEN <<>> ELSE WithLine(f[k - 1], whole[k])

LEMMA HeadersOfIsRecursive ==
    ASSUME NEW w, Len(w) \in Nat
    PROVE  \E f : /\ \A k \in 1..Len(w) : f[k] = HeadersFrom(f, w, k)
                  /\ HeadersOf(w) = f[Len(w)]
<1> DEFINE n == Len(w)
           Unrolled(f, m) == f = [k \in 1..m |-> HeadersFrom(f, w, k)]
           S == {m \in 0..n : \E f : Unrolled(f, m)}
<1>1. 0 \in S
  <2> DEFINE f == [k \in 1..0 |-> <<>>]
  <2>1. f = [k \in 1..0 |-> HeadersFrom(f, w, k)]
    <3>1. 1..0 = {}
      OBVIOUS
    <3> QED
      BY <3>1
  <2>2. Unrolled(f, 0)
    BY <2>1
  <2>3. 0 \in 0..n
    OBVIOUS
  <2> HIDE DEF f, Unrolled
  <2> QED
    BY <2>2, <2>3
<1>2. ASSUME NEW m \in 0..n - 1, m \in S PROVE m + 1 \in S
  <2> DEFINE l == m + 1
  <2>0. m \in Nat /\ l \in 0..n /\ \A k \in 1..l : k = l \/ k \in 1..m
    OBVIOUS
  <2>1. PICK f : Unrolled(f, m)
    BY <1>2
  <2> HIDE DEF l
  <2> DEFINE g == [k \in 1..l |-> IF k = l THEN HeadersFrom(f, w, k) ELSE f[k]]
  <2>2. \A k \in 1..m : g[k] = f[k] /\ f[k] = HeadersFrom(f, w, k)
    <3> TAKE k \in 1..m
    <3>1. f[k] = HeadersFrom(f, w, k)
      BY <2>1
    <3>2. k \in 1..l /\ k # l
      BY <2>0 DEF l
    <3> QED
      BY <3>1, <3>2
  <2>3. \A k \in 1..l : HeadersFrom(g, w, k) = HeadersFrom(f, w, k)
    <3> TAKE k \in 1..l
    <3>1. CASE k = 1
      BY <3>1 DEF HeadersFrom
    <3>2. CASE k # 1
      <4>1. k - 1 \in 1..m
        BY <2>0, <3>2 DEF l
      <4>2. g[k - 1] = f[k - 1]
        BY <2>2, <4>1
      <4> HIDE DEF g
      <4> QED
        BY <4>2 DEF HeadersFrom
    <3> QED
      BY <3>1, <3>2
  <2>4. \A k \in 1..l : g[k] = HeadersFrom(f, w, k)
    <3> TAKE k \in 1..l
    <3>1. CASE k = l
      BY <3>1
    <3>2. CASE k # l
      <4>1. k \in 1..m
        BY <2>0, <3>2
      <4> HIDE DEF g
      <4> QED
        BY <2>2, <4>1
    <3> QED
      BY <3>1, <3>2
  <2>5. Unrolled(g, l)
    <3>1. g = [k \in 1..l |-> g[k]]
      OBVIOUS
    <3> HIDE DEF g
    <3> QED
      BY <2>3, <2>4, <3>1
  <2> HIDE DEF g, Unrolled
  <2> QED
    BY <2>0, <2>5 DEF l
<1>3. n \in S
  <2>1. n \in Nat /\ n \in 0..n
    OBVIOUS
  <2> HIDE DEF n, S
  <2> QED
    BY <1>1, <1>2, <2>1, UpTo
<1>4. PICK g : Unrolled(g, n)
  <2> HIDE DEF Unrolled
  <2> QED
    BY <1>3
<1> DEFINE f == CHOOSE From : From = [k \in 1..Len(w) |-> HeadersFrom(From, w, k)]
<1>5. Unrolled(f, n)
  BY <1>4
<1>6. HeadersOf(w) = f[n]
  BY DEF HeadersOf, HeadersFrom
<1>7. \A k \in 1..n : f[k] = HeadersFrom(f, w, k)
  <2> HIDE DEF f
  <2> QED
    BY <1>5
<1> HIDE DEF f
<1> QED
  BY <1>6, <1>7

\* The request line gives no header.
LEMMA NoHeaderInRequestLine ==
    ASSUME NEW w, Len(w) = 1
    PROVE  HeadersOf(w) = <<>>
<1>1. PICK f : (\A k \in 1..Len(w) : f[k] = HeadersFrom(f, w, k)) /\ HeadersOf(w) = f[Len(w)]
  <2>1. Len(w) \in Nat
    OBVIOUS
  <2> QED
    BY <2>1, HeadersOfIsRecursive
<1>2. f[1] = HeadersFrom(f, w, 1)
  BY <1>1
<1> QED
  BY <1>1, <1>2 DEF HeadersFrom

\* One line more adds what it says.
LEMMA HeadersOfOneMore ==
    ASSUME NEW w \in Seq(Seq(Characters)), w # <<>>, NEW line \in Seq(Characters)
    PROVE  HeadersOf(Append(w, line)) = WithLine(HeadersOf(w), line)
<1> DEFINE n == Len(w)
           v == Append(w, line)
           l == n + 1
<1>1. /\ n \in Nat /\ n >= 1 /\ Len(v) = l /\ v[l] = line
      /\ \A k \in 1..n : v[k] = w[k]
  BY AppendProperties, EmptySeq, LenProperties
<1>2. PICK f : (\A k \in 1..n : f[k] = HeadersFrom(f, w, k)) /\ HeadersOf(w) = f[n]
  BY <1>1, HeadersOfIsRecursive
<1>3. PICK g : (\A k \in 1..l : g[k] = HeadersFrom(g, v, k)) /\ HeadersOf(v) = g[l]
  <2>1. Len(v) \in Nat
    BY <1>1
  <2>2. PICK g : (\A k \in 1..Len(v) : g[k] = HeadersFrom(g, v, k)) /\ HeadersOf(v) = g[Len(v)]
    <3> HIDE DEF v
    <3> QED
      BY <2>1, HeadersOfIsRecursive
  <2> QED
    BY <1>1, <2>2
<1> HIDE DEF v, n
<1> DEFINE S == {k \in 0..n : k = 0 \/ f[k] = g[k]}
<1>4. n \in S
  <2>1. 0 \in S
    BY <1>1
  <2>2. ASSUME NEW k \in 0..n - 1, k \in S PROVE k + 1 \in S
    <3> DEFINE j == k + 1
    <3>1. j \in 1..n /\ j \in 1..l /\ j - 1 = k /\ j # 0 /\ j \in 0..n /\ (j = 1 <=> k = 0)
      BY <1>1
    <3>2. f[j] = HeadersFrom(f, w, j) /\ g[j] = HeadersFrom(g, v, j) /\ v[j] = w[j]
      BY <1>1, <1>2, <1>3, <3>1
    <3> HIDE DEF j
    <3>3. HeadersFrom(f, w, j) = HeadersFrom(g, v, j)
      BY <2>2, <3>1, <3>2 DEF HeadersFrom
    <3>4. j \in S
      BY <3>1, <3>2, <3>3
    <3> QED
      BY <3>4 DEF j
  <2>3. n \in Nat /\ n \in 0..n
    BY <1>1
  <2> HIDE DEF S
  <2> QED
    BY <2>1, <2>2, <2>3, UpTo
<1>5. f[n] = g[n]
  BY <1>1, <1>4
<1>6. g[l] = WithLine(g[n], line)
  <2>1. g[l] = HeadersFrom(g, v, l) /\ l # 1 /\ l - 1 = n
    BY <1>1, <1>3
  <2> HIDE DEF l
  <2> QED
    BY <1>1, <2>1 DEF HeadersFrom
<1> QED
  BY <1>2, <1>3, <1>5, <1>6 DEF v

-----------------------------------------------------------------------------
(* What a line adds, and what a character adds to it.                       *)

\* The headers with a text after the value of the last.
Continued(headers, text) == [headers EXCEPT ![Len(headers)].value = @ \o text]

\* The last header with one character more, as LongerValue and LongerName have it.
ValueLonger(headers, c) == [headers EXCEPT ![Len(headers)].value = Append(@, c)]
NameLonger(headers, c) == [headers EXCEPT ![Len(headers)].name = Append(@, c)]

LEMMA LongerHeaders ==
    ASSUME NEW rq \in Requests, NEW c \in Characters
    PROVE  /\ LongerValue(rq, c).headers = ValueLonger(rq.headers, c)
           /\ LongerName(rq, c).headers = NameLonger(rq.headers, c)
           /\ NewHeader(rq, c).headers = Append(rq.headers, [name |-> <<c>>, value |-> <<>>])
           /\ StartOf(LongerValue(rq, c)) = StartOf(rq)
           /\ StartOf(LongerName(rq, c)) = StartOf(rq)
           /\ StartOf(NewHeader(rq, c)) = StartOf(rq)
<1>1. ASSUME NEW other, NEW longer, longer = [rq EXCEPT !.headers = other]
      PROVE  longer.headers = other /\ longer.method = rq.method /\ longer.uri = rq.uri
  BY <1>1 DEF Requests
<1>2. /\ LongerValue(rq, c) = [rq EXCEPT !.headers = ValueLonger(rq.headers, c)]
      /\ LongerName(rq, c) = [rq EXCEPT !.headers = NameLonger(rq.headers, c)]
      /\ NewHeader(rq, c) = [rq EXCEPT !.headers = Append(rq.headers, [name |-> <<c>>, value |-> <<>>])]
  BY DEF LongerValue, LongerName, NewHeader, ValueLonger, NameLonger, Requests
<1> QED
  BY <1>1, <1>2 DEF StartOf

LEMMA HeaderWith ==
    ASSUME NEW h \in Headers, NEW text \in Seq(Characters)
    PROVE  /\ [h EXCEPT !.name = text] = [name |-> text, value |-> h.value]
           /\ [h EXCEPT !.value = text] = [name |-> h.name, value |-> text]
<1>1. ASSUME NEW k \in Headers, NEW name, NEW value, k.name = name, k.value = value
      PROVE  k = [name |-> name, value |-> value]
  BY <1>1 DEF Headers
<1> DEFINE a == [h EXCEPT !.name = text]
           b == [h EXCEPT !.value = text]
<1>2. a \in Headers /\ a.name = text /\ a.value = h.value
  BY DEF Headers
<1>3. b \in Headers /\ b.name = h.name /\ b.value = text
  BY DEF Headers
<1> HIDE DEF a, b
<1>4. a = [name |-> text, value |-> h.value] /\ b = [name |-> h.name, value |-> text]
  BY <1>1, <1>2, <1>3
<1> QED
  BY <1>4 DEF a, b

\* A header just begun, with a character more.
LEMMA LastLonger ==
    ASSUME NEW hs \in Seq(Headers), NEW h \in Headers, NEW c \in Characters
    PROVE  /\ NameLonger(Append(hs, h), c) = Append(hs, [name |-> Append(h.name, c), value |-> h.value])
           /\ ValueLonger(Append(hs, h), c) = Append(hs, [name |-> h.name, value |-> Append(h.value, c)])
<1> DEFINE n == Len(hs)
           l == n + 1
           ks == Append(hs, h)
<1>1. /\ ks \in Seq(Headers) /\ Len(ks) = l /\ n \in Nat /\ ks[l] = h
      /\ \A i \in 1..n : ks[i] = hs[i]
  BY AppendProperties, LenProperties
<1>2. h = [name |-> h.name, value |-> h.value] /\ h.name \in Seq(Characters) /\ h.value \in Seq(Characters)
  BY DEF Headers
<1>3. Append(h.name, c) \in Seq(Characters) /\ Append(h.value, c) \in Seq(Characters)
  BY <1>2, AppendProperties
<1>4. ASSUME NEW k \in Headers
      PROVE  [ks EXCEPT ![l] = k] = Append(hs, k)
  <2> DEFINE x == [ks EXCEPT ![l] = k]
             y == Append(hs, k)
  <2>1. l \in 1..Len(ks)
    BY <1>1
  <2>2. x \in Seq(Headers) /\ Len(x) = l /\ \A i \in 1..l : x[i] = IF i = l THEN k ELSE ks[i]
    <3> HIDE DEF ks, l
    <3> QED
      BY <1>1, <2>1, ExceptSeq
  <2>3. y \in Seq(Headers) /\ Len(y) = l /\ y[l] = k /\ \A i \in 1..n : y[i] = hs[i]
    BY AppendProperties, LenProperties
  <2> HIDE DEF x, y
  <2>4. \A i \in 1..l : x[i] = y[i]
    BY <1>1, <2>2, <2>3
  <2>5. x = y
    BY <2>2, <2>3, <2>4, SeqEqual
  <2> QED
    BY <2>5 DEF x, y
<1> DEFINE a == [name |-> Append(h.name, c), value |-> h.value]
           b == [name |-> h.name, value |-> Append(h.value, c)]
<1>5. a \in Headers /\ b \in Headers
  BY <1>2, <1>3 DEF Headers
<1>6. [h EXCEPT !.name = Append(@, c)] = a /\ [h EXCEPT !.value = Append(@, c)] = b
  BY <1>3, HeaderWith
<1> HIDE DEF ks, l, a, b
<1>7. /\ NameLonger(ks, c) = [ks EXCEPT ![l] = [h EXCEPT !.name = Append(@, c)]]
      /\ ValueLonger(ks, c) = [ks EXCEPT ![l] = [h EXCEPT !.value = Append(@, c)]]
  BY <1>1 DEF NameLonger, ValueLonger
<1>8. NameLonger(ks, c) = Append(hs, a) /\ ValueLonger(ks, c) = Append(hs, b)
  BY <1>4, <1>5, <1>6, <1>7
<1> QED
  BY <1>8 DEF ks, a, b

\* A continued header, with nothing or with a character more.
LEMMA ContinuedLonger ==
    ASSUME NEW hs \in Seq(Headers), hs # <<>>, NEW t \in Seq(Characters), NEW c \in Characters
    PROVE  /\ Continued(hs, <<>>) = hs
           /\ ValueLonger(Continued(hs, t), c) = Continued(hs, Append(t, c))
<1> DEFINE n == Len(hs)
           h == hs[n]
           With(v) == [hs EXCEPT ![n] = [name |-> h.name, value |-> v]]
<1>1. n \in Nat /\ n \in 1..n /\ h \in Headers
  BY EmptySeq, LenProperties, ElementOfSeq
<1>2. h = [name |-> h.name, value |-> h.value] /\ h.name \in Seq(Characters) /\ h.value \in Seq(Characters)
  BY <1>1 DEF Headers
<1>3. ASSUME NEW v \in Seq(Characters) PROVE Continued(hs, v) = With(h.value \o v)
  <2>0. h.value \o v \in Seq(Characters)
    BY <1>2
  <2>1. [h EXCEPT !.value = @ \o v] = [name |-> h.name, value |-> h.value \o v]
    BY <1>1, <2>0, HeaderWith
  <2>2. Continued(hs, v) = [hs EXCEPT ![n] = [h EXCEPT !.value = @ \o v]]
    BY DEF Continued
  <2> QED
    BY <2>1, <2>2
<1>4. With(h.value) = hs
  <2> HIDE DEF h, n
  <2>1. h = hs[n]
    BY DEF h
  <2>2. [hs EXCEPT ![n] = h] = hs
    BY <2>1
  <2> QED
    BY <1>2, <2>2
<1>5. h.value \o <<>> = h.value
  BY <1>2, ConcatEmptySeq
<1>6. Continued(hs, <<>>) = hs
  <2>1. <<>> \in Seq(Characters)
    OBVIOUS
  <2>2. Continued(hs, <<>>) = With(h.value \o <<>>)
    BY <1>3, <2>1
  <2> HIDE DEF With, h
  <2> QED
    BY <1>4, <1>5, <2>2
<1>7. ASSUME NEW v \in Seq(Characters)
      PROVE  ValueLonger(With(v), c) = With(Append(v, c))
  <2> DEFINE k == [name |-> h.name, value |-> v]
             ks == [hs EXCEPT ![n] = k]
  <2>1. k \in Headers
    BY <1>2 DEF Headers
  <2>2. ks \in Seq(Headers) /\ Len(ks) = n /\ ks[n] = k
    <3> HIDE DEF k, h
    <3> QED
      BY <1>1, <2>1, ExceptSeq
  <2>3. [k EXCEPT !.value = Append(@, c)] = [name |-> h.name, value |-> Append(v, c)]
    <3>1. k.value = v /\ k.name = h.name /\ Append(v, c) \in Seq(Characters)
      BY AppendProperties
    <3> HIDE DEF k, h
    <3> QED
      BY <2>1, <3>1, HeaderWith
  <2> HIDE DEF k
  <2>4. ValueLonger(ks, c) = [ks EXCEPT ![n] = [k EXCEPT !.value = Append(@, c)]]
    <3> HIDE DEF ks
    <3> QED
      BY <2>2 DEF ValueLonger
  <2>5. \A x : [ks EXCEPT ![n] = x] = [hs EXCEPT ![n] = x]
    OBVIOUS
  <2> QED
    BY <2>3, <2>4, <2>5 DEF k
<1>8. h.value \o t \in Seq(Characters) /\ Append(t, c) \in Seq(Characters)
      /\ Append(h.value \o t, c) = h.value \o Append(t, c)
  <2> DEFINE v == h.value
  <2>1. v \in Seq(Characters) /\ v \o t \in Seq(Characters) /\ Append(t, c) \in Seq(Characters)
    BY <1>2, AppendProperties, ConcatProperties
  <2> HIDE DEF v
  <2>2. Append(v \o t, c) = v \o Append(t, c)
    BY <2>1, AppendToConcat
  <2> QED
    BY <2>1, <2>2 DEF v
<1> HIDE DEF With, h, n
<1>9. ValueLonger(Continued(hs, t), c) = Continued(hs, Append(t, c))
  BY <1>3, <1>7, <1>8
<1> QED
  BY <1>6, <1>9

\* What a header says is told by its colon, which is the first.
LEMMA HeaderSays ==
    ASSUME NEW hs, NEW r \in Seq(Characters), NEW i \in At(":", r), SplitsHeader(r, i)
    PROVE  WithLine(hs, r) = Append(hs, [name |-> SubSeq(r, 1, i - 1), value |-> SubSeq(r, i + 2, Len(r))])
<1>1. Len(r) \in Nat /\ i \in 1..Len(r) /\ 1 < i /\ r[i] = ":" /\ \A k \in 1..i - 1 : r[k] \in Tokens
  BY LenProperties DEF At, SplitsHeader, AllIn
<1>2. r[1] \notin Blanks
  <2>1. 1 \in 1..i - 1
    BY <1>1
  <2> QED
    BY <1>1, <2>1, Classes
<1>3. ASSUME NEW j \in At(":", r), SplitsHeader(r, j) PROVE j = i
  <2>1. j \in 1..Len(r) /\ 1 < j /\ r[j] = ":" /\ \A k \in 1..j - 1 : r[k] \in Tokens
    BY <1>1, <1>3 DEF At, SplitsHeader, AllIn
  <2>2. ~(j < i)
    <3>1. j < i => j \in 1..i - 1
      BY <1>1, <2>1
    <3> QED
      BY <1>1, <2>1, <3>1, Classes
  <2>3. ~(i < j)
    <3>1. i < j => i \in 1..j - 1
      BY <1>1, <2>1
    <3> QED
      BY <1>1, <2>1, <3>1, Classes
  <2> QED
    BY <1>1, <2>1, <2>2, <2>3
<1> DEFINE colon == CHOOSE j \in At(":", r) : SplitsHeader(r, j)
<1>4. colon = i
  BY <1>3
<1>5. WithLine(hs, r) = Append(hs, [name |-> SubSeq(r, 1, colon - 1), value |-> SubSeq(r, colon + 2, Len(r))])
  BY <1>2 DEF WithLine
<1> HIDE DEF colon
<1> QED
  BY <1>4, <1>5

\* What a continuation says begins after its blanks.
LEMMA ContinuationSays ==
    ASSUME NEW hs, NEW r \in Seq(Characters), NEW i \in DOMAIN r, SplitsContinuation(r, i)
    PROVE  WithLine(hs, r) = Continued(hs, SubSeq(r, i + 1, Len(r)))
<1>1. /\ Len(r) \in Nat /\ DOMAIN r = 1..Len(r) /\ i \in 1..Len(r)
      /\ \A k \in 1..i : r[k] \in Blanks
      /\ i < Len(r) => r[i + 1] \notin Blanks
  BY LenProperties DEF SplitsContinuation, AllIn
<1>2. r[1] \in Blanks
  BY <1>1
<1>3. ASSUME NEW j \in DOMAIN r, SplitsContinuation(r, j) PROVE j = i
  <2>1. /\ j \in 1..Len(r) /\ \A k \in 1..j : r[k] \in Blanks
        /\ j < Len(r) => r[j + 1] \notin Blanks
    BY <1>1, <1>3 DEF SplitsContinuation, AllIn
  <2>2. ~(j < i)
    <3>1. j < i => j + 1 \in 1..i /\ j < Len(r)
      BY <1>1, <2>1
    <3> QED
      BY <1>1, <2>1, <3>1
  <2>3. ~(i < j)
    <3>1. i < j => i + 1 \in 1..j /\ i < Len(r)
      BY <1>1, <2>1
    <3> QED
      BY <1>1, <2>1, <3>1
  <2> QED
    BY <1>1, <2>1, <2>2, <2>3
<1> DEFINE end == CHOOSE j \in DOMAIN r : SplitsContinuation(r, j)
<1>4. end = i
  BY <1>3
<1>5. WithLine(hs, r) = Continued(hs, SubSeq(r, end + 1, Len(r)))
  BY <1>2 DEF WithLine, Continued
<1> HIDE DEF end
<1> QED
  BY <1>4, <1>5

\* The first j characters.
LEMMA StartOfText ==
    ASSUME NEW s, NEW j \in Nat, \A k \in 1..j : s[k] \in Characters
    PROVE  /\ SubSeq(s, 1, j) \in Seq(Characters) /\ Len(SubSeq(s, 1, j)) = j
           /\ \A k \in 1..j : SubSeq(s, 1, j)[k] = s[k]
<1> DEFINE i == 1
           u == SubSeq(s, i, j)
<1>1. i \in Int /\ j \in Int /\ (i =< j => (j - i) + 1 = j) /\ (~(i =< j) => j = 0)
      /\ (j - i) + 1 = j /\ \A k \in 1..j : (i + k) - 1 = k
  OBVIOUS
<1>2. \A k \in i..j : s[k] \in Characters
  OBVIOUS
<1> HIDE DEF i
<1>3. /\ u \in Seq(Characters) /\ Len(u) = IF i =< j THEN (j - i) + 1 ELSE 0
      /\ \A k \in 1..(j - i) + 1 : u[k] = s[(i + k) - 1]
  BY <1>1, <1>2, SubSeqProperties
<1> HIDE DEF u
<1>4. u \in Seq(Characters) /\ Len(u) = j /\ \A k \in 1..j : u[k] = s[k]
  BY <1>1, <1>3
<1> QED
  BY <1>4 DEF u, i

\* Parts of a line that is one character longer.
LEMMA PartsOfLonger ==
    ASSUME NEW r \in Seq(Characters), NEW c \in Characters, NEW a, a = Append(r, c),
           NEW i \in 1..Len(r) + 1
    PROVE  /\ SubSeq(a, i, Len(a)) = Append(SubSeq(r, i, Len(r)), c)
           /\ SubSeq(a, 1, i - 1) = SubSeq(r, 1, i - 1)
           /\ SubSeq(r, i, Len(r)) \in Seq(Characters)
           /\ SubSeq(r, 1, i - 1) \in Seq(Characters)
<1> DEFINE l == Len(r)
           j == i - 1
           m == l + 1
<1>1. /\ l \in Nat /\ Len(a) = m /\ a[m] = c
      /\ \A k \in 1..l : a[k] = r[k] /\ r[k] \in Characters
      /\ j \in 0..l /\ i = j + 1 /\ m = l + 1 /\ m \in Int /\ i \in Int
  BY AppendProperties, LenProperties, ElementOfSeq
<1> HIDE DEF l, j, m
<1>2. \A k \in 1..m : a[k] \in Characters
  <2>1. \A k \in 1..m : k \in 1..l \/ k = m
    BY <1>1
  <2> QED
    BY <1>1, <2>1
<1> DEFINE x == SubSeq(a, i, m)
           y == SubSeq(r, i, l)
           z == Append(y, c)
<1>3. /\ x \in Seq(Characters) /\ Len(x) = (m - i) + 1
      /\ \A k \in 1..(m - i) + 1 : x[k] = a[(i + k) - 1]
  <2>1. i =< m /\ \A k \in i..m : k \in 1..m
    BY <1>1
  <2>2. \A k \in i..m : a[k] \in Characters
    BY <1>2, <2>1
  <2> QED
    BY <1>1, <2>1, <2>2, SubSeqProperties
<1>4. /\ y \in Seq(Characters) /\ Len(y) = (l - i) + 1
      /\ \A k \in 1..(l - i) + 1 : y[k] = r[(i + k) - 1]
  <2>1. l \in Int /\ (i =< l \/ i = l + 1) /\ \A k \in i..l : k \in 1..l
    BY <1>1
  <2>2. \A k \in i..l : r[k] \in Characters
    BY <1>1, <2>1
  <2>3. /\ y \in Seq(Characters) /\ Len(y) = IF i =< l THEN (l - i) + 1 ELSE 0
        /\ \A k \in 1..(l - i) + 1 : y[k] = r[(i + k) - 1]
    BY <1>1, <2>1, <2>2, SubSeqProperties
  <2> HIDE DEF y
  <2> QED
    BY <1>1, <2>1, <2>3
<1> HIDE DEF x, y
<1> DEFINE n == (l - i) + 1
<1>5. n \in Nat /\ Len(y) = n /\ Len(x) = n + 1 /\ (i + (n + 1)) - 1 = m
  BY <1>1, <1>3, <1>4
<1>6. z \in Seq(Characters) /\ Len(z) = n + 1 /\ z[n + 1] = c /\ \A k \in 1..n : z[k] = y[k]
  BY <1>4, <1>5, AppendProperties
<1> HIDE DEF z
<1>7. \A k \in 1..n + 1 : x[k] = z[k]
  <2> TAKE k \in 1..n + 1
  <2>1. CASE k = n + 1
    <3>1. x[k] = a[m]
      BY <1>3, <1>5, <2>1
    <3> QED
      BY <1>1, <1>6, <2>1, <3>1
  <2>2. CASE k \in 1..n
    <3>1. (i + k) - 1 \in 1..l /\ k \in 1..(m - i) + 1
      BY <1>1, <1>5, <2>2
    <3>2. x[k] = a[(i + k) - 1] /\ z[k] = r[(i + k) - 1]
      BY <1>3, <1>4, <1>6, <2>2, <3>1
    <3> QED
      BY <1>1, <3>1, <3>2
  <2> QED
    BY <1>5, <2>1, <2>2
<1>8. x = z
  <2> HIDE DEF n
  <2>1. Len(x) = Len(z) /\ \A k \in 1..Len(x) : x[k] = z[k]
    BY <1>5, <1>6, <1>7
  <2> QED
    BY <1>3, <1>6, <2>1, SeqEqual
<1> DEFINE u == SubSeq(a, 1, j)
           v == SubSeq(r, 1, j)
<1>9. /\ u \in Seq(Characters) /\ Len(u) = j /\ \A k \in 1..j : u[k] = a[k]
      /\ v \in Seq(Characters) /\ Len(v) = j /\ \A k \in 1..j : v[k] = r[k]
  <2>1. \A k \in 1..j : k \in 1..l /\ k \in 1..m
    BY <1>1
  <2>2. j \in Nat /\ \A k \in 1..j : a[k] \in Characters /\ r[k] \in Characters
    BY <1>1, <1>2, <2>1
  <2> QED
    BY <2>2, StartOfText
<1> HIDE DEF u, v
<1>10. u = v
  <2>1. \A k \in 1..Len(u) : u[k] = v[k]
    BY <1>1, <1>9
  <2> QED
    BY <1>9, <2>1, SeqEqual
<1> QED
  BY <1>1, <1>4, <1>8, <1>9, <1>10 DEF x, y, z, u, v, l, j, m

-----------------------------------------------------------------------------
(* The moves keep in the request what has arrived.                          *)

LEMMA StartType ==
    ASSUME NEW rq \in Requests
    PROVE  /\ rq.method \in Seq(Characters) /\ rq.uri \in Seq(Characters)
           /\ <<"SP">> \in Seq(Characters) /\ <<"SP", "H">> \in Seq(Characters)
           /\ rq.method \o <<"SP">> \in Seq(Characters)
           /\ rq.method \o <<"SP">> \o rq.uri \in Seq(Characters)
           /\ StartOf(rq) \in Seq(Characters)
<1> DEFINE m == rq.method
           u == rq.uri
<1>1. m \in Seq(Characters) /\ u \in Seq(Characters)
  BY DEF Requests
<1>2. "SP" \in Characters /\ "H" \in Characters
  BY DEF Characters, Tokens, Specials
<1>3. <<"SP">> \in Seq(Characters) /\ <<"SP", "H">> \in Seq(Characters)
  BY <1>2
<1> HIDE DEF m, u
<1> DEFINE x == m \o <<"SP">>
           y == x \o u
<1>4. x \in Seq(Characters)
  BY <1>1, <1>3, ConcatProperties
<1> HIDE DEF x
<1>5. y \in Seq(Characters)
  BY <1>1, <1>4, ConcatProperties
<1> HIDE DEF y
<1>6. y \o <<"SP", "H">> \in Seq(Characters)
  BY <1>3, <1>5, ConcatProperties
<1> QED
  BY <1>1, <1>3, <1>4, <1>5, <1>6 DEF x, y, m, u, StartOf

\* What is a prefix stays one.
LEMMA PrefixStays ==
    ASSUME NEW t \in Seq(Characters), NEW r \in Seq(Characters), NEW c \in Characters,
           NEW a, a = Append(r, c), IsPrefix(t, r)
    PROVE  IsPrefix(t, a)
<1> DEFINE n == Len(t)
<1>1. /\ n \in Nat /\ Len(r) \in Nat /\ n =< Len(r) /\ Len(a) = Len(r) + 1
      /\ \A k \in 1..Len(r) : a[k] = r[k] /\ r[k] \in Characters
      /\ SubSeq(t, 1, n) = SubSeq(r, 1, n)
  BY AppendProperties, LenProperties, ElementOfSeq DEF IsPrefix
<1> HIDE DEF n
<1> DEFINE x == SubSeq(r, 1, n)
           y == SubSeq(a, 1, n)
<1>2. \A k \in 1..n : r[k] \in Characters /\ a[k] \in Characters /\ a[k] = r[k]
  BY <1>1
<1>3. /\ x \in Seq(Characters) /\ Len(x) = n /\ \A k \in 1..n : x[k] = r[k]
      /\ y \in Seq(Characters) /\ Len(y) = n /\ \A k \in 1..n : y[k] = a[k]
  BY <1>1, <1>2, StartOfText
<1> HIDE DEF x, y
<1>4. \A k \in 1..Len(x) : x[k] = y[k]
  BY <1>2, <1>3
<1>5. x = y
  BY <1>3, <1>4, SeqEqual
<1>6. n =< Len(a)
  BY <1>1
<1> QED
  BY <1>1, <1>5, <1>6 DEF IsPrefix, n, x, y

\* The protocol begins where the URI ends.
LEMMA StartIsComplete ==
    ASSUME NEW rq \in Requests, NEW r, r = Append(rq.method \o <<"SP">> \o rq.uri, "SP")
    PROVE  IsPrefix(StartOf(rq), Append(r, "H"))
<1> DEFINE x == rq.method \o <<"SP">> \o rq.uri
           sp == <<"SP">>
<1>1. x \in Seq(Characters) /\ sp \in Seq(Characters) /\ StartOf(rq) \in Seq(Characters)
  BY StartType
<1>2. "SP" \in Characters /\ "H" \in Characters
  BY DEF Characters, Tokens, Specials
<1>3. Append(sp, "H") = <<"SP", "H">>
  <2> DEFINE y == <<"SP", "H">>
             z == Append(sp, "H")
  <2>1. y \in Seq(Characters) /\ Len(y) = 2 /\ y[1] = "SP" /\ y[2] = "H"
    BY <1>2
  <2>2. Len(sp) = 1 /\ sp[1] = "SP"
    OBVIOUS
  <2>3. /\ z \in Seq(Characters) /\ Len(z) = Len(sp) + 1 /\ z[Len(sp) + 1] = "H"
        /\ \A i \in 1..Len(sp) : z[i] = sp[i]
    BY <1>1, <1>2, AppendProperties
  <2> HIDE DEF y, z, sp
  <2>4. Len(z) = 2 /\ z[1] = "SP" /\ z[2] = "H"
    BY <2>2, <2>3
  <2>5. \A i \in 1..Len(z) : z[i] = y[i]
    BY <2>1, <2>4
  <2> QED
    BY <2>1, <2>3, <2>4, <2>5, SeqEqual DEF y, z
<1>4. StartOf(rq) = x \o Append(sp, "H")
  BY <1>3 DEF StartOf
<1>5. r = Append(x, "SP")
  OBVIOUS
<1> HIDE DEF x
<1>6. r = x \o sp
  BY <1>1, <1>2, <1>5, AppendIsConcat
<1> HIDE DEF sp
<1>7. Append(x \o sp, "H") = x \o Append(sp, "H")
  BY <1>1, <1>2, AppendToConcat
<1>8. Append(r, "H") = StartOf(rq)
  BY <1>4, <1>6, <1>7
<1>9. Len(StartOf(rq)) =< Len(StartOf(rq))
  BY <1>1, LenProperties
<1> QED
  BY <1>8, <1>9 DEF IsPrefix

\* What the request has of its first line after a move that does not end it.
LEMMA RequestFieldsMove ==
    ASSUME Typed, NEW c \in Characters, NEW move \in Moves(c), NEW r \in Seq(Characters),
           RequestLineShape(state_, r), RequestFields(state_, req, r), c # "LF"
    PROVE  RequestFields(move.state, move.req, Append(r, c))
<1> DEFINE a == Append(r, c)
           x == req.method \o <<"SP">>
<1>0. req \in Requests /\ a = Append(r, c)
  BY DEF Typed, TypeOK
<1>1. /\ x \in Seq(Characters) /\ req.uri \in Seq(Characters) /\ req.method \in Seq(Characters)
      /\ StartOf(req) \in Seq(Characters)
  BY <1>0, StartType
<1> HIDE DEF a
<1>2. CASE MethodMove(c, move)
  <2>1. r = req.method /\ req.uri = <<>>
    BY <1>2 DEF MethodMove, RequestFields
  <2>2. move.req.method = Append(req.method, c) /\ move.req.uri = req.uri
    BY <1>0, <1>2 DEF MethodMove, LongerMethod, Requests
  <2> QED
    BY <1>0, <1>2, <2>1, <2>2 DEF MethodMove, RequestFields
<1>3. CASE UriMove(c, move)
  <2>1. r = x \o req.uri
    BY <1>3 DEF UriMove, RequestFields
  <2>2. move.req.uri = Append(req.uri, c) /\ move.req.method = req.method
    BY <1>0, <1>3 DEF UriMove, LongerUri, Requests
  <2>3. a = x \o move.req.uri
    <3> DEFINE u == req.uri
    <3> HIDE DEF x, u
    <3>1. Append(x \o u, c) = x \o Append(u, c)
      BY <1>1, AppendToConcat DEF u
    <3>2. r = x \o u /\ move.req.uri = Append(u, c)
      BY <2>1, <2>2 DEF u
    <3> QED
      BY <1>0, <3>1, <3>2
  <2> QED
    BY <1>0, <1>3, <2>2, <2>3 DEF UriMove, RequestFields
<1>4. ASSUME IsPrefix(StartOf(req), r) PROVE IsPrefix(StartOf(req), a)
  BY <1>0, <1>1, <1>4, PrefixStays
<1>5. CASE MajorMove(c, move) \/ MinorMove(c, move)
  <2>1. IsPrefix(StartOf(req), r) /\ move.req = req
    BY <1>5 DEF MajorMove, MinorMove, RequestFields
  <2>2. IsPrefix(StartOf(req), a)
    BY <1>4, <2>1
  <2> QED
    BY <1>0, <1>5, <2>1, <2>2 DEF MajorMove, MinorMove, RequestFields
<1>6. CASE FixedMove(c, move)
  <2>0. FixedBy(state_, c, move.state) /\ move.req = req
    BY <1>6 DEF FixedMove, FixedBy
  <2>1. CASE state_ = "method" /\ c = "SP" /\ move.state = "uri"
    <3>1. r = req.method /\ req.uri = <<>>
      BY <2>1 DEF RequestFields
    <3>2. a = x
      BY <1>0, <1>1, <2>1, <3>1, AppendIsConcat
    <3>3. x \o <<>> = x
      BY <1>1, ConcatEmptySeq
    <3>4. a = x \o req.uri
      BY <3>1, <3>2, <3>3
    <3> QED
      BY <1>0, <2>0, <2>1, <3>4 DEF RequestFields
  <2>2. CASE state_ = "uri" /\ c = "SP" /\ move.state = "http_version_h"
    <3>1. a = Append(x \o req.uri, "SP")
      BY <1>0, <2>2 DEF RequestFields
    <3> QED
      BY <1>0, <2>0, <2>2, <3>1 DEF RequestFields
  <2>3. CASE state_ = "http_version_h" /\ c = "H" /\ move.state = "http_version_t_1"
    <3>1. r = Append(x \o req.uri, "SP")
      BY <2>3 DEF RequestFields
    <3>2. IsPrefix(StartOf(req), a)
      BY <1>0, <2>3, <3>1, StartIsComplete
    <3> QED
      BY <1>0, <2>0, <2>3, <3>2 DEF RequestFields
  <2>4. CASE state_ = "http_version_minor" /\ c = "CR" /\ move.state = "expecting_newline_1"
    <3>1. IsPrefix(StartOf(req), r)
      BY <2>4 DEF RequestFields
    <3>2. Front(a) = r
      BY <1>0, <2>4, ReturnGrows
    <3> QED
      BY <1>0, <2>0, <2>4, <3>1, <3>2 DEF RequestFields
  <2>5. CASE /\ state_ \in {"http_version_t_1", "http_version_t_2", "http_version_p",
                            "http_version_slash", "http_version_major"}
             /\ move.state \in {"http_version_t_2", "http_version_p", "http_version_slash",
                                "http_version_major_start", "http_version_minor_start"}
    <3>1. IsPrefix(StartOf(req), r)
      BY <2>5 DEF RequestFields
    <3>2. IsPrefix(StartOf(req), a)
      BY <1>4, <3>1
    <3> QED
      BY <1>0, <2>0, <2>5, <3>2 DEF RequestFields
  <2>6. state_ \notin {"header_line_start", "header_lws", "header_name", "header_value",
                       "space_before_header_value", "expecting_newline_2"}
    BY DEF RequestLineShape
  <2> QED
    BY <2>0, <2>1, <2>2, <2>3, <2>4, <2>5, <2>6, FixedCases
<1>7. ~BlankMove(c, move) /\ ~HeaderMove(c, move) /\ ~NameMove(c, move) /\ ~ValueMove(c, move)
  BY DEF BlankMove, HeaderMove, NameMove, ValueMove, RequestLineShape
<1> QED
  BY <1>2, <1>3, <1>5, <1>6, <1>7, MoveCases, Zenon


\* The space after the colon says what the header is.
LEMMA ColonIsSaid ==
    ASSUME NEW hs, NEW r \in Seq(Characters), BeganHeader(r), NEW a, a = Append(r, "SP")
    PROVE  WithLine(hs, a) = Append(hs, [name |-> Front(r), value |-> <<>>])
<1> DEFINE l == Len(r)
<1>0. "SP" \in Characters
  BY DEF Characters, Specials
<1>1. /\ l \in Nat /\ Len(a) = l + 1 /\ DOMAIN a = 1..l + 1 /\ a \in Seq(Characters)
      /\ a[l + 1] = "SP" /\ \A k \in 1..l : a[k] = r[k]
  BY <1>0, Longer
<1>2. 1 < l /\ r[l] = ":" /\ \A k \in 1..l - 1 : r[k] \in Tokens
  BY DEF BeganHeader, AllIn
<1> HIDE DEF l
<1>3. l \in At(":", a) /\ SplitsHeader(a, l)
  BY <1>1, <1>2 DEF SplitsHeader, AllIn, At
<1>4. WithLine(hs, a) = Append(hs, [name |-> SubSeq(a, 1, l - 1), value |-> SubSeq(a, l + 2, Len(a))])
  BY <1>1, <1>3, HeaderSays
<1>5. SubSeq(a, 1, l - 1) = Front(r)
  <2>1. l \in 1..Len(r) + 1
    BY <1>1, <1>2 DEF l
  <2>2. SubSeq(a, 1, l - 1) = SubSeq(r, 1, l - 1)
    BY <1>0, <2>1, PartsOfLonger
  <2> QED
    BY <2>2 DEF Front, l
<1>6. SubSeq(a, l + 2, Len(a)) = <<>>
  <2>1. l + 2 \in Int /\ Len(a) \in Int /\ ~(l + 2 =< Len(a))
    BY <1>1
  <2> QED
    BY <2>1, SubSeqEmpty
<1> QED
  BY <1>4, <1>5, <1>6

\* A character of its value is added to the header that the line says.
LEMMA ValueIsSaid ==
    ASSUME NEW hs \in Seq(Headers), NEW r \in Seq(Characters), NEW c \in Printable,
           NEW a, a = Append(r, c), IsHeader(r)
    PROVE  WithLine(hs, a) = ValueLonger(WithLine(hs, r), c)
<1> DEFINE l == Len(r)
<1>0. c \in Characters
  BY Classes
<1>1. /\ l \in Nat /\ Len(a) = l + 1 /\ DOMAIN a = 1..l + 1 /\ DOMAIN r = 1..l /\ a \in Seq(Characters)
      /\ a[l + 1] = c /\ \A k \in 1..l : a[k] = r[k]
  BY <1>0, Longer
<1>2. PICK i \in 1..l : SplitsHeader(r, i) /\ r[i] = ":"
  BY <1>1 DEF IsHeader, At
<1>3. /\ 1 < i /\ i < l /\ r[i + 1] = "SP"
      /\ \A k \in 1..i - 1 : r[k] \in Tokens
      /\ \A k \in i + 2..l : r[k] \in Printable
  BY <1>2 DEF SplitsHeader, AllIn
<1>4. i \in At(":", r)
  BY <1>1, <1>2 DEF At
<1> HIDE DEF l
<1>5. i \in At(":", a) /\ SplitsHeader(a, i)
  BY <1>1, <1>2, <1>3 DEF SplitsHeader, AllIn, At
<1>6. i \in 1..Len(r) + 1 /\ i + 2 \in 1..Len(r) + 1
  BY <1>1, <1>3 DEF l
<1> DEFINE name == SubSeq(r, 1, i - 1)
           value == SubSeq(r, i + 2, Len(r))
<1>7. name \in Seq(Characters) /\ SubSeq(a, 1, i - 1) = name
  BY <1>0, <1>6, PartsOfLonger
<1>8. value \in Seq(Characters) /\ SubSeq(a, i + 2, Len(a)) = Append(value, c)
  BY <1>0, <1>6, PartsOfLonger
<1>9. WithLine(hs, r) = Append(hs, [name |-> name, value |-> value])
  BY <1>2, <1>4, HeaderSays
<1>10. WithLine(hs, a) = Append(hs, [name |-> SubSeq(a, 1, i - 1), value |-> SubSeq(a, i + 2, Len(a))])
  BY <1>1, <1>5, HeaderSays
<1>11. WithLine(hs, a) = Append(hs, [name |-> name, value |-> Append(value, c)])
  BY <1>7, <1>8, <1>10
<1> HIDE DEF name, value
<1>12. PICK h : h = [name |-> name, value |-> value]
  OBVIOUS
<1>13. h \in Headers /\ h.name = name /\ h.value = value
  BY <1>7, <1>8, <1>12 DEF Headers
<1>14. ValueLonger(Append(hs, h), c) = Append(hs, [name |-> h.name, value |-> Append(h.value, c)])
  BY <1>0, <1>13, LastLonger
<1> QED
  BY <1>9, <1>11, <1>12, <1>13, <1>14

\* And one of a line that continues it.
LEMMA ContinuationIsSaid ==
    ASSUME NEW hs \in Seq(Headers), hs # <<>>, NEW r \in Seq(Characters), NEW c \in Printable,
           NEW a, a = Append(r, c), BeganContinuation(r)
    PROVE  WithLine(hs, a) = ValueLonger(WithLine(hs, r), c)
<1> DEFINE l == Len(r)
<1>0. c \in Characters
  BY Classes
<1>1. /\ l \in Nat /\ Len(a) = l + 1 /\ DOMAIN a = 1..l + 1 /\ DOMAIN r = 1..l /\ a \in Seq(Characters)
      /\ a[l + 1] = c /\ \A k \in 1..l : a[k] = r[k]
  BY <1>0, Longer
<1>2. PICK i \in DOMAIN r : SplitsContinuation(r, i) /\ i < l
  BY DEF BeganContinuation
<1>3. /\ i \in 1..l /\ r[i + 1] \notin Blanks
      /\ \A k \in 1..i : r[k] \in Blanks
      /\ \A k \in i + 1..l : r[k] \in Printable
  BY <1>1, <1>2 DEF SplitsContinuation, AllIn
<1> HIDE DEF l
<1>4. SplitsContinuation(a, i) /\ i \in DOMAIN a
  BY <1>1, <1>2, <1>3 DEF SplitsContinuation, AllIn
<1>5. i + 1 \in 1..Len(r) + 1
  BY <1>1, <1>3 DEF l
<1> DEFINE t == SubSeq(r, i + 1, Len(r))
<1>6. t \in Seq(Characters) /\ SubSeq(a, i + 1, Len(a)) = Append(t, c)
  BY <1>0, <1>5, PartsOfLonger
<1>7. WithLine(hs, r) = Continued(hs, t)
  BY <1>2, ContinuationSays
<1>8. WithLine(hs, a) = Continued(hs, SubSeq(a, i + 1, Len(a)))
  BY <1>1, <1>4, ContinuationSays
<1> HIDE DEF t
<1>9. ValueLonger(Continued(hs, t), c) = Continued(hs, Append(t, c))
  BY <1>0, <1>6, ContinuedLonger
<1> QED
  BY <1>6, <1>7, <1>8, <1>9

\* Whose blanks add nothing.
LEMMA BlanksAreNotSaid ==
    ASSUME NEW hs \in Seq(Headers), hs # <<>>,
           NEW r \in Seq(Characters), r # <<>>, AllIn(r, 1, Len(r), Blanks)
    PROVE  /\ WithLine(hs, r) = hs
           /\ \A c \in Printable \ Blanks : WithLine(hs, Append(r, c)) = ValueLonger(hs, c)
<1> DEFINE l == Len(r)
<1>1. /\ l \in Nat /\ DOMAIN r = 1..l /\ l >= 1 /\ l \in DOMAIN r
      /\ \A k \in 1..l : r[k] \in Blanks
  BY EmptySeq, LenProperties DEF AllIn
<1>2. SplitsContinuation(r, l)
  BY <1>1 DEF SplitsContinuation, AllIn
<1>3. SubSeq(r, l + 1, Len(r)) = <<>> /\ <<>> \in Seq(Characters)
  <2>1. l + 1 \in Int /\ Len(r) \in Int /\ ~(l + 1 =< Len(r))
    BY <1>1
  <2> HIDE DEF l
  <2> QED
    BY <2>1, SubSeqEmpty
<1>4. WithLine(hs, r) = Continued(hs, SubSeq(r, l + 1, Len(r)))
  BY <1>1, <1>2, ContinuationSays
<1>5. \A c \in Characters : Continued(hs, <<>>) = hs /\ ValueLonger(Continued(hs, <<>>), c) = Continued(hs, Append(<<>>, c))
  BY <1>3, ContinuedLonger
<1>6. "SP" \in Characters
  BY DEF Characters, Specials
<1>7. Continued(hs, <<>>) = hs
  BY <1>5, <1>6
<1>8. ASSUME NEW c \in Printable \ Blanks
      PROVE  WithLine(hs, Append(r, c)) = ValueLonger(hs, c)
  <2>0. c \in Characters
    BY Classes
  <2>1. PICK a : a = Append(r, c)
    OBVIOUS
  <2>2. /\ Len(a) = l + 1 /\ DOMAIN a = 1..l + 1 /\ a \in Seq(Characters)
        /\ a[l + 1] = c /\ \A k \in 1..l : a[k] = r[k]
    BY <2>0, <2>1, Longer
  <2> HIDE DEF l
  <2>3. l \in DOMAIN a /\ SplitsContinuation(a, l)
    BY <1>1, <2>2 DEF SplitsContinuation, AllIn
  <2>4. l + 1 \in 1..Len(r) + 1
    BY <1>1 DEF l
  <2>5. SubSeq(a, l + 1, Len(a)) = Append(SubSeq(r, l + 1, Len(r)), c)
    BY <2>0, <2>1, <2>4, PartsOfLonger
  <2>6. WithLine(hs, a) = Continued(hs, SubSeq(a, l + 1, Len(a)))
    BY <2>2, <2>3, ContinuationSays
  <2>7. ValueLonger(Continued(hs, <<>>), c) = Continued(hs, Append(<<>>, c))
    BY <1>5, <2>0
  <2> QED
    BY <1>3, <1>7, <2>1, <2>5, <2>6, <2>7
<1> QED
  BY <1>3, <1>4, <1>7, <1>8

\* What the request has of a line after a move that does not end it.
LEMMA HeaderFieldsMove ==
    ASSUME Typed, NEW c \in Characters, NEW move \in Moves(c), NEW n \in Nat, NEW r \in Seq(Characters),
           HeaderLineShape(state_, n, r), NEW hs \in Seq(Headers), n >= 2 => hs # <<>>,
           HeaderFields(state_, req.headers, hs, r), c # "LF"
    PROVE  HeaderFields(move.state, move.req.headers, hs, Append(r, c)) /\ StartOf(move.req) = StartOf(req)
<1> DEFINE a == Append(r, c)
<1>0. req \in Requests /\ a = Append(r, c) /\ Front(a) = r
  BY Longer DEF Typed, TypeOK
<1> HIDE DEF a
<1>1. /\ LongerValue(req, c).headers = ValueLonger(req.headers, c)
      /\ LongerName(req, c).headers = NameLonger(req.headers, c)
      /\ NewHeader(req, c).headers = Append(req.headers, [name |-> <<c>>, value |-> <<>>])
      /\ StartOf(LongerValue(req, c)) = StartOf(req)
      /\ StartOf(LongerName(req, c)) = StartOf(req)
      /\ StartOf(NewHeader(req, c)) = StartOf(req)
  BY <1>0, LongerHeaders
<1>2. CASE BlankMove(c, move)
  <2>1. req.headers = hs
    BY <1>2 DEF BlankMove, HeaderFields
  <2> QED
    BY <1>0, <1>2, <2>1 DEF BlankMove, HeaderFields
<1>3. CASE HeaderMove(c, move)
  <2>1. req.headers = hs /\ r = <<>>
    BY <1>3 DEF HeaderMove, HeaderFields, HeaderLineShape
  <2>2. a = <<c>>
    BY <1>0, <2>1
  <2>3. move.req.headers = Append(hs, [name |-> a, value |-> <<>>]) /\ StartOf(move.req) = StartOf(req)
    BY <1>1, <1>3, <2>1, <2>2 DEF HeaderMove
  <2> QED
    BY <1>0, <1>3, <2>3 DEF HeaderMove, HeaderFields
<1>4. CASE NameMove(c, move)
  <2>1. req.headers = Append(hs, [name |-> r, value |-> <<>>])
    BY <1>4 DEF NameMove, HeaderFields
  <2>2. PICK h : h = [name |-> r, value |-> <<>>]
    OBVIOUS
  <2>3. h \in Headers /\ h.name = r /\ h.value = <<>>
    BY <2>2 DEF Headers
  <2>4. NameLonger(Append(hs, h), c) = Append(hs, [name |-> Append(h.name, c), value |-> h.value])
    BY <2>3, LastLonger
  <2>5. NameLonger(req.headers, c) = Append(hs, [name |-> a, value |-> <<>>])
    BY <1>0, <2>1, <2>2, <2>3, <2>4
  <2>6. move.req.headers = Append(hs, [name |-> a, value |-> <<>>]) /\ StartOf(move.req) = StartOf(req)
    BY <1>1, <1>4, <2>5 DEF NameMove
  <2> QED
    BY <1>0, <1>4, <2>6 DEF NameMove, HeaderFields
<1>5. CASE ValueMove(c, move)
  <2>1. c \in Printable /\ move.state = "header_value" /\ move.req = LongerValue(req, c)
    BY <1>5 DEF ValueMove
  <2>2. WithLine(hs, a) = ValueLonger(req.headers, c)
    <3>1. CASE state_ = "header_lws"
      <4>1. n >= 2 /\ r # <<>> /\ AllIn(r, 1, Len(r), Blanks) /\ c \in Printable \ Blanks
        BY <1>5, <3>1 DEF ValueMove, HeaderLineShape
      <4>2. req.headers = hs
        BY <3>1 DEF HeaderFields
      <4>3. WithLine(hs, Append(r, c)) = ValueLonger(hs, c)
        BY <4>1, BlanksAreNotSaid
      <4> QED
        BY <1>0, <4>2, <4>3
    <3>2. CASE state_ = "header_value"
      <4>1. IsHeader(r) \/ (n >= 2 /\ BeganContinuation(r))
        BY <3>2 DEF HeaderLineShape
      <4>2. req.headers = WithLine(hs, r)
        BY <3>2 DEF HeaderFields
      <4>3. WithLine(hs, a) = ValueLonger(WithLine(hs, r), c)
        <5>1. IsHeader(r) => WithLine(hs, a) = ValueLonger(WithLine(hs, r), c)
          BY <1>0, <2>1, ValueIsSaid
        <5>2. hs # <<>> /\ BeganContinuation(r) => WithLine(hs, a) = ValueLonger(WithLine(hs, r), c)
          BY <1>0, <2>1, ContinuationIsSaid
        <5> QED
          BY <4>1, <5>1, <5>2
      <4> QED
        BY <4>2, <4>3
    <3> QED
      BY <1>5, <3>1, <3>2 DEF ValueMove
  <2>3. move.req.headers = WithLine(hs, a) /\ StartOf(move.req) = StartOf(req)
    BY <1>1, <2>1, <2>2
  <2> QED
    BY <1>0, <2>1, <2>3 DEF HeaderFields
<1>6. CASE FixedMove(c, move)
  <2>0. FixedBy(state_, c, move.state) /\ move.req = req
    BY <1>6 DEF FixedMove, FixedBy
  <2>1. CASE state_ = "header_line_start" /\ move.state = "expecting_newline_3"
    BY <1>0, <2>0, <2>1 DEF HeaderFields
  <2>2. CASE state_ = "header_lws" /\ move.state = "expecting_newline_2"
    <3>1. n >= 2 /\ r # <<>> /\ AllIn(r, 1, Len(r), Blanks) /\ req.headers = hs
      BY <2>2 DEF HeaderLineShape, HeaderFields
    <3>2. WithLine(hs, r) = hs
      BY <3>1, BlanksAreNotSaid
    <3>3. req.headers = WithLine(hs, Front(a))
      BY <1>0, <3>1, <3>2
    <3> QED
      BY <1>0, <2>0, <2>2, <3>3 DEF HeaderFields
  <2>3. CASE state_ = "header_name" /\ move.state = "space_before_header_value"
    <3>1. req.headers = Append(hs, [name |-> Front(a), value |-> <<>>])
      BY <1>0, <2>3 DEF HeaderFields
    <3> QED
      BY <1>0, <2>0, <2>3, <3>1 DEF HeaderFields
  <2>4. CASE state_ = "space_before_header_value" /\ c = "SP" /\ move.state = "header_value"
    <3>1. BeganHeader(r) /\ req.headers = Append(hs, [name |-> Front(r), value |-> <<>>])
      BY <2>4 DEF HeaderFields, HeaderLineShape
    <3>2. WithLine(hs, a) = Append(hs, [name |-> Front(r), value |-> <<>>])
      BY <1>0, <2>4, <3>1, ColonIsSaid
    <3>3. req.headers = WithLine(hs, a)
      BY <3>1, <3>2
    <3> QED
      BY <1>0, <2>0, <2>4, <3>3 DEF HeaderFields
  <2>5. CASE state_ = "header_value" /\ move.state = "expecting_newline_2"
    <3>1. req.headers = WithLine(hs, Front(a))
      BY <1>0, <2>5 DEF HeaderFields
    <3> QED
      BY <1>0, <2>0, <2>5, <3>1 DEF HeaderFields
  <2>6. state_ \notin {"method", "uri", "http_version_h", "http_version_t_1", "http_version_t_2",
                       "http_version_p", "http_version_slash", "http_version_major",
                       "http_version_minor", "expecting_newline_1"}
    BY DEF HeaderLineShape
  <2> QED
    BY <2>0, <2>1, <2>2, <2>3, <2>4, <2>5, <2>6, FixedCases, Zenon
<1>7. ~MethodMove(c, move) /\ ~UriMove(c, move) /\ ~MajorMove(c, move) /\ ~MinorMove(c, move)
  BY DEF MethodMove, UriMove, MajorMove, MinorMove, HeaderLineShape
<1> QED
  BY <1>2, <1>3, <1>4, <1>5, <1>6, <1>7, MoveCases, Zenon

\* After a move the request has what the lines read say.
LEMMA MovesKeep ==
    ASSUME Typed, NEW c \in Characters, NEW move \in Moves(c), NEW lines, AreOfCharacters(lines),
           HasRead(state_, req, lines), HasKept(state_, req, lines)
    PROVE  HasKept(move.state, move.req, WithCharacter(lines, c))
<1> DEFINE whole == lines.whole
           r == lines.rest
           n == Len(whole)
           hs == HeadersOf(whole)
           after == WithCharacter(lines, c)
<1>1. /\ whole \in Seq(Seq(Characters)) /\ r \in Seq(Characters) /\ n \in Nat
      /\ Shape(state_, n, r)
      /\ req.headers = <<>> <=> NoHeader(state_, n)
      /\ whole = <<>> <=> n = 0
  BY EmptySeq, LenProperties DEF AreOfCharacters, HasRead
<1>2. /\ n = 0 => RequestFields(state_, req, r)
      /\ n >= 1 => /\ IsPrefix(StartOf(req), whole[1])
                   /\ hs \in Seq(Headers)
                   /\ n >= 2 => hs # <<>>
                   /\ HeaderFields(state_, req.headers, hs, r)
  BY <1>1 DEF HasKept
<1>3. /\ c = "LF" /\ r # <<>> /\ r[Len(r)] = "CR" =>
             after.whole = Append(whole, Front(r)) /\ after.rest = <<>>
      /\ c # "LF" => after.whole = whole /\ after.rest = Append(r, c)
  BY DEF WithCharacter
<1>4. n >= 1 /\ HeaderLineShape(state_, n, r) => n >= 2 \/ req.headers = <<>> \/ r # <<>>
  BY <1>1, FirstHeaderLine
<1> HIDE DEF whole, r, n, after, hs
<1>5. CASE c # "LF" /\ n = 0
  <2>1. RequestLineShape(state_, r)
    BY <1>1, <1>5 DEF Shape
  <2>2. RequestFields(move.state, move.req, Append(r, c))
    BY <1>1, <1>2, <1>5, <2>1, RequestFieldsMove
  <2> QED
    BY <1>1, <1>3, <1>5, <2>2 DEF HasKept, after
<1>6. CASE c # "LF" /\ n >= 1
  <2>1. HeaderLineShape(state_, n, r)
    BY <1>1, <1>6 DEF Shape
  <2>2. HeaderFields(move.state, move.req.headers, hs, Append(r, c)) /\ StartOf(move.req) = StartOf(req)
    BY <1>1, <1>2, <1>6, <2>1, HeaderFieldsMove
  <2>3. /\ after.whole = whole /\ after.rest = Append(r, c) /\ HeadersOf(after.whole) = hs
        /\ Len(after.whole) = n /\ after.whole # <<>>
    BY <1>1, <1>3, <1>6 DEF hs, n
  <2>4. /\ IsPrefix(StartOf(move.req), after.whole[1])
        /\ HeadersOf(after.whole) \in Seq(Headers)
        /\ Len(after.whole) >= 2 => HeadersOf(after.whole) # <<>>
        /\ HeaderFields(move.state, move.req.headers, HeadersOf(after.whole), after.rest)
    BY <1>2, <1>6, <2>2, <2>3
  <2> QED
    BY <2>3, <2>4 DEF HasKept, after
<1>7. CASE c = "LF"
  <2>1. /\ r # <<>> /\ r[Len(r)] = "CR"
        /\ \/ n = 0 /\ state_ = "expecting_newline_1"
           \/ n >= 1 /\ state_ = "expecting_newline_2"
        /\ move.state = "header_line_start"
    <3>1. CASE n = 0 /\ RequestLineShape(state_, r)
      <4>1. state_ = "expecting_newline_1" /\ move.state = "header_line_start"
        BY <1>1, <1>7, <3>1, RequestLineMoves
      <4> QED
        BY <3>1, <4>1 DEF RequestLineShape
    <3>2. CASE n >= 1 /\ HeaderLineShape(state_, n, r)
      <4>1. state_ = "expecting_newline_2" /\ move.state = "header_line_start"
        BY <1>1, <1>4, <1>7, <3>2, HeaderLineMoves
      <4> QED
        BY <3>2, <4>1 DEF HeaderLineShape
    <3> QED
      BY <1>1, <3>1, <3>2 DEF Shape
  <2>2. move.req = req
    <3>1. FixedMove(c, move)
      BY <1>7, <2>1, MoveCases, Classes
      DEF MethodMove, UriMove, MajorMove, MinorMove, BlankMove, HeaderMove, NameMove, ValueMove
    <3> QED
      BY <3>1 DEF FixedMove
  <2>3. after.whole = Append(whole, Front(r)) /\ after.rest = <<>>
    BY <1>3, <1>7, <2>1
  <2>4. Front(r) \in Seq(Characters)
    BY <1>1, <2>1, FrontOfSeq
  <2> DEFINE line == Front(r)
  <2> HIDE DEF line
  <2>5. /\ Len(after.whole) = n + 1 /\ after.whole # <<>>
        /\ after.whole[n + 1] = line /\ \A k \in 1..n : after.whole[k] = whole[k]
    BY <1>1, <2>3, <2>4, AppendProperties DEF line, n
  <2>6. /\ IsPrefix(StartOf(req), after.whole[1])
        /\ HeadersOf(after.whole) \in Seq(Headers)
        /\ n + 1 >= 2 => HeadersOf(after.whole) # <<>>
        /\ req.headers = HeadersOf(after.whole)
    <3>1. CASE n = 0
      <4>1. IsPrefix(StartOf(req), line)
        BY <1>2, <2>1, <3>1 DEF RequestFields, line
      <4>2. after.whole[1] = line /\ HeadersOf(after.whole) = <<>>
        BY <2>5, <3>1, NoHeaderInRequestLine
      <4>3. req.headers = <<>> /\ <<>> \in Seq(Headers) /\ ~(n + 1 >= 2)
        BY <1>1, <3>1 DEF NoHeader
      <4> QED
        BY <4>1, <4>2, <4>3
    <3>2. CASE n >= 1
      <4>1. HeadersOf(after.whole) = WithLine(hs, line)
        BY <1>1, <2>3, <2>4, <3>2, HeadersOfOneMore DEF hs, line
      <4>2. req.headers = WithLine(hs, line)
        BY <1>2, <2>1, <3>2 DEF HeaderFields, line
      <4>3. req.headers # <<>> /\ req.headers \in Seq(Headers)
        BY <1>1, <2>1, <3>2 DEF NoHeader, Typed, TypeOK, Requests, Headers
      <4>4. after.whole[1] = whole[1]
        BY <1>1, <2>5, <3>2
      <4> QED
        BY <1>2, <3>2, <4>1, <4>2, <4>3, <4>4
    <3> QED
      BY <1>1, <3>1, <3>2
  <2>7. HeaderFields(move.state, req.headers, HeadersOf(after.whole), after.rest)
    BY <2>1, <2>6 DEF HeaderFields
  <2> QED
    BY <2>2, <2>5, <2>6, <2>7 DEF HasKept, after
<1> QED
  BY <1>1, <1>5, <1>6, <1>7

\* The inductive invariant: the request is that of the lines read, up to the end of the headers.
KeptSoFar ==
    /\ result = "indeterminate" => HasKept(state_, req, Lines(read))
    /\ RequestIsTheOneSent

LEMMA InitKept == Init => KeptSoFar
<1> SUFFICES ASSUME Init PROVE KeptSoFar
  OBVIOUS
<1>1. Lines(read).whole = <<>> /\ Lines(read).rest = <<>>
  BY NoLines DEF Init
<1>2. HasKept(state_, req, Lines(read))
  BY <1>1 DEF Init, HasKept, RequestFields
<1> QED
  BY <1>2 DEF KeptSoFar, RequestIsTheOneSent, Init

\* The line feed that completes the request adds an empty line to those that it is.
LEMMA CompleteKeeps ==
    ASSUME NEW lines, AreOfCharacters(lines), HasRead("expecting_newline_3", req, lines),
           HasKept("expecting_newline_3", req, lines), NEW after, after = WithCharacter(lines, "LF")
    PROVE  /\ IsPrefix(StartOf(req), after.whole[1])
           /\ req.headers = HeadersOf(Front(after.whole))
<1> DEFINE whole == lines.whole
           n == Len(whole)
<1>1. whole \in Seq(Seq(Characters)) /\ n \in Nat /\ n >= 1 /\ lines.rest = <<"CR">>
  BY DEF AreOfCharacters, HasRead, Shape, RequestLineShape, HeaderLineShape
<1>2. Front(<<"CR">>) = <<>> /\ Len(<<"CR">>) = 1 /\ <<"CR">>[1] = "CR" /\ <<"CR">> # <<>>
  BY DEF Front
<1>3. after.whole = Append(whole, <<>>)
  BY <1>1, <1>2 DEF WithCharacter
<1>4. <<>> \in Seq(Characters) /\ whole # <<>>
  BY <1>1
<1> HIDE DEF whole, n
<1>5. Len(after.whole) = n + 1 /\ \A k \in 1..n : after.whole[k] = whole[k]
  <2>1. PICK line \in Seq(Characters) : line = <<>>
    BY <1>4
  <2>2. after.whole = Append(whole, line)
    BY <1>3, <2>1
  <2>3. /\ Len(Append(whole, line)) = n + 1
        /\ \A k \in 1..n : Append(whole, line)[k] = whole[k]
    BY <1>1, AppendProperties DEF n
  <2> QED
    BY <2>2, <2>3
<1>6. Front(after.whole) = whole
  <2> DEFINE w == after.whole
             u == SubSeq(w, 1, n)
  <2>1. \A k \in 1..n : w[k] \in Seq(Characters) /\ w[k] = whole[k]
    BY <1>1, <1>5, ElementOfSeq DEF n
  <2>2. u = Front(w)
    BY <1>1, <1>5 DEF Front
  <2> HIDE DEF w, u
  <2>3. u \in Seq(Seq(Characters)) /\ Len(u) = n /\ \A k \in 1..n : u[k] = w[k]
    <3>1. 1 \in Int /\ n \in Int /\ (1 =< n) /\ (n - 1) + 1 = n /\ \A k \in 1..n : (1 + k) - 1 = k
      BY <1>1
    <3>2. /\ u \in Seq(Seq(Characters)) /\ Len(u) = IF 1 =< n THEN (n - 1) + 1 ELSE 0
          /\ \A k \in 1..(n - 1) + 1 : u[k] = w[(1 + k) - 1]
      BY <2>1, <3>1, SubSeqProperties DEF u
    <3> QED
      BY <3>1, <3>2
  <2>4. Len(u) = Len(whole) /\ \A k \in 1..Len(u) : u[k] = whole[k]
    BY <2>1, <2>3 DEF n
  <2> QED
    BY <1>1, <2>2, <2>3, <2>4, SeqEqual DEF w
<1>7. IsPrefix(StartOf(req), whole[1]) /\ req.headers = HeadersOf(whole)
  BY <1>4 DEF HasKept, HeaderFields, whole
<1>8. after.whole[1] = whole[1]
  BY <1>1, <1>5
<1> QED
  BY <1>6, <1>7, <1>8

LEMMA NextKept == Typed /\ Parsed /\ KeptSoFar /\ [Next]_vars => KeptSoFar'
<1> SUFFICES ASSUME Typed, Parsed, KeptSoFar, [Next]_vars PROVE KeptSoFar'
  OBVIOUS
<1>1. ASSUME NEW c \in Characters, Consume(c) PROVE KeptSoFar'
  <2> DEFINE lines == Lines(read)
             after == WithCharacter(lines, c)
  <2>1. read \in Seq(Characters) /\ Numbered(read)
    BY DEF Typed, TypeOK, Parsed
  <2>2. Lines(read') = after /\ AreOfCharacters(lines)
    BY <1>1, <2>1, LinesAfter DEF Consume, AreOfCharacters
  <2>3. HasRead(state_, req, lines) /\ HasKept(state_, req, lines)
    BY <1>1 DEF Parsed, KeptSoFar, Consume
  <2> HIDE DEF lines, after
  <2>4. CASE Advance(c)
    <3>1. PICK move \in Moves(c) : state_' = move.state /\ req' = move.req /\ result' = "indeterminate"
      BY <2>4 DEF Advance
    <3>2. HasKept(move.state, move.req, after)
      BY <2>2, <2>3, MovesKeep DEF after
    <3> QED
      BY <2>2, <3>1, <3>2 DEF KeptSoFar, RequestIsTheOneSent
  <2>5. CASE Complete(c)
    <3>1. state_ = "expecting_newline_3" /\ c = "LF" /\ result' = "good" /\ req' = req
      BY <2>5 DEF Complete
    <3>2. /\ IsPrefix(StartOf(req), after.whole[1])
          /\ req.headers = HeadersOf(Front(after.whole))
      BY <2>2, <2>3, <3>1, CompleteKeeps DEF after
    <3> QED
      BY <2>2, <3>1, <3>2 DEF KeptSoFar, RequestIsTheOneSent, StartOf
  <2>6. CASE Refuse(c)
    BY <2>6 DEF Refuse, KeptSoFar, RequestIsTheOneSent
  <2> QED
    BY <1>1, <2>4, <2>5, <2>6 DEF Consume
<1>2. CASE Handle
  BY <1>2 DEF Handle, KeptSoFar, RequestIsTheOneSent
<1>3. CASE UNCHANGED vars
  BY <1>3 DEF vars, KeptSoFar, RequestIsTheOneSent
<1> QED
  BY <1>1, <1>2, <1>3 DEF Next

\* The request the handler is given has the method, the URI and the headers of the lines that
\* were sent, each header with all the lines it was continued on.
THEOREM RequestIsKept == Spec => []RequestIsTheOneSent
<1>1. KeptSoFar => RequestIsTheOneSent
  BY DEF KeptSoFar
<1> QED
  BY <1>1, InitTyped, NextTyped, InitParsed, NextParsed, InitKept, NextKept, PTL DEF Spec
=============================================================================
