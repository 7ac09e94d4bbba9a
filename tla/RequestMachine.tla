--------------------------- MODULE RequestMachine ---------------------------
(***************************************************************************)
(* The state machine of http_parser_execute (http11_parser.cc): 349 states *)
(* compiled from the grammar of http11_parser.rl, kept under the numbers   *)
(* the code gives them.  A row  s :> {<<on, to, do>>, ...}  is the block   *)
(* "case s:": on a byte of the class `on' the machine runs the actions     *)
(* `do' of the block tr.. it jumps to and goes to state `to'; a byte that  *)
(* no edge names goes to st0, the error state.                             *)
(*                                                                         *)
(* Bytes are abstracted to the 46 classes the code tells apart.  A class   *)
(* of one byte has the name of the byte; the others are "hi" (0x80 and     *)
(* up), "ctl" (the control bytes not named below, ` and |), "VT" (0x0b and *)
(* 0x0c), "!" (the delimiters !$&'*_~), ";" (the delimiters (),;=), "quo"  *)
(* (the quote and the backslash), "3" (346789), "A" (A-F), "G" (the other  *)
(* capitals without H, P, T), "a" (a-f) and "g" (the other small letters   *)
(* without v).                                                             *)
(***************************************************************************)
EXTENDS Integers, Sequences, TLC

OtherDigit == {"0", "3", "5"}
Digit      == OtherDigit \cup {"1", "2"}
HexLetter  == {"A", "a"}
Xdigit     == Digit \cup HexLetter
Upper      == {"A", "G", "H", "P", "T"}
Alpha      == Upper \cup {"a", "g", "v"}
Control    == {"ctl", "x02", "x03", "x04", "x05", "x06", "VT", "CR"}
\* sub_delims without more_delims, which only uri_relaxed lets in: the code
\* reads ^, { and } as the wider characters below in the states of a URI.
Sub        == {"!", ";", "+"}
Wide       == {"^wide", "{wide", "}wide"}
Byte       == Alpha \cup Digit \cup Control \cup Sub
                \cup {"hi", "NUL", "TAB", "LF", "SP", "quo", "#", "%", "-",
                      ".", "/", ":", "<", ">", "?", "@", "[", "]", "^", "{",
                      "}", "DEL"}

Uchar  == Alpha \cup Digit \cup {"-", "."} \cup Sub \cup Wide
Pchar  == Uchar \cup {":", "@", "hi"}
Scheme == Alpha \cup Digit \cup {"+", "-", "."}
\* HTTP_CTL is written (0 - 31) | 127, which Ragel reads as {0, 127}: every
\* other control byte is a token character.
Token  == Alpha \cup Digit \cup Control
            \cup {"LF", "!", "#", "%", "+", "-", ".", "^"}
Text   == Byte \ {"NUL", "DEL"}
Space  == {"SP", "TAB", "LF", "VT", "CR"}

\* What the blocks tr.. do, in order.
None     == << >>
Mark     == <<"mark">>
Path     == <<"request_path">>
PathUri  == <<"request_path", "request_uri">>
QueryUri == <<"query_string", "request_uri">>
Field    == <<"http_field">>
Done     == <<"done">>

-----------------------------------------------------------------------------
(* Families of states that the grammar repeats.                            *)

\* "%" xdigit xdigit: two states, then back to the state t.
Percent(s, t) ==
  s :> {<<Xdigit, s + 1, None>>} @@ s + 1 :> {<<Xdigit, t, None>>}

\* The n states s, s+1, ... of the rest of an h16: one more hexadecimal
\* digit, except in the last, or one of the exits.
Hex(s, n, exits) ==
  [i \in s .. s + n - 1 |->
     exits \cup (IF i = s + n - 1 THEN {} ELSE {<<Xdigit, i + 1, None>>})]

\* The first digit of a dec_octet: 1, 2 or another.
FirstDigit(one, two, other) ==
  {<<{"1"}, one, None>>, <<{"2"}, two, None>>, <<OtherDigit, other, None>>}

\* The end of a dec_octet (state `last') and, from the state `one' on, what
\* follows a 1 (two states) and what follows a 2 (three).
OctetEnd(last, exit) == last :> {exit}
OctetRest(one, last, exit) ==
     one     :> {exit, <<Digit, one + 1, None>>}
  @@ one + 1 :> {exit, <<Digit, last, None>>}
  @@ one + 2 :> {exit, <<{"0"}, one + 3, None>>, <<{"5"}, one + 4, None>>}
  @@ one + 3 :> {<<Digit, last, None>>}
  @@ one + 4 :> {<<{"0"}, last, None>>}

\* Where h16 and dec_octet begin alike: `hex' is the state after two digits
\* of an h16, `dot' the edge that ends a dec_octet.
Either(s, hex, dot, exits) == s :> exits \cup {dot, <<Xdigit, hex, None>>}
EitherOne(s, hex, dot, exits) ==
     s     :> exits \cup {dot, <<Digit, s + 1, None>>, <<HexLetter, hex, None>>}
  @@ s + 1 :> exits \cup {dot, <<Digit, s + 2, None>>,
                          <<HexLetter, hex + 1, None>>}
  @@ s + 2 :> exits \cup {dot, <<Xdigit, hex + 2, None>>}
EitherTwo(s, hex, dot, exits) ==
     s     :> exits \cup {dot, <<{"0"}, s + 1, None>>, <<{"5"}, s + 2, None>>,
                          <<Xdigit \ {"0", "5"}, hex, None>>}
  @@ s + 1 :> exits \cup {<<Digit, s - 1, None>>, <<HexLetter, hex + 1, None>>}
  @@ s + 2 :> exits \cup {<<{"0"}, s - 1, None>>,
                          <<Xdigit \ {"0"}, hex + 1, None>>}
  @@ s + 3 :> exits \cup {<<Xdigit, hex, None>>}

\* What ends a request target: a space before the version, "#" before the
\* fragment, "?" before the query.  JSON targets end with the space only.
UriEnd(do) == {<<{"SP"}, 4, do>>, <<{"#"}, 20, do>>}
PathEnd  == UriEnd(PathUri) \cup {<<{"?"}, 29, Path>>}
EmptyEnd == UriEnd(Mark \o PathUri) \cup {<<{"?"}, 29, Mark \o Path>>}
JsonEnd  == {<<{"SP"}, 199, Path>>}

-----------------------------------------------------------------------------
(* The request line and the headers, in the order of the code.             *)

StartRows ==
     1 :> {<<Upper \cup Digit, 2, Mark>>, <<{"<"}, 194, Mark>>,
           <<{"@"}, 198, Mark>>}
  @@ 2 :> {<<Upper \cup Digit, 175, None>>, <<{"SP"}, 3, <<"request_method">>>>}

TargetRows ==
  3 :> EmptyEnd
         \cup {<<Alpha, 173, Mark>>, <<{"/"}, 33, Mark>>, <<{"%"}, 24, Mark>>,
               <<(Uchar \ Alpha) \cup {"@"}, 19, Mark>>}

\* Mutation: a line that ends in CR LF leaves the version untold.
VersionRowsCrSilent ==
     4 :> {<<{"H"}, 5, Mark>>}   @@ 5  :> {<<{"T"}, 6, None>>}
  @@ 6 :> {<<{"T"}, 7, None>>}   @@ 7  :> {<<{"P"}, 8, None>>}
  @@ 8 :> {<<{"/"}, 9, None>>}   @@ 9  :> {<<{"1"}, 10, None>>}
  @@ 10 :> {<<{"."}, 11, None>>} @@ 11 :> {<<{"0", "1"}, 12, None>>}
  @@ 12 :> {<<{"LF"}, 13, <<"http_version">>>>, <<{"CR"}, 17, None>>}

VersionRows ==
     4 :> {<<{"H"}, 5, Mark>>}   @@ 5  :> {<<{"T"}, 6, None>>}
  @@ 6 :> {<<{"T"}, 7, None>>}   @@ 7  :> {<<{"P"}, 8, None>>}
  @@ 8 :> {<<{"/"}, 9, None>>}   @@ 9  :> {<<{"1"}, 10, None>>}
  @@ 10 :> {<<{"."}, 11, None>>} @@ 11 :> {<<{"0", "1"}, 12, None>>}
  @@ 12 :> {<<{"LF"}, 13, <<"http_version">>>>,
            <<{"CR"}, 17, <<"http_version">>>>}

HeaderNameRows ==
     13 :> {<<{"LF"}, 348, <<"start_field">> \o Done>>,
            <<{"CR"}, 18, <<"start_field">>>>,
            <<Token \ {"LF", "CR"}, 14, <<"start_field">>>>}
  @@ 14 :> {<<Token, 14, None>>, <<{":"}, 15, <<"write_field">>>>}

HeaderValueRows ==
     15 :> {<<{"LF"}, 13, Mark \o Field>>, <<{"CR"}, 17, Mark \o Field>>,
            <<{"SP", "TAB"}, 15, Mark>>,
            <<Text \ {"LF", "CR", "SP", "TAB"}, 16, Mark>>}
  @@ 16 :> {<<{"LF"}, 13, Field>>, <<{"CR"}, 17, Field>>,
            <<Text \ {"LF", "CR"}, 16, None>>}
  @@ 17 :> {<<{"LF"}, 13, None>>}

\* The end of the head.  LF and CR are token characters too, so the final
\* state has edges of its own: it goes on reading a header name.
HeadEndRows ==
     348 :> {<<Token, 14, None>>, <<{":"}, 15, <<"write_field">>>>}
  @@ 18  :> {<<{"LF"}, 348, Done>>, <<Token \ {"LF"}, 14, None>>,
             <<{":"}, 15, <<"write_field">>>>}

-----------------------------------------------------------------------------
(* The request target.                                                     *)

RelativePathRows ==
  19 :> PathEnd \cup {<<Uchar \cup {"@"}, 19, None>>, <<{"%"}, 24, None>>,
                      <<{"/"}, 26, None>>}

FragmentRows ==
     20 :> {<<{"SP"}, 4, Mark \o <<"fragment">>>>, <<{"%"}, 22, Mark>>,
            <<Pchar \cup {"/", "?"}, 21, Mark>>}
  @@ 21 :> {<<{"SP"}, 4, <<"fragment">>>>, <<{"%"}, 22, None>>,
            <<Pchar \cup {"/", "?"}, 21, None>>}
  @@ Percent(22, 21)

SegmentRows ==
     Percent(24, 19)
  @@ 26 :> PathEnd \cup {<<Pchar \cup {"/"}, 26, None>>, <<{"%"}, 27, None>>}
  @@ Percent(27, 26)

QueryRows ==
     29 :> UriEnd(<<"start_query">> \o QueryUri)
             \cup {<<{"%"}, 31, <<"start_query">>>>,
                   <<Pchar \cup {"/", "?"}, 30, <<"start_query">>>>}
  @@ 30 :> UriEnd(QueryUri) \cup {<<{"%"}, 31, None>>,
                                  <<Pchar \cup {"/", "?"}, 30, None>>}
  @@ Percent(31, 30)

\* A path that begins with "/"; with "//" an authority follows.
AbsolutePathRows ==
     33 :> PathEnd \cup {<<Pchar, 26, None>>, <<{"%"}, 27, None>>,
                         <<{"/"}, 34, None>>}
  @@ 34 :> PathEnd \cup {<<Uchar, 35, None>>, <<{"%"}, 36, None>>,
                         <<{"/"}, 26, None>>, <<{":"}, 38, None>>,
                         <<{"@"}, 42, None>>, <<{"["}, 47, None>>}

AuthorityRows ==
     35 :> PathEnd \cup {<<Uchar, 35, None>>, <<{"%"}, 36, None>>,
                         <<{"/"}, 26, None>>, <<{":"}, 38, None>>,
                         <<{"@"}, 42, None>>}
  @@ Percent(36, 35)
  @@ 38 :> PathEnd \cup {<<Digit, 38, None>>, <<{"%"}, 40, None>>,
                         <<(Uchar \ Digit) \cup {":"}, 39, None>>,
                         <<{"/"}, 26, None>>, <<{"@"}, 42, None>>}

UserinfoRows ==
     39 :> {<<Uchar \cup {":"}, 39, None>>, <<{"%"}, 40, None>>,
            <<{"@"}, 42, None>>}
  @@ Percent(40, 39)
  @@ 42 :> PathEnd \cup {<<Uchar, 43, None>>, <<{"%"}, 44, None>>,
                         <<{"/"}, 26, None>>, <<{":"}, 46, None>>,
                         <<{"["}, 47, None>>}

HostRows ==
     43 :> PathEnd \cup {<<Uchar, 43, None>>, <<{"%"}, 44, None>>,
                         <<{"/"}, 26, None>>, <<{":"}, 46, None>>}
  @@ Percent(44, 43)
  @@ 46 :> PathEnd \cup {<<Digit, 46, None>>, <<{"/"}, 26, None>>}

-----------------------------------------------------------------------------
(* An IP literal, once in the target of a request and once, 175 states     *)
(* further on, in that of a JSON message: o is 0 or 175.  The grammar      *)
(* writes 6( h16 ":" ) for six repetitions, which Ragel reads as the byte  *)
(* 0x06 and one h16 ":"; hence the control bytes on the edges to 48.       *)

Repeat(o, on) == {<<on, 48 + o, None>>}
Close(o)      == {<<{"]"}, 61 + o, None>>}
Colon(s)      == {<<{":"}, s, None>>}
Dot(s)        == <<{"."}, s, None>>
\* The first digit of an h16 or of an IPv4 address.
Start(one, two, other, letter) ==
  FirstDigit(one, two, other) \cup {<<HexLetter, letter, None>>}

IpLiteralRows(o) ==
     47 + o :> Repeat(o, {"x06"}) \cup Colon(167 + o)
                 \cup {<<Xdigit, 91 + o, None>>, <<{"v"}, 169 + o, None>>}
  @@ 48 + o :> {<<Xdigit, 49 + o, None>>}
  @@ Hex(49 + o, 4, Colon(53 + o))
  @@ 53 + o :> Start(84 + o, 87 + o, 54 + o, 90 + o)
  @@ Either(54 + o, 77 + o, Dot(55 + o), Colon(80 + o))

Ipv4Rows(o, end) ==
     55 + o :> FirstDigit(72 + o, 74 + o, 56 + o)
  @@ OctetEnd(56 + o, Dot(57 + o))
  @@ 57 + o :> FirstDigit(67 + o, 69 + o, 58 + o)
  @@ OctetEnd(58 + o, Dot(59 + o))
  @@ 59 + o :> FirstDigit(62 + o, 64 + o, 60 + o)
  @@ OctetEnd(60 + o, <<{"]"}, 61 + o, None>>)
  @@ 61 + o :> end
  @@ OctetRest(62 + o, 60 + o, <<{"]"}, 61 + o, None>>)

Ipv4OctetRows(o) ==
     OctetRest(67 + o, 58 + o, Dot(59 + o))
  @@ OctetRest(72 + o, 56 + o, Dot(57 + o))

Ls32Rows(o) ==
     Hex(77 + o, 3, Colon(80 + o))
  @@ 80 + o :> {<<Xdigit, 81 + o, None>>}
  @@ [i \in 81 + o .. 82 + o |-> Close(o) \cup {<<Xdigit, i + 1, None>>}]
  @@ 83 + o :> Close(o) \cup {<<Xdigit, 60 + o, None>>}

Ls32StartRows(o) ==
     EitherOne(84 + o, 77 + o, Dot(55 + o), Colon(80 + o))
  @@ EitherTwo(87 + o, 77 + o, Dot(55 + o), Colon(80 + o))

\* h16 ":" and, after it, another colon or the next group, of state t.
Group(s, colon, t) ==
  Hex(s, 4, Colon(s + 4)) @@ s + 4 :> Colon(colon) \cup {<<Xdigit, t, None>>}

FirstGroupRows(o)  == Group(91 + o, 166 + o, 96 + o)
                        @@ Hex(96 + o, 4, Colon(100 + o))
SecondGroupRows(o) == 100 + o :> Colon(165 + o) \cup {<<Xdigit, 101 + o, None>>}
                        @@ Group(101 + o, 164 + o, 106 + o)
                        @@ Hex(106 + o, 4, Colon(110 + o))
FourthGroupRows(o) == 110 + o :> Colon(163 + o) \cup {<<Xdigit, 111 + o, None>>}
                        @@ Group(111 + o, 151 + o, 116 + o)
                        @@ Hex(116 + o, 4, Colon(120 + o))
\* From the seventh group on the groups repeat; "::" leads to 126.
LaterGroupRows(o)  == 120 + o :> Colon(150 + o) \cup {<<Xdigit, 121 + o, None>>}
                        @@ Group(121 + o, 126 + o, 121 + o)
                        @@ 126 + o :> Start(143 + o, 146 + o, 127 + o, 149 + o)
                             \cup Close(o) \cup Repeat(o, {"x02", "x03"})

LastGroupRows(o) ==
  LET after == Colon(131 + o) \cup Close(o)
      last  == Colon(80 + o) \cup Close(o)
  IN Either(127 + o, 128 + o, Dot(55 + o), after) @@ Hex(128 + o, 3, after)
     @@ 131 + o :> Start(136 + o, 139 + o, 132 + o, 142 + o)
     @@ Either(132 + o, 133 + o, Dot(55 + o), last) @@ Hex(133 + o, 3, last)

LastGroupStartRows(o) ==
  LET last == Colon(80 + o) \cup Close(o)
  IN EitherOne(136 + o, 133 + o, Dot(55 + o), last)
     @@ EitherTwo(139 + o, 133 + o, Dot(55 + o), last)

NextGroupStartRows(o) ==
  LET after == Colon(131 + o) \cup Close(o)
  IN EitherOne(143 + o, 128 + o, Dot(55 + o), after)
     @@ EitherTwo(146 + o, 128 + o, Dot(55 + o), after)

DoubleColonRows(o) ==
     150 + o :> Start(143 + o, 146 + o, 127 + o, 149 + o)
                  \cup Repeat(o, {"x02", "x03"})
  @@ 151 + o :> Start(156 + o, 159 + o, 152 + o, 162 + o)
                  \cup Repeat(o, {"x02", "x03"})
  @@ Either(152 + o, 153 + o, Dot(55 + o), Colon(131 + o))
  @@ Hex(153 + o, 3, Colon(131 + o))
  @@ EitherOne(156 + o, 153 + o, Dot(55 + o), Colon(131 + o))

DoubleColonEndRows(o) ==
     EitherTwo(159 + o, 153 + o, Dot(55 + o), Colon(131 + o))
  @@ 163 + o :> Repeat(o, {"x02", "x03"}) \cup {<<Xdigit, 49 + o, None>>}
  @@ 164 + o :> Repeat(o, {"x02", "x03"})
  @@ 165 + o :> Repeat(o, {"x03"})
  @@ 166 + o :> Repeat(o, {"x04"})
  @@ 167 + o :> Colon(168 + o)
  @@ 168 + o :> Start(143 + o, 146 + o, 127 + o, 149 + o) \cup Close(o)
                  \cup Repeat(o, {"x02", "x03", "x04", "x05"})

IpFutureRows(o) ==
     169 + o :> {<<Xdigit, 170 + o, None>>}
  @@ 170 + o :> {<<Xdigit, 170 + o, None>>, <<{"."}, 171 + o, None>>}
  @@ 171 + o :> {<<Uchar \cup {":"}, 172 + o, None>>}
  @@ 172 + o :> {<<Uchar \cup {":"}, 172 + o, None>>} \cup Close(o)

-----------------------------------------------------------------------------
(* A target that begins like a scheme, and the rest of a long method.      *)

SchemeRows ==
     173 :> PathEnd \cup {<<Scheme, 173, None>>, <<{"%"}, 24, None>>,
                          <<{"/"}, 26, None>>, <<{":"}, 174, None>>,
                          <<(Uchar \ Scheme) \cup {"@"}, 19, None>>}
  @@ 174 :> EmptyEnd \cup {<<Pchar, 26, Mark>>, <<{"%"}, 27, Mark>>,
                           <<{"/"}, 33, Mark>>}

LongMethodRows ==
  [s \in 175 .. 193 |->
     {<<{"SP"}, 3, <<"request_method">>>>}
       \cup (IF s = 193 THEN {}
                        ELSE {<<Upper \cup Digit, s + 1, None>>})]

-----------------------------------------------------------------------------
(* XML and JSON messages, which end with a NUL byte.                       *)

XmlRows ==
  LET name == Alpha \cup Digit \cup {"-", "."}
  IN 194 :> {<<name, 195, None>>}
     @@ 195 :> {<<name, 195, None>>, <<Space \cup {"/", ">"}, 196, Path>>}
     @@ 196 :> {<<{">"}, 197, None>>, <<Byte \ {">"}, 196, None>>}
     @@ 197 :> {<<{"NUL"}, 349, <<"xml">> \o Done>>, <<{">"}, 197, None>>,
                <<Byte \ {"NUL", ">"}, 196, None>>}
     @@ 349 :> {}

JsonRows ==
     198 :> JsonEnd \cup {<<Uchar \cup {"@"}, 202, None>>,
                          <<{"%"}, 203, None>>, <<{"/"}, 208, None>>}
  @@ 199 :> {<<{"{"}, 200, Mark>>}
  @@ 200 :> {<<{"}"}, 201, None>>, <<Byte \ {"}"}, 200, None>>}
  @@ 201 :> {<<{"NUL"}, 349, <<"json">> \o Done>>, <<{"}"}, 201, None>>,
             <<Byte \ {"NUL", "}"}, 200, None>>}

JsonPathRows ==
     202 :> JsonEnd \cup {<<Uchar \cup {"@"}, 202, None>>,
                          <<{"%"}, 203, None>>, <<{"/"}, 205, None>>}
  @@ Percent(203, 202)
  @@ 205 :> JsonEnd \cup {<<Pchar \cup {"/"}, 205, None>>, <<{"%"}, 206, None>>}
  @@ Percent(206, 205)

JsonAuthorityRows ==
     208 :> JsonEnd \cup {<<Pchar, 205, None>>, <<{"%"}, 206, None>>,
                          <<{"/"}, 209, None>>}
  @@ 209 :> JsonEnd \cup {<<Uchar, 210, None>>, <<{"%"}, 211, None>>,
                          <<{"/"}, 205, None>>, <<{":"}, 213, None>>,
                          <<{"@"}, 217, None>>, <<{"["}, 222, None>>}
  @@ 210 :> JsonEnd \cup {<<Uchar, 210, None>>, <<{"%"}, 211, None>>,
                          <<{"/"}, 205, None>>, <<{":"}, 213, None>>,
                          <<{"@"}, 217, None>>}

JsonUserinfoRows ==
     Percent(211, 210)
  @@ 213 :> JsonEnd \cup {<<Digit, 213, None>>, <<{"%"}, 215, None>>,
                          <<(Uchar \ Digit) \cup {":"}, 214, None>>,
                          <<{"/"}, 205, None>>, <<{"@"}, 217, None>>}
  @@ 214 :> {<<Uchar \cup {":"}, 214, None>>, <<{"%"}, 215, None>>,
             <<{"@"}, 217, None>>}

JsonHostRows ==
     Percent(215, 214)
  @@ 217 :> JsonEnd \cup {<<Uchar, 218, None>>, <<{"%"}, 219, None>>,
                          <<{"/"}, 205, None>>, <<{":"}, 221, None>>,
                          <<{"["}, 222, None>>}
  @@ 218 :> JsonEnd \cup {<<Uchar, 218, None>>, <<{"%"}, 219, None>>,
                          <<{"/"}, 205, None>>, <<{":"}, 221, None>>}

JsonPortRows ==
     Percent(219, 218)
  @@ 221 :> JsonEnd \cup {<<Digit, 221, None>>, <<{"/"}, 205, None>>}

JsonIpLiteralRows      == IpLiteralRows(175)
JsonIpv4Rows           ==
  Ipv4Rows(175, JsonEnd \cup {<<{"/"}, 205, None>>, <<{":"}, 221, None>>})
JsonIpv4OctetRows      == Ipv4OctetRows(175)
JsonLs32Rows           == Ls32Rows(175)
JsonLs32StartRows      == Ls32StartRows(175)
JsonFirstGroupRows     == FirstGroupRows(175)
JsonSecondGroupRows    == SecondGroupRows(175)
JsonFourthGroupRows    == FourthGroupRows(175)
JsonLaterGroupRows     == LaterGroupRows(175)
JsonLastGroupRows      == LastGroupRows(175)
JsonLastGroupStartRows == LastGroupStartRows(175)
JsonNextGroupStartRows == NextGroupStartRows(175)
JsonDoubleColonRows    == DoubleColonRows(175)
JsonDoubleColonEndRows == DoubleColonEndRows(175)
JsonIpFutureRows       == IpFutureRows(175)

-----------------------------------------------------------------------------
UriIpv4Rows ==
  Ipv4Rows(0, PathEnd \cup {<<{"/"}, 26, None>>, <<{":"}, 46, None>>})

\* The whole machine, by state.
Rows ==
  StartRows @@ TargetRows @@ VersionRows @@ HeaderNameRows
  @@ HeaderValueRows @@ HeadEndRows @@ RelativePathRows @@ FragmentRows
  @@ SegmentRows @@ QueryRows @@ AbsolutePathRows @@ AuthorityRows
  @@ UserinfoRows @@ HostRows
  @@ IpLiteralRows(0) @@ UriIpv4Rows @@ Ipv4OctetRows(0) @@ Ls32Rows(0)
  @@ Ls32StartRows(0) @@ FirstGroupRows(0) @@ SecondGroupRows(0)
  @@ FourthGroupRows(0) @@ LaterGroupRows(0) @@ LastGroupRows(0)
  @@ LastGroupStartRows(0) @@ NextGroupStartRows(0) @@ DoubleColonRows(0)
  @@ DoubleColonEndRows(0) @@ IpFutureRows(0)
  @@ SchemeRows @@ LongMethodRows
  @@ XmlRows @@ JsonRows @@ JsonPathRows @@ JsonAuthorityRows
  @@ JsonUserinfoRows @@ JsonHostRows @@ JsonPortRows @@ JsonIpLiteralRows
  @@ JsonIpv4Rows @@ JsonIpv4OctetRows @@ JsonLs32Rows @@ JsonLs32StartRows
  @@ JsonFirstGroupRows @@ JsonSecondGroupRows @@ JsonFourthGroupRows
  @@ JsonLaterGroupRows @@ JsonLastGroupRows @@ JsonLastGroupStartRows
  @@ JsonNextGroupStartRows @@ JsonDoubleColonRows @@ JsonDoubleColonEndRows
  @@ JsonIpFutureRows

State      == 1 .. 349
ErrorState == 0
StartState == 1
FirstFinal == 348
=============================================================================
