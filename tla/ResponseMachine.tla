--------------------------- MODULE ResponseMachine --------------------------
(***************************************************************************)
(* The state machine of httpclient_parser_execute (httpclient_parser.cc):  *)
(* 123 states compiled from httpclient_parser.rl, kept under the numbers   *)
(* of the code.  It reads the head of a response, or the size line of a    *)
(* chunk.  Rows are written as in RequestMachine.                          *)
(*                                                                         *)
(* Bytes are abstracted to the 33 classes the code tells apart: a letter   *)
(* stands for its capital too, save h, t and p ("H", "T" and "P" occur in  *)
(* "HTTP"); "HT" is a tab of either kind or a form feed, "0" a digit, "!"  *)
(* any other token character and "other" any other byte.                   *)
(***************************************************************************)
EXTENDS Integers, Sequences, TLC

Blank  == {"SP", "HT"}
Space  == Blank \cup {"CR", "LF"}
Letter == {"a", "b", "c", "d", "e", "f", "g", "H", "h", "i", "k", "l", "n",
           "o", "P", "r", "s", "T", "t", "u"}
Xdigit == {"0", "a", "b", "c", "d", "e", "f"}
Token  == Letter \cup {"0", "!", "-", "."}
Byte   == Token \cup Space \cup {"/", ":", ";", "=", "other"}

\* Both cases of a letter of the names that the grammar writes with /i.
Either(l) == CASE l = "h" -> {"H", "h"} [] l = "t" -> {"T", "t"}
               [] OTHER -> {l}

None  == << >>
Mark  == <<"mark">>
Size  == <<"chunk_size">>
Name  == <<"write_field">>
Field == <<"http_field">>
Done  == <<"done">>
Start == <<"start_field">>
Close == <<"write_connection_close">>

-----------------------------------------------------------------------------
(* Families of states.                                                     *)

\* Inside a header name that may still become one the parser looks for: the
\* next letter l leads to t, any other token character to state 21.
InName(l, t) ==
  {<<Either(l), t, None>>, <<{":"}, 22, Name>>, <<Token \ Either(l), 21, None>>}
NameWord(s, word) ==
  [i \in s .. s + Len(word) - 1 |-> InName(word[i - s + 1], i + 1)]

\* The same inside a header value: any other byte leads to state 23.
LineEnd == {<<{"LF"}, 20, Field>>, <<{"CR"}, 24, Field>>}
ValueWord(s, word) ==
  [i \in s .. s + Len(word) - 1 |->
     LineEnd \cup {<<Either(word[i - s + 1]), i + 1, None>>,
                   <<Byte \ (Either(word[i - s + 1]) \cup {"LF", "CR"}),
                     23, None>>}]

\* A word that must follow letter by letter.
Word(s, word) ==
  [i \in s .. s + Len(word) - 1 |-> {<<Either(word[i - s + 1]), i + 1, None>>}]

\* The beginning of a header line; c and t begin the names looked for.
HeaderStart(do, c) ==
  {<<Either("t"), 44, do \o Start>>, <<{"c"}, c, do \o Start>>,
   <<Token \ {"c", "T", "t"}, 21, do \o Start>>}

\* After the colon of a name looked for: blanks, an end of line (the grammar
\* lets the value follow on a later line) or another value.
AfterColon(s, lf, cr) ==
  {<<{"LF"}, lf, Mark \o Field>>, <<{"CR"}, cr, Mark \o Field>>,
   <<Blank, s, Mark>>}

\* What ends a Content-Length.
LengthEnd == {<<{"LF"}, 20, <<"write_content_len">> \o Field>>,
              <<{"CR"}, 24, <<"write_content_len">> \o Field>>}

-----------------------------------------------------------------------------
(* The size line of a chunk.                                               *)

ChunkSizeRows ==
     1   :> {<<Xdigit, 2, Mark>>, <<{"H"}, 8, Mark>>}
  @@ 2   :> {<<Xdigit, 2, None>>, <<{"LF"}, 120, Size \o Done>>,
             <<{"CR"}, 3, Size>>, <<{";"}, 4, Size>>}
  @@ 120 :> {}

ChunkExtensionRows ==
     3 :> {<<{"LF"}, 120, Done>>}
  @@ 4 :> {<<Token, 5, Start>>}
  @@ 5 :> {<<Token, 5, None>>, <<{"LF"}, 120, Name \o Mark \o Field \o Done>>,
           <<{"CR"}, 3, Name \o Mark \o Field>>,
           <<{";"}, 4, Name \o Mark \o Field>>, <<{"="}, 6, Name \o Mark>>}

ChunkExtensionValueRows ==
     6 :> {<<Token, 7, Mark>>}
  @@ 7 :> {<<Token, 7, None>>, <<{"LF"}, 120, Field \o Done>>,
           <<{"CR"}, 3, Field>>, <<{";"}, 4, Field>>}

-----------------------------------------------------------------------------
(* The status line and an ordinary header line.                            *)

VersionRows ==
     8  :> {<<{"T"}, 9, None>>}  @@ 9  :> {<<{"T"}, 10, None>>}
  @@ 10 :> {<<{"P"}, 11, None>>} @@ 11 :> {<<{"/"}, 12, None>>}
  @@ 12 :> {<<{"0"}, 13, None>>}
  @@ 13 :> {<<{"0"}, 13, None>>, <<{"."}, 14, None>>}
  @@ 14 :> {<<{"0"}, 15, None>>}
  @@ 15 :> {<<{"0"}, 15, None>>, <<{"SP"}, 16, <<"http_version">>>>}

\* Mutation: the reason phrase is not told when the line ends in LF.
StatusRowsLfSilent ==
     16 :> {<<{"0"}, 17, Mark>>}
  @@ 17 :> {<<{"0"}, 17, None>>, <<{"SP"}, 18, <<"status_code">>>>}
  @@ 18 :> {<<Byte \ {"LF"}, 19, Mark>>}
  @@ 19 :> {<<{"LF"}, 20, None>>, <<{"CR"}, 24, <<"reason_phrase">>>>,
            <<Byte \ {"LF", "CR"}, 19, None>>}

StatusRows ==
     16 :> {<<{"0"}, 17, Mark>>}
  @@ 17 :> {<<{"0"}, 17, None>>, <<{"SP"}, 18, <<"status_code">>>>}
  @@ 18 :> {<<Byte \ {"LF"}, 19, Mark>>}
  @@ 19 :> {<<{"LF"}, 20, <<"reason_phrase">>>>,
            <<{"CR"}, 24, <<"reason_phrase">>>>,
            <<Byte \ {"LF", "CR"}, 19, None>>}

HeaderNameRows ==
     20 :> {<<{"LF"}, 120, Done>>, <<{"CR"}, 3, None>>}
             \cup HeaderStart(None, 25)
  @@ 21 :> {<<Token, 21, None>>, <<{":"}, 22, Name>>}

HeaderValueRows ==
     22 :> AfterColon(22, 20, 24) \cup {<<Byte \ Space, 23, Mark>>}
  @@ 23 :> LineEnd \cup {<<Byte \ {"LF", "CR"}, 23, None>>}
  @@ 24 :> {<<{"LF"}, 20, None>>}

-----------------------------------------------------------------------------
(* Connection: close                                                       *)

ConRows ==
     25 :> InName("o", 26) @@ 26 :> InName("n", 27)
  @@ 27 :> {<<{"n"}, 28, None>>, <<Either("t"), 101, None>>,
            <<{":"}, 22, Name>>, <<Token \ {"n", "T", "t"}, 21, None>>}
  @@ 28 :> InName("e", 29)
ConnectionRows == NameWord(29, <<"c", "t", "i", "o", "n">>)

ConnectionValueRows ==
     34 :> {<<Token, 21, None>>, <<{":"}, 35, Name>>}
  @@ 35 :> AfterColon(35, 36, 95)
             \cup {<<{"c"}, 96, Mark>>, <<Byte \ (Space \cup {"c"}), 23, Mark>>}
  @@ 36 :> {<<{"LF"}, 122, Done>>, <<{"CR"}, 89, None>>, <<Blank, 37, None>>}
             \cup HeaderStart(None, 90)

FoldedCloseRows ==
     37 :> {<<Space, 37, None>>, <<{"c"}, 38, None>>}
  @@ Word(38, <<"l", "o", "s", "e">>)
  @@ 42 :> {<<{"LF"}, 43, None>>, <<{"CR"}, 88, None>>}
\* The line has been read: the next byte records it.
ClosedRows ==
  43 :> {<<{"LF"}, 120, Close \o Done>>, <<{"CR"}, 3, Close>>}
          \cup HeaderStart(Close, 25)

-----------------------------------------------------------------------------
(* Transfer-Encoding: chunked                                              *)

TransferRows  == NameWord(44, <<"r", "a", "n", "s">>)
FerRows       == NameWord(48, <<"f", "e", "r", "-", "e">>)
EncodingRows  == NameWord(53, <<"n", "c", "o", "d", "i">>)
EncodingValueRows ==
     NameWord(58, <<"n", "g">>)
  @@ 60 :> {<<Token, 21, None>>, <<{":"}, 61, Name>>}
ChunkedRows ==
     61 :> AfterColon(61, 62, 80)
             \cup {<<{"c"}, 81, Mark>>, <<Byte \ (Space \cup {"c"}), 23, Mark>>}
  @@ 62 :> {<<{"LF"}, 121, Done>>, <<{"CR"}, 72, None>>, <<Blank, 63, None>>,
            <<{"c"}, 73, Mark \o Start>>, <<Either("t"), 44, Start>>,
            <<Token \ {"c", "T", "t"}, 21, Start>>}
  @@ 63 :> {<<Space, 63, None>>, <<{"c"}, 64, Mark>>}

\* The value on a line after the colon's; 121 is one of the final states.
FoldedChunkedRows ==
     Word(64, <<"h", "u", "n", "k", "e", "d">>)
  @@ 70  :> {<<{"LF"}, 20, Field \o <<"trans_chunked">>>>,
             <<{"CR"}, 71, Field>>}
  @@ 71  :> {<<{"LF"}, 20, <<"trans_chunked">>>>}
  @@ 121 :> {<<Space, 63, None>>, <<{"c"}, 64, Mark>>}
  @@ 72  :> {<<{"LF"}, 121, Done>>, <<Space \ {"LF"}, 63, None>>,
             <<{"c"}, 64, Mark>>}

\* A line that may be the value or the name of the next header.
ChunkedNameRows ==
     73 :> {<<Either("h"), 74, None>>, <<{"o"}, 26, None>>, <<{":"}, 22, Name>>,
            <<Token \ {"H", "h", "o"}, 21, None>>}
  @@ NameWord(74, <<"u", "n", "k">>)
ChunkedNameEndRows ==
     NameWord(77, <<"e", "d">>)
  @@ 79 :> {<<Token, 21, None>>, <<{":"}, 22, Name>>,
            <<{"LF"}, 20, Field \o <<"trans_chunked">>>>, <<{"CR"}, 71, Field>>}

ChunkedValueRows ==
     80  :> {<<{"LF"}, 62, None>>, <<Space \ {"LF"}, 63, None>>,
             <<{"c"}, 64, Mark>>}
  @@ ValueWord(81, <<"h", "u", "n", "k", "e", "d">>)
  @@ 87  :> {<<{"LF"}, 20, Field \o <<"trans_chunked">>>>,
             <<{"CR"}, 71, Field>>,
             <<Byte \ {"LF", "CR"}, 23, None>>}
  @@ 88  :> {<<{"LF"}, 43, None>>}
  @@ 122 :> {<<Space, 37, None>>, <<{"c"}, 38, None>>}
  @@ 89  :> {<<{"LF"}, 122, Done>>, <<Space \ {"LF"}, 37, None>>,
             <<{"c"}, 38, None>>}

\* As above, for "close" after Connection.
CloseNameRows ==
     90 :> {<<{"l"}, 91, None>>, <<{"o"}, 26, None>>, <<{":"}, 22, Name>>,
            <<Token \ {"l", "o"}, 21, None>>}
  @@ NameWord(91, <<"o", "s", "e">>)
CloseValueRows ==
     94  :> {<<Token, 21, None>>, <<{":"}, 22, Name>>, <<{"LF"}, 43, None>>,
             <<{"CR"}, 88, None>>}
  @@ 95  :> {<<{"LF"}, 36, None>>, <<Space \ {"LF"}, 37, None>>,
             <<{"c"}, 38, None>>}
  @@ ValueWord(96, <<"l", "o", "s", "e">>)
  @@ 100 :> {<<{"LF"}, 43, Field>>, <<{"CR"}, 88, Field>>,
             <<Byte \ {"LF", "CR"}, 23, None>>}

-----------------------------------------------------------------------------
(* Content-Length: digits                                                  *)

ContentRows == NameWord(101, <<"e", "n", "t", "-">>)
LengthRows  == NameWord(105, <<"l", "e", "n", "g", "t">>)
LengthValueRows ==
     NameWord(110, <<"h">>)
  @@ 111 :> {<<Token, 21, None>>, <<{":"}, 112, Name>>}
  @@ 112 :> AfterColon(112, 113, 118)
              \cup {<<{"0"}, 119, Mark>>,
                    <<Byte \ (Space \cup {"0"}), 23, Mark>>}
FoldedLengthRows ==
     113 :> {<<{"LF"}, 123, Done>>, <<{"CR"}, 116, None>>, <<Blank, 114, None>>,
             <<{"0"}, 117, Mark \o Start>>, <<Either("t"), 44, Start>>,
             <<{"c"}, 25, Start>>, <<Token \ {"0", "c", "T", "t"}, 21, Start>>}
  @@ 114 :> {<<Space, 114, None>>, <<{"0"}, 115, Mark>>}
  @@ 115 :> LengthEnd \cup {<<{"0"}, 115, None>>}
  @@ 123 :> {<<Space, 114, None>>, <<{"0"}, 115, Mark>>}
LengthDigitRows ==
     116 :> {<<{"LF"}, 123, Done>>, <<Space \ {"LF"}, 114, None>>,
             <<{"0"}, 115, Mark>>}
  @@ 117 :> LengthEnd \cup {<<{"0"}, 117, None>>, <<{":"}, 22, Name>>,
                            <<Token \ {"0"}, 21, None>>}
  @@ 118 :> {<<{"LF"}, 113, None>>, <<Space \ {"LF"}, 114, None>>,
             <<{"0"}, 115, Mark>>}
  @@ 119 :> LengthEnd \cup {<<{"0"}, 119, None>>,
                            <<Byte \ {"0", "LF", "CR"}, 23, None>>}

-----------------------------------------------------------------------------
\* The whole machine, by state.
Rows ==
  ChunkSizeRows @@ ChunkExtensionRows @@ ChunkExtensionValueRows
  @@ VersionRows @@ StatusRows @@ HeaderNameRows @@ HeaderValueRows
  @@ ConRows @@ ConnectionRows @@ ConnectionValueRows @@ FoldedCloseRows
  @@ ClosedRows @@ TransferRows @@ FerRows @@ EncodingRows
  @@ EncodingValueRows @@ ChunkedRows @@ FoldedChunkedRows
  @@ ChunkedNameRows @@ ChunkedNameEndRows @@ ChunkedValueRows
  @@ CloseNameRows @@ CloseValueRows @@ ContentRows @@ LengthRows
  @@ LengthValueRows @@ FoldedLengthRows @@ LengthDigitRows

State      == 1 .. 123
ErrorState == 0
StartState == 1
FirstFinal == 120
=============================================================================
