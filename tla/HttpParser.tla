----------------------------- MODULE HttpParser -----------------------------
(***************************************************************************)
(* HttpRequestParser and HttpResponseParser (http_parser.cc) around the    *)
(* machines of http11_parser.cc and httpclient_parser.cc: execute() feeds  *)
(* one buffer to the machine, whose actions record positions in the buffer *)
(* and hand the pieces of text between them to the callbacks.              *)
(*                                                                         *)
(* A position is abstracted to how it came about: the event after which it *)
(* was recorded ("begin" before any), "reset" for the 0 that execute()     *)
(* stores when it starts, "earlier" for a position in a buffer of an       *)
(* earlier call and "unset" for one never written.  Buffers have any       *)
(* length.  A text that a callback receives is named by the position where *)
(* it starts; no text is kept, except which of the two versions was read.  *)
(* uri_relaxed, which http_parser_init leaves uninitialised, decides only  *)
(* whether three more bytes may take the edges that others take anyway.    *)
(***************************************************************************)
EXTENDS Naturals, SequencesExt

CONSTANT Kinds       \* which of the two parsers are explored

Req == INSTANCE RequestMachine
Rsp == INSTANCE ResponseMachine

ASSUME KindsAssumption == Kinds \subseteq {"request", "response"}

VARIABLES
  kind,     \* which parser this is
  call,     \* "idle", "running" inside execute(), "aborted" by an assertion
  nul,      \* a response parser finds a NUL behind the buffer of this call
  cs,       \* parser->cs
  reg,      \* the positions and lengths of struct http_parser
  flag,     \* its other results: xml_sent, json_sent, chunked, close, ...
  m_error,  \* the error set by a callback, 0 if none
  m_data,   \* the part of the message stored last and where it was taken from
  first,    \* p = buffer: no byte of the buffer has been consumed yet
  text,     \* the version that the bytes spell
  last,     \* the last event: a callback, or the end of a field name
  told,     \* history: the callbacks made
  heard,    \* history: the events of the last step, in their order
  split,    \* history: a call has started in the middle of a head
  again,    \* history: a call has started after the end of the head
  failed    \* history: a call has started in the error state

vars == <<kind, call, nul, cs, reg, flag, m_error, m_data, first, text, last,
          told, heard, split, again, failed>>

-----------------------------------------------------------------------------
Rows(k, s)  == IF k = "request" THEN Req!Rows[s] ELSE Rsp!Rows[s]
Bytes(k)    == IF k = "request" THEN Req!Byte ELSE Rsp!Byte
ErrorState  == 0
StartState  == 1
AfterError  == 2
FirstFinal(k) == IF k = "request" THEN Req!FirstFinal ELSE Rsp!FirstFinal

\* http_parser_is_finished and httpclient_parser_is_finished.
IsFinished(k, s) ==
  IF k = "request" THEN s >= FirstFinal(k) ELSE s = FirstFinal(k)
\* httpclient's machine has four final states and http_parser's has two.
Final(k) == {s \in (IF k = "request" THEN Req!State ELSE Rsp!State) :
               s >= FirstFinal(k)}

\* http_parser_init and httpclient_parser_init: query_start is left alone.
NoReg == [mark |-> "reset", field_start |-> "reset", field_len |-> "zero",
          body_start |-> "none"]
NoFlag == {}
NoData == [part |-> "none", from |-> "none", name |-> "none"]

Init ==
  /\ kind \in Kinds
  /\ call = "idle" /\ nul = TRUE /\ cs = StartState
  /\ reg = NoReg @@ [query_start |-> "unset"]
  /\ flag = NoFlag
  /\ m_error = 0
  /\ m_data = NoData
  /\ first = TRUE /\ text = "none"
  /\ last = "begin" /\ told = {} /\ heard = << >>
  /\ split = FALSE /\ again = FALSE /\ failed = FALSE

-----------------------------------------------------------------------------
(* What the actions of the machine do.  st is the part of the state they   *)
(* change; known stands for what the text says: that a method is a known   *)
(* one, that a chunk has size 0.                                           *)

Hear(st, event) == [st EXCEPT !.last = event, !.heard = Append(@, event)]
Tell(st, event) == [Hear(st, event) EXCEPT !.told = @ \cup {event}]
Deliver(st, event, part, from) ==
  [Tell(st, event) EXCEPT !.m_data = [NoData EXCEPT !.part = part,
                                                    !.from = from]]
Raise(st, flags) == [st EXCEPT !.flag = @ \cup flags]

\* MARK(...): the position is known by the event it follows.  A field_len
\* measured before no longer belongs to the new field_start.
SetMark(st)       == [st EXCEPT !.reg.mark = st.last]
\* Mutation: start_query stores its position in mark.
SetQueryStartInMark(st) == [st EXCEPT !.reg.mark = st.last]
SetQueryStart(st) == [st EXCEPT !.reg.query_start = st.last]
SetFieldStart(st) ==
  [st EXCEPT !.reg.field_start = st.last,
             !.reg.field_len = IF @ = "zero" THEN @ ELSE "stale"]

\* Mutation: write_field does not measure the name.
SetFieldLenNot(st) == Hear(st, "write_field")
\* write_field: LEN(field_start, fpc).
SetFieldLen(st) ==
  [Hear(st, "write_field") EXCEPT
     !.reg.field_len = CASE st.reg.field_start # "reset" -> "whole"
                         [] first -> "zero"
                         [] OTHER -> "cut"]

\* on_request_http_field and on_response_http_field: a field without a name
\* is dropped with a warning.
OnHttpField(st) ==
  LET name == IF st.reg.field_len = "stale" THEN "stale"
                                            ELSE st.reg.field_start
  IN IF st.reg.field_len = "zero"
     THEN Deliver(st, "http_field", "dropped", "none")
     ELSE [Deliver(st, "http_field", "header", st.reg.mark)
             EXCEPT !.m_data.name = name]

\* on_request_method: CharsToHttpMethod looks for a known method there.
OnMethod(st, known) ==
  IF known THEN Deliver(st, "request_method", "method", st.reg.mark)
           ELSE [Tell(st, "request_method") EXCEPT !.m_error = 1000]

\* on_request_version and on_response_version compare as many bytes as the
\* text has: none at all are equal to those of "HTTP/1.1".
OnVersion(st) ==
  LET says == CASE st.reg.mark # "reset" -> text
                [] first -> "1.1"
                [] OTHER -> "other"
  IN IF says = "other"
     THEN [Tell(st, "http_version") EXCEPT !.m_error = 1001]
     ELSE Deliver(st, "http_version", "version", says)

\* done: where the body starts; XML and JSON messages have no header_done.
OnDone(st) ==
  [Hear(st, "done") EXCEPT
     !.reg.body_start = "here",
     !.told = IF {"xml", "json"} \cap st.flag = {}
              THEN @ \cup {"header_done"} ELSE @]

\* chunk_size: last_chunk or chunk_size is called, which do nothing.
OnChunkSize(st, zero) ==
  Raise([Tell(st, "chunk_size") EXCEPT !.flag = @ \ {"chunks_done"}],
        {"chunked", "content_len"} \cup IF zero THEN {"chunks_done"} ELSE {})

Do(st, a, known) ==
  CASE a = "mark"           -> SetMark(st)
    [] a = "start_field"    -> SetFieldStart(st)
    [] a = "start_query"    -> SetQueryStart(st)
    [] a = "write_field"    -> SetFieldLen(st)
    [] a = "http_field"     -> OnHttpField(st)
    [] a = "request_method" -> OnMethod(st, known)
    [] a = "request_uri"    -> Tell(st, a)
    [] a = "request_path"   -> Deliver(st, a, "path", st.reg.mark)
    [] a = "query_string"   -> Deliver(st, a, "query", st.reg.query_start)
    [] a = "fragment"       -> Deliver(st, a, "fragment", st.reg.mark)
    [] a = "http_version"   -> OnVersion(st)
    [] a = "reason_phrase"  -> Deliver(st, a, "reason", st.reg.mark)
    [] a = "status_code"    -> Deliver(st, a, "status", st.reg.mark)
    [] a = "chunk_size"     -> OnChunkSize(st, known)
    [] a = "trans_chunked"  -> Raise(st, {"chunked"})
    [] a = "write_content_len"      -> Raise(st, {"content_len"})
    [] a = "write_connection_close" -> Raise(st, {"close"})
    [] a \in {"xml", "json"}        -> Raise(st, {a})
    [] a = "done"           -> OnDone(st)

-----------------------------------------------------------------------------
\* The end of execute(): the length is returned and the rest of the buffer
\* moved to its front.  Of the assertions made there only body_start <= len
\* depends on an earlier call, whose buffer may have been longer than this one.
Leave(r) ==
  call' \in {"idle"} \cup IF r.body_start = "earlier" THEN {"aborted"} ELSE {}

\* execute(data, len), len > 0: the positions are reset, except query_start
\* and body_start; with chunck the response parser starts again.  It asserts
\* that a NUL ends the buffer before it reads a byte.  In the error state the
\* request parser returns 0 and stays there; the response parser's switch has
\* no case for it and falls to the label that stores state 2.
Execute(chunck, ends) ==
  /\ call = "idle"
  /\ kind = "request" => ~chunck /\ ends
  /\ nul' = ends
  /\ reg' = [NoReg EXCEPT !.body_start =
               IF chunck \/ reg.body_start = "none" THEN "none" ELSE "earlier"]
            @@ [query_start |-> IF reg.query_start = "unset" THEN "unset"
                                                            ELSE "earlier"]
  /\ LET start == IF chunck THEN StartState ELSE cs
     IN /\ cs' = IF start = ErrorState /\ kind = "response" /\ ends
                 THEN AfterError ELSE start
        /\ CASE ~ends               -> call' = "aborted"
             [] start = ErrorState  -> Leave(reg')
             [] OTHER               -> call' = "running"
  /\ flag' = IF chunck THEN NoFlag ELSE flag
  /\ first' = TRUE
  /\ last' = IF chunck THEN "begin" ELSE last
  /\ told' = IF chunck THEN {} ELSE told
  /\ heard' = << >>
  /\ split' = (split \/ (~chunck /\ cs # StartState))
  /\ again' = (~chunck /\ (again \/ cs \in Final(kind)))
  /\ failed' = (~chunck /\ (failed \/ cs = ErrorState))
  /\ UNCHANGED <<kind, m_error, m_data, text>>

\* Which version the bytes spell is settled by its last digit in a request;
\* a response may write any digits.
Spelled == CASE kind = "request" /\ cs = 11  -> {"1.0", "1.1"}
             [] kind = "response" /\ cs = 14 -> {"1.0", "1.1", "other"}
             [] OTHER -> {text}

\* Mutation: the action done lacks the fbreak that leaves the machine.
ByteNoBreak(e, known) ==
  LET st == FoldLeft(LAMBDA s, a : Do(s, a, known),
                     [reg |-> reg, flag |-> flag, m_error |-> m_error,
                      m_data |-> m_data, last |-> last, told |-> told,
                      heard |-> << >>], e[3])
  IN /\ call = "running"
     /\ cs' = e[2]
     /\ reg' = st.reg /\ flag' = st.flag /\ m_error' = st.m_error
     /\ m_data' = st.m_data /\ last' = st.last /\ told' = st.told
     /\ heard' = st.heard
     /\ first' = FALSE
     /\ UNCHANGED <<kind, call, nul, split, again, failed>>
     /\ text' \in Spelled

\* One byte along an edge e of the machine.
Byte(e, known) ==
  LET st == FoldLeft(LAMBDA s, a : Do(s, a, known),
                     [reg |-> reg, flag |-> flag, m_error |-> m_error,
                      m_data |-> m_data, last |-> last, told |-> told,
                      heard |-> << >>], e[3])
  IN /\ call = "running"
     /\ cs' = e[2]
     /\ reg' = st.reg /\ flag' = st.flag /\ m_error' = st.m_error
     /\ m_data' = st.m_data /\ last' = st.last /\ told' = st.told
     /\ heard' = st.heard
     /\ first' = FALSE
     /\ IF e[3] # << >> /\ Last(e[3]) = "done" THEN Leave(st.reg)
                                               ELSE UNCHANGED call
     /\ UNCHANGED <<kind, nul, split, again, failed>>
     /\ text' \in Spelled

\* A byte that no edge names: the error state, the byte not consumed.
BadByte ==
  /\ call = "running"
  /\ ~(Bytes(kind) \subseteq UNION {e[1] : e \in Rows(kind, cs)})
  /\ cs' = ErrorState
  /\ Leave(reg)
  /\ heard' = << >>
  /\ UNCHANGED <<kind, nul, reg, flag, m_error, m_data, first, text, last,
                 told, split, again, failed>>

\* The buffer, which had a byte at least, is used up: the state is kept for
\* the next call.
BufferEnd ==
  /\ call = "running" /\ ~first
  /\ Leave(reg)
  /\ heard' = << >>
  /\ UNCHANGED <<kind, nul, cs, reg, flag, m_error, m_data, first, text, last,
                 told, split, again, failed>>

Next ==
  \/ \E chunck, ends \in BOOLEAN : Execute(chunck, ends)
  \/ call = "running" /\ \E e \in Rows(kind, cs), known \in BOOLEAN :
                           Byte(e, known)
  \/ BadByte
  \/ BufferEnd

Spec == Init /\ [][Next]_vars

-----------------------------------------------------------------------------
\* Where the text of each part begins when the head is read in one call: right
\* after the event that ended the part before it.
Begins ==
  [method   |-> {"begin"},
   path     |-> {"request_method", "begin"},
   query    |-> {"request_path"},
   fragment |-> {"request_uri"},
   status   |-> {"http_version"},
   reason   |-> {"status_code"},
   header   |-> {"write_field"}]
NameBegins == {"http_version", "http_field", "reason_phrase", "chunk_size"}

\* A head that reaches execute() in one buffer is understood: the callbacks
\* get each part from its first byte on, no header is dropped, the version is
\* the one that was sent and is not rejected as invalid (http_parser.cc:117).
\* A response may still write the value of three headers on a later line than
\* the name; the value is then taken from there and the name may be misread.
WholeInOneCall ==
  ~split =>
    /\ kind = "request" => m_error # 1001
    /\ m_data.part # "dropped"
    /\ last = "http_version" /\ m_error = 0 =>
         m_data.part = "version" /\ m_data.from = text
    /\ m_data.part = "header" =>
         \/ m_data.name \in NameBegins /\ m_data.from = "write_field"
         \/ kind = "response" /\ m_data.from = "http_field"
    /\ m_data.part \in DOMAIN Begins \ {"header"} =>
         m_data.from \in Begins[m_data.part]

\* The parser never uses query_start before storing it, however the head is
\* cut into calls: http_parser_init leaves that member uninitialised.
QueryStartSet == m_data.from # "unset"

\* When the machine stops in a final state everything the message must have
\* has been handed over: a request its method, path and version, a message in
\* XML or JSON its path, a response its status line, a chunk its size.
HeadComplete ==
  cs \in Final(kind) =>
    \/ {"request_method", "request_path", "request_uri", "http_version",
        "header_done"} \subseteq told
    \/ /\ "request_path" \in told /\ "request_method" \notin told
       /\ flag \in {{"xml"}, {"json"}} /\ cs = 349
    \/ {"http_version", "status_code", "reason_phrase", "header_done"}
         \subseteq told
    \/ {"chunk_size", "header_done"} \subseteq told /\ "chunked" \in flag

\* The parts are handed over in the order in which they are written, each of
\* them once, through all the states of the two machines and however the head
\* is cut into calls, until a call comes after the end of the head or after an
\* error: the response parser then reads on as if a chunk's size came next.
\* Only a header whose value is on a later line is told twice in a row.
Follows ==
  {<<"begin", "request_method">>, <<"begin", "request_path">>,
   <<"request_method", "request_path">>,
   <<"request_path", "query_string">>, <<"request_path", "request_uri">>,
   <<"query_string", "request_uri">>, <<"request_path", "done">>,
   <<"request_uri", "fragment">>, <<"request_uri", "http_version">>,
   <<"fragment", "http_version">>,
   <<"begin", "http_version">>, <<"http_version", "status_code">>,
   <<"status_code", "reason_phrase">>,
   <<"begin", "chunk_size">>, <<"chunk_size", "done">>,
   <<"chunk_size", "write_field">>, <<"http_version", "write_field">>,
   <<"reason_phrase", "write_field">>, <<"write_field", "http_field">>,
   <<"http_field", "write_field">>, <<"http_field", "http_field">>,
   <<"http_version", "done">>, <<"reason_phrase", "done">>,
   <<"http_field", "done">>}
CallbackOrder ==
  [][~again /\ ~failed =>
       \A i \in DOMAIN heard' :
         <<(<<last>> \o heard')[i], heard'[i]>> \in Follows]_vars

\* The assertions of execute() hold as long as the caller stops at the end of
\* the head and ends the buffer of a response with a NUL: only a call after
\* the head can find body_start past its buffer (http11_parser.cc:6665,
\* httpclient_parser.cc:3299), only a buffer without a NUL fails the check
\* that the response parser makes first (httpclient_parser.cc:111).
AbortsOnlyAfterEnd == call = "aborted" => again \/ ~nul

\* isFinished() (http_parser.h:117, "whether the parsing is complete") tells
\* that a call has read the end of the head.
DoneIsFinished ==
  call = "idle" /\ last = "done" /\ ~again => IsFinished(kind, cs)
=============================================================================
