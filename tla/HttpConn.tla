------------------------------ MODULE HttpConn -------------------------------
(***************************************************************************)
(* One connection of ehttp's HttpServer (HttpEpollWatcher, Response and    *)
(* HttpContext): requests come in through recv in pieces of any size, are  *)
(* parsed by HttpRequest and handled, and the response goes out through    *)
(* send, which may take less than it is given.  EpollSocket calls          *)
(* on_readable, on_writeable and on_close, never two of them at a time for *)
(* one connection: on which event it waits is armed.                       *)
(*                                                                         *)
(* External: the client, which sends whole requests and may or may not     *)
(* wait for a response before the next; the handlers, each of which leaves *)
(* one of its replies in the response.                                     *)
(***************************************************************************)
EXTENDS HttpRequest

CONSTANTS
    Requests,               \* what the client may send, and what it means
    Resources,              \* _resource_map: URI to methods and replies
    SS_READ_BUFFER_SIZE,    \* 4096
    SS_WRITE_BUFFER_SIZE,   \* 4096
    MaxRequests             \* bound: requests on the connection

ASSUME ConnAssumption == SS_READ_BUFFER_SIZE \in Nat \ {0} /\ SS_WRITE_BUFFER_SIZE \in Nat \ {0}

\* A client sends whole requests: one method, at the beginning, and as much
\* body behind the headers as they say.
ASSUME RequestsAssumption ==
    \A r \in Requests :
        /\ r.stream \in Seq(ToSet(r.stream))
        /\ \A k \in DOMAIN r.stream : r.stream[k][1] = "method" <=> k = 1
        /\ \E e \in DOMAIN r.stream :
              /\ \A k \in DOMAIN r.stream : r.stream[k][1] = "end" <=> k = e
              /\ r.stream[e][2].length \in Nat /\ Len(r.stream) = e + r.stream[e][2].length

ASSUME RepliesAssumption ==
    \A uri \in DOMAIN Resources : \A reply \in Resources[uri].replies :
        IsFiniteSet(reply.headers) /\ reply.body \in Seq(ToSet(reply.body))

VARIABLES
    res,        \* *_res
    armed,      \* "in", "out", in on_readable: "parse", or "closed": the
                \* context is deleted
    wire,       \* tokens sent by the client and not yet read
    open,       \* the client has not closed
    piped,      \* the client sends requests without waiting for responses
    sent,       \* history: the requests
    seen,       \* history: what each handled request looked like
    texts,      \* history: the responses made
    received,   \* what the client has received
    read,       \* history: number of tokens read
    cut         \* history: the rest of a response was thrown away

vars == <<requestVars, res, armed, wire, open, piped, sent, seen, texts, received, read, cut>>

STATUS_OK == 200
STATUS_NOT_FOUND == 404
STATUS_METHOD_NOT_ALLOWED == 405
STATUS_LENGTH_REQUIRED == 411

Response == [code |-> STATUS_OK, headers |-> {}, body |-> <<>>, written |-> FALSE,
             bytes |-> <<>>, tellg |-> 0, eof |-> FALSE]

\* on_accept makes the context.
Init ==
    /\ req = Request /\ parser = http_parser /\ res = Response
    /\ chunk = <<>> /\ parts = <<>> /\ ppc = "callbacks"
    /\ armed = "in"
    /\ wire = <<>> /\ open = TRUE /\ piped \in BOOLEAN
    /\ sent = <<>> /\ seen = <<>> /\ texts = <<>> /\ received = <<>>
    /\ read = 0 /\ cut = FALSE

-----------------------------------------------------------------------------
(* Reading.                                                                *)

\* What a handler can see of a request.
View == [method |-> req._method, url |-> req._request_url, version |-> req._http_version,
         headers |-> req._headers, body |-> req._raw_string, params |-> ReqParams, items |-> file_items,
         k |-> unescape(get_param(ReqParams, <<"k">>))]

\* mutant: the whole URL is looked up
handle_request_WholeUrl ==
    IF req._request_url \notin DOMAIN Resources
    THEN {[code |-> STATUS_NOT_FOUND, headers |-> {}, body |-> <<"Not Found">>]}
    ELSE Resources[req._request_url].replies

\* The responses the request may get.
handle_request ==
    LET uri == get_request_uri IN
    IF uri \notin DOMAIN Resources
    THEN {[code |-> STATUS_NOT_FOUND, headers |-> {}, body |-> <<"Not Found">>]}
    ELSE IF req._method \notin Resources[uri].methods
    THEN {[code |-> STATUS_METHOD_NOT_ALLOWED, headers |-> {"Allow"}, body |-> <<>>]}
    ELSE Resources[uri].replies

Answer(reply) == res' = [res EXCEPT !.code = reply.code, !.headers = reply.headers, !.body = reply.body]

connUnchanged == <<open, piped, sent, texts, received, cut>>

\* parse_request begins with n more bytes.
parse_request(n) ==
    /\ req' = [req EXCEPT !._total_req_size = @ + n]
    /\ armed' = IF req'._total_req_size > MAX_REQ_SIZE THEN "closed" ELSE "parse"

\* recv fails or says that the client has closed (if it is interrupted,
\* nothing happens), or it gives some bytes.
on_readable ==
    /\ armed = "in"
    /\ \/ /\ wire = <<>> /\ ~open
          /\ armed' = "closed"
          /\ UNCHANGED <<req, chunk, wire, read>>
       \/ \E n \in 1..Min({SS_READ_BUFFER_SIZE, Len(wire)}) :
             /\ chunk' = SubSeq(wire, 1, n)
             /\ wire' = SubSeq(wire, n + 1, Len(wire))
             /\ read' = read + n
             /\ parse_request(n)
    /\ UNCHANGED <<parser, parts, ppc, res, seen, connUnchanged>>

Parses ==
    /\ armed = "parse"
    /\ http_parser_execute
    /\ UNCHANGED <<res, armed, wire, seen, read, connUnchanged>>

\* The rest of on_readable.
Parsed ==
    /\ armed = "parse" /\ Executed
    /\ CASE ParseResult = "NEED_MORE_STATUS" -> armed' = "in" /\ UNCHANGED <<res, seen>>
         [] ParseResult = "PARSE_LEN_REQUIRED" ->
                /\ armed' = "out"
                /\ Answer([code |-> STATUS_LENGTH_REQUIRED, headers |-> {}, body |-> <<"Length Required">>])
                /\ UNCHANGED seen
         [] ParseResult = "over" ->
                /\ armed' = "out"
                /\ \E reply \in handle_request : Answer(reply)
                /\ seen' = Append(seen, View)
         [] OTHER -> armed' = "closed" /\ UNCHANGED <<res, seen>>
    /\ UNCHANGED <<requestVars, wire, read, connUnchanged>>

-----------------------------------------------------------------------------
(* Writing.                                                                *)

is_keepalive == ss_str_tolower(get_header(<<"connection">>)) = <<"keep-", "alive">>

gen_response(r) ==
    << <<"status", req._http_version, r.code>> >>
    \o (IF "Content-Type" \in r.headers THEN <<>> ELSE << <<"Content-Type">> >>)
    \o (IF "Content-Length" \in r.headers THEN <<>> ELSE << <<"Content-Length", Len(r.body)>> >>)
    \o << <<"Connection", is_keepalive>> >>
    \o SetToSeq({<<h>> : h \in r.headers})
    \o << <<"end">> >> \o r.body

\* The response with its bytes, made once.
Generated == IF res.written THEN res ELSE [res EXCEPT !.bytes = gen_response(res), !.written = TRUE]

\* How many bytes can be read from the stream, which ends only when a read
\* asks for more than there are.
ReadSize(r) == Min({SS_WRITE_BUFFER_SIZE, Len(r.bytes) - r.tellg})

readsome(r) == [r EXCEPT !.tellg = @ + ReadSize(r), !.eof = SS_WRITE_BUFFER_SIZE > Len(r.bytes) - r.tellg]

\* mutant: what was not sent is not read again
rollback_Skips(r, num) == [r EXCEPT !.eof = FALSE]

rollback(r, num) == [r EXCEPT !.tellg = @ - num, !.eof = FALSE]

\* mutant: the request of the past stays
clear_KeepsRequest == UNCHANGED <<req, parser>> /\ res' = Response

clear == req' = Request /\ parser' = http_parser /\ res' = Response

\* send takes nwrite of the read_size bytes it is given.
Send(gen, nwrite) ==
    LET some == readsome(gen)
        size == ReadSize(gen)
        left == IF nwrite < size THEN rollback(some, size - nwrite) ELSE some
    IN  /\ received' = received \o SubSeq(gen.bytes, gen.tellg + 1, gen.tellg + nwrite)
        /\ \/ \* NEED_MORE_STATUS: there may be more
              /\ ~some.eof
              /\ armed' = "out" /\ res' = left
              /\ UNCHANGED <<req, parser, cut>>
           \/ \* the last part, be it sent whole or not
              /\ some.eof
              /\ IF is_keepalive /\ nwrite > 0
                 THEN armed' = "in" /\ clear
                 ELSE armed' = "closed" /\ UNCHANGED <<req, parser, res>>
              /\ cut' = (cut \/ nwrite < size)

on_writeable ==
    /\ armed = "out"
    /\ texts' = IF res.written THEN texts ELSE Append(texts, gen_response(res))
    /\ \/ \* nothing to read, or send fails
          /\ armed' = "closed"
          /\ UNCHANGED <<req, parser, res, received, cut>>
       \/ \E nwrite \in 0..ReadSize(Generated) : ReadSize(Generated) > 0 /\ Send(Generated, nwrite)
    /\ UNCHANGED <<chunk, parts, ppc, wire, open, piped, sent, seen, read>>

\* EpollSocket closes a connection that is idle or unwanted.
on_close ==
    /\ armed \in {"in", "out"}
    /\ armed' = "closed"
    /\ UNCHANGED <<requestVars, res, wire, open, piped, sent, seen, texts, received, read, cut>>

-----------------------------------------------------------------------------
(* The client.                                                             *)

AllAnswered == Len(texts) = Len(sent) /\ received = FlattenSeq(texts)

ClientSends(r) ==
    /\ open /\ armed # "closed" /\ Len(sent) < MaxRequests
    /\ piped \/ AllAnswered
    /\ sent' = Append(sent, r)
    /\ wire' = wire \o r.stream
    /\ UNCHANGED <<requestVars, res, armed, open, piped, seen, texts, received, read, cut>>

ClientCloses ==
    /\ open
    /\ open' = FALSE
    /\ UNCHANGED <<requestVars, res, armed, wire, piped, sent, seen, texts, received, read, cut>>

-----------------------------------------------------------------------------
Next ==
    \/ on_readable
    \/ Parses
    \/ Parsed
    \/ on_writeable
    \/ on_close
    \/ \E r \in Requests : ClientSends(r)
    \/ ClientCloses

\* Epoll reports what a connection waits for, and a thread takes it.
Spec == Init /\ [][Next]_vars /\ WF_vars(on_readable \/ Parses \/ Parsed \/ on_writeable)

-----------------------------------------------------------------------------
(* Properties.                                                             *)

\* The response's read position lies in its bytes, and an open connection has
\* taken no more than MAX_REQ_SIZE bytes for its request.
TypeOK ==
    /\ armed \in {"in", "parse", "out", "closed"}
    /\ res.tellg \in 0..Len(res.bytes)
    /\ armed # "closed" => req._total_req_size \in 0..MAX_REQ_SIZE
    /\ Len(req._header_values) <= Len(req._header_fields)
    /\ open \in BOOLEAN /\ piped \in BOOLEAN /\ cut \in BOOLEAN

\* A client that waits for its responses is understood: however its bytes were
\* cut, every handler sees the method, URL, headers, body, parameters and form
\* items that were sent.  A request without headers has no method in this
\* code, which sets it at the first header.
HandlerSeesRequest ==
    ~piped => \A k \in DOMAIN seen : sent[k].view.headers # EmptyMap => seen[k] = sent[k].view

\* The status of each response is the one the resource map gives the request
\* it answers.
Codes(v) ==
    LET uri == Fields(v.url, "?")[1] IN
    IF uri \notin DOMAIN Resources THEN {STATUS_NOT_FOUND}
    ELSE IF v.method \notin Resources[uri].methods THEN {STATUS_METHOD_NOT_ALLOWED}
    ELSE {reply.code : reply \in Resources[uri].replies}

RightAnswer ==
    ~piped => \A k \in DOMAIN texts :
        sent[k].view.headers # EmptyMap =>
            \E code \in Codes(sent[k].view) : texts[k][1] = <<"status", sent[k].view.version, code>>

\* Pipelined or not, a request is handled only when its last byte is there:
\* there are never more answers than whole requests.
Size(k) == Len(FlattenSeq([i \in 1..k |-> sent[i].stream]))

AnswersOnlyWhole == Cardinality({k \in DOMAIN sent : Size(k) <= read}) >= Len(seen)

\* The state of the connection coheres and is never ahead of its client.
Safe == TypeOK /\ AnswersOnlyWhole

\* The client receives the bytes of the responses in order, none twice and
\* none left out, and all of them before the next request is read, unless the
\* last part of a response was sent in part: its rest is then thrown away.
ResponsesWhole ==
    ~cut => /\ IsPrefix(received, FlattenSeq(texts))
            /\ armed = "in" => received = FlattenSeq(texts)

\* A client that waits for its responses gets one for all it has sent, or the
\* connection is closed.
Answered == ~piped /\ ~AllAnswered ~> AllAnswered \/ armed = "closed" \/ cut

=============================================================================
