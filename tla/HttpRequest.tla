----------------------------- MODULE HttpRequest -----------------------------
(***************************************************************************)
(* The request of ehttp (sim_parser.cpp): what the callbacks of            *)
(* http_parser and multipart_parser build while the bytes of a connection  *)
(* come in pieces, one action per callback.  A request is a record with    *)
(* the members of Request and its parts; a string is a sequence of         *)
(* characters or fragments.  Whoever owns the request is in HttpConn.      *)
(*                                                                         *)
(* External: the two parsers.  A token is what they see in a few bytes:    *)
(* <<kind, value>>; the token "end", the empty line after the headers,     *)
(* carries what http_parser has learnt from them, the length of the body   *)
(* and whether the connection is kept.  A callback gets one fragment.      *)
(***************************************************************************)
EXTENDS Integers, Sequences, SequencesExt, FiniteSetsExt

CONSTANTS
    MAX_REQ_SIZE,   \* 10485760
    LowerCase,      \* tolower, on the fragments it changes
    Chr             \* the character of two hex digits

ASSUME RequestAssumption == MAX_REQ_SIZE \in Nat

VARIABLES
    req,        \* *_req
    parser,     \* _parser
    chunk,      \* what is not yet parsed of read_buffer
    parts,      \* what is not yet parsed of a multipart body
    ppc         \* "callbacks" of http_parser, "message" before the last of
                \* them, "multipart" inside it

requestVars == <<req, parser, chunk, parts, ppc>>

EmptyMap == [x \in {} |-> 0]

-----------------------------------------------------------------------------
(* Strings.                                                                *)

\* The pieces between separators, as successive getline see them.
Fields(s, sep) ==
    LET seps    == {k \in DOMAIN s : s[k] = sep}
        from[k \in 1..(Len(s) + 1)] ==
            LET next == {i \in seps : i >= k}
            IN  IF next = {} THEN <<SubSeq(s, k, Len(s))>> ELSE <<SubSeq(s, k, Min(next) - 1)>> \o from[Min(next) + 1]
    IN  from[1]

\* An empty piece at the end is no token.
ss_split_str(s, sep) == LET ps == Fields(s, sep) IN IF Last(ps) = <<>> THEN Front(ps) ELSE ps

ss_str_tolower(s) == [k \in DOMAIN s |-> IF s[k] \in DOMAIN LowerCase THEN LowerCase[s[k]] ELSE s[k]]

Hex == UNION {{d[1], d[2]} : d \in DOMAIN Chr}

unescape(s) ==
    LET from[i \in 1..(Len(s) + 1)] ==
            IF i > Len(s) THEN <<>>
            ELSE IF s[i] = "%" /\ i + 2 <= Len(s) /\ {s[i + 1], s[i + 2]} \subseteq Hex
                 THEN <<Chr[<<s[i + 1], s[i + 2]>>]>> \o from[i + 3]
                 ELSE <<IF s[i] = "+" THEN " " ELSE s[i]>> \o from[i + 1]
    IN  from[1]

-----------------------------------------------------------------------------
(* Parameters: a multimap, as the sequence of its pairs.                   *)

Pairs(ps) == [k \in 1..((Len(ps) + 1) \div 2) |-> <<ps[2 * k - 1], IF 2 * k <= Len(ps) THEN ps[2 * k] ELSE <<>> >>]

parse_query_url(query) == FlattenSeq([k \in DOMAIN Fields(query, "&") |-> Pairs(Fields(Fields(query, "&")[k], "="))])

get_params(params, name) == LET hits == SelectSeq(params, LAMBDA p : p[1] = name)
                            IN  [k \in DOMAIN hits |-> hits[k][2]]

get_param(params, name) == LET hits == get_params(params, name) IN IF hits = <<>> THEN <<>> ELSE hits[1]

-----------------------------------------------------------------------------
(* The request.                                                            *)

Request == [
    _parse_part |-> "PARSE_REQ_LINE", _total_req_size |-> 0, _last_was_value |-> TRUE, _parse_err |-> "none",
    _method |-> "", _request_url |-> <<>>, _http_version |-> "", _param |-> <<>>,
    _header_fields |-> <<>>, _header_values |-> <<>>, _headers |-> EmptyMap,
    _raw_string |-> <<>>, _req_params |-> <<>>, _file_items |-> <<>>]

http_parser == [last |-> "message", method |-> "", version |-> "", left |-> 0, keep |-> TRUE, errno |-> FALSE]

get_header(name) == IF name \in DOMAIN req._headers THEN req._headers[name] ELSE <<>>

get_request_uri == Fields(req._request_url, "?")[1]

parse_request_url_params(url) ==
    LET pieces == Fields(url, "?") IN IF Len(pieces) > 1 THEN parse_query_url(pieces[2]) ELSE <<>>

\* The parameters a handler asks for: those of the URL or of the body.
ReqParams == CASE req._method = "GET"  -> req._param
               [] req._method = "POST" -> req._req_params
               [] OTHER                -> <<>>

-----------------------------------------------------------------------------
(* http_parser calls back while it understands the tokens; at one that it  *)
(* does not, or when a callback fails, it stops.                           *)

Follows == [message |-> {"method"}, method |-> {"url"}, url |-> {"url", "version"},
            version |-> {"field", "end"}, field |-> {"field", "value"}, value |-> {"value", "field", "end"},
            end |-> {"body"}, body |-> {"body"}, dead |-> {}]

Parsing == ppc = "callbacks" /\ chunk # <<>> /\ ~parser.errno

\* The next token is of this kind, and piece its value; the parser goes on.
Sees(kind) == Parsing /\ Head(chunk)[1] = kind /\ kind \in Follows[parser.last]
piece == Head(chunk)[2]
Takes(p) == chunk' = Tail(chunk) /\ parser' = [p EXCEPT !.last = Head(chunk)[1]]

MethodOrVersion ==
    /\ \/ Sees("method") /\ Takes([parser EXCEPT !.method = piece])
       \/ Sees("version") /\ Takes([parser EXCEPT !.version = piece])
    /\ UNCHANGED <<req, parts, ppc>>

SyntaxError ==
    /\ Parsing /\ Head(chunk)[1] \notin Follows[parser.last]
    /\ parser' = [parser EXCEPT !.errno = TRUE]
    /\ UNCHANGED <<req, chunk, parts, ppc>>

\* mutant: only the last piece of the URL is kept
ss_on_url_Assigns ==
    /\ Sees("url")
    /\ Takes(parser)
    /\ req' = [req EXCEPT !._request_url = <<piece>>]
    /\ UNCHANGED <<parts, ppc>>

ss_on_url ==
    /\ Sees("url")
    /\ Takes(parser)
    /\ req' = [req EXCEPT !._request_url = Append(@, piece)]
    /\ UNCHANGED <<parts, ppc>>

RequestLine ==
    IF req._parse_part # "PARSE_REQ_LINE" THEN req
    ELSE [req EXCEPT !._method = parser.method,
                     !._param = @ \o parse_request_url_params(req._request_url),
                     !._http_version = IF parser.version \in {"HTTP/1.0", "HTTP/1.1"} THEN parser.version ELSE @,
                     !._parse_part = "PARSE_REQ_HEAD"]

\* The rest of a name or a value goes to the last one.
AddToLast(s, more) == [s EXCEPT ![Len(s)] = Append(@, more)]

ss_on_header_field ==
    /\ Sees("field")
    /\ Takes(parser)
    /\ req' = [RequestLine EXCEPT
                 !._header_fields = IF req._last_was_value THEN Append(@, <<piece>>) ELSE AddToLast(@, piece),
                 !._last_was_value = FALSE]
    /\ UNCHANGED <<parts, ppc>>

ss_on_header_value ==
    /\ Sees("value")
    /\ Takes(parser)
    /\ req' = [req EXCEPT
                 !._header_values = IF ~req._last_was_value THEN Append(@, <<piece>>) ELSE AddToLast(@, piece),
                 !._last_was_value = TRUE]
    /\ UNCHANGED <<parts, ppc>>

\* add_header for each of them: the last value of a name counts.
Headers ==
    LET names == [k \in DOMAIN req._header_fields |-> ss_str_tolower(req._header_fields[k])]
    IN  [n \in DOMAIN req._headers \cup ToSet(names) |->
            IF n \in ToSet(names) THEN req._header_values[Max({k \in DOMAIN names : names[k] = n})]
            ELSE req._headers[n]]

LengthRequired ==
    req._method = "POST" /\ \A n \in DOMAIN Headers : n = <<"content-", "length">> => Headers[n] = <<>>

\* Fails if a field has no value, which http_parser does not let happen, and
\* for a POST without length; the token is then not consumed.
ss_on_headers_complete ==
    /\ Sees("end")
    /\ IF Len(req._header_fields) # Len(req._header_values)
       THEN parser' = [parser EXCEPT !.errno = TRUE] /\ UNCHANGED <<req, chunk, ppc>>
       ELSE /\ req' = [req EXCEPT !._headers = Headers, !._parse_part = "PARSE_REQ_HEAD_OVER",
                                  !._parse_err = IF LengthRequired THEN "PARSE_LEN_REQUIRED" ELSE @]
            /\ IF LengthRequired
               THEN parser' = [parser EXCEPT !.errno = TRUE] /\ UNCHANGED <<chunk, ppc>>
               ELSE /\ Takes([parser EXCEPT !.left = piece.length, !.keep = piece.keep])
                    /\ ppc' = IF piece.length = 0 THEN "message" ELSE ppc
    /\ UNCHANGED parts

ss_on_body ==
    /\ Sees("body")
    /\ Takes([parser EXCEPT !.left = @ - 1])
    /\ req' = [req EXCEPT !._raw_string = Append(@, piece), !._parse_part = "PARSE_REQ_BODY"]
    /\ ppc' = IF parser.left = 1 THEN "message" ELSE ppc
    /\ UNCHANGED parts

-----------------------------------------------------------------------------
(* The end of a message.                                                   *)

\* A strict parser takes no message after one that ends the connection.
MessageOver(r, ret) ==
    /\ req' = [r EXCEPT !._parse_part = "PARSE_REQ_OVER",
                        !._parse_err = IF ret = 0 THEN @ ELSE "PARSE_MULTIPART_ERR"]
    /\ parser' = [parser EXCEPT !.last = IF parser.keep THEN "message" ELSE "dead", !.errno = ret # 0]
    /\ ppc' = "callbacks"

ContentType == get_header(<<"content-", "type">>)

Boundary == ss_split_str(ss_split_str(ContentType, ";")[2], "=")

\* The body is parsed only if Content-Type has a boundary; that it has none is
\* no error.  multipart_parser fails at once if the body begins with another.
ss_parse_multipart_data ==
    IF req._raw_string # <<>> /\ Len(ss_split_str(ContentType, ";")) = 2 /\ Len(Boundary) = 2
    THEN IF Head(req._raw_string) = <<"boundary", Boundary[2]>>
         THEN ppc' = "multipart" /\ parts' = Tail(req._raw_string) /\ UNCHANGED <<req, parser>>
         ELSE MessageOver(req, -1) /\ UNCHANGED parts
    ELSE MessageOver(req, 0) /\ UNCHANGED parts

\* mutant: a request is never over
ss_on_message_complete_Unset ==
    /\ ppc = "message"
    /\ ppc' = "callbacks"
    /\ parser' = [parser EXCEPT !.last = "message"]
    /\ UNCHANGED <<req, chunk, parts>>

ss_on_message_complete ==
    /\ ppc = "message"
    /\ IF "multipart/form-data" \in ToSet(ContentType)
       THEN ss_parse_multipart_data
       ELSE /\ MessageOver(IF ContentType = <<"application/x-www-form-urlencoded">> /\ req._raw_string # <<>>
                           THEN [req EXCEPT !._req_params = @ \o parse_query_url(req._raw_string)] ELSE req, 0)
            /\ UNCHANGED parts
    /\ UNCHANGED chunk

-----------------------------------------------------------------------------
(* multipart_parser calls back for each name and value of a part header,   *)
(* piece of data, end of a part and end of the body.  _parse_state is a    *)
(* bool: PARSE_MULTI_DISPOSITION is false, and all other states are true,  *)
(* which is PARSE_MULTI_CONTENT_TYPE.                                      *)

FileItem == [is_file |-> FALSE, name |-> <<>>, filename |-> <<>>, content_type |-> <<>>, data |-> <<>>,
             parse_state |-> FALSE]

file_items == req._file_items
part == Head(parts)[2]
Item(f(_)) == parts' = Tail(parts) /\ req' = [req EXCEPT !._file_items[Len(file_items)] = f(@)] /\ UNCHANGED <<parser, ppc>>

\* A callback fails, and with it the request.
PartFails == MessageOver(req, -1) /\ UNCHANGED parts

InPart(kind) == ppc = "multipart" /\ parts # <<>> /\ Head(parts)[1] = kind

ss_on_multipart_name ==
    /\ InPart("name")
    /\ CASE part = "Content-Disposition" ->
               /\ parts' = Tail(parts)
               /\ req' = [req EXCEPT !._file_items = Append(@, FileItem)]
               /\ UNCHANGED <<parser, ppc>>
         [] part = "Content-Type" -> IF file_items = <<>> THEN PartFails
                                     ELSE Item(LAMBDA i : [i EXCEPT !.parse_state = TRUE])
         [] OTHER -> parts' = Tail(parts) /\ UNCHANGED <<req, parser, ppc>>
    /\ UNCHANGED chunk

\* name="value": the value without the quotes, which may be empty only there.
DispositionFails(input) ==
    LET tokens == ss_split_str(input, "=")
    IN  Len(tokens) # 2 \/ (tokens[2] # <<"\"", "\"">> /\ Len(tokens[2]) <= 2)

ss_parse_disposition_value(input) ==
    LET value == ss_split_str(input, "=")[2] IN SubSeq(value, 2, Len(value) - 1)

\* The field and, for a file, its name.
ss_parse_multi_disposition(tokens) ==
    IF Len(tokens) < 2 \/ \E k \in 2..Min({3, Len(tokens)}) : DispositionFails(tokens[k])
    THEN PartFails
    ELSE Item(LAMBDA i : [i EXCEPT !.name = ss_parse_disposition_value(tokens[2]),
                                   !.is_file = Len(tokens) >= 3,
                                   !.filename = IF Len(tokens) >= 3 THEN ss_parse_disposition_value(tokens[3]) ELSE @])

ss_on_multipart_value ==
    /\ InPart("value")
    /\ IF file_items = <<>> THEN PartFails
       ELSE IF Last(file_items).parse_state THEN Item(LAMBDA i : [i EXCEPT !.content_type = part])
       ELSE ss_parse_multi_disposition(ss_split_str(part, ";"))
    /\ UNCHANGED chunk

ss_on_multipart_data ==
    /\ InPart("data")
    /\ IF file_items = <<>> THEN PartFails ELSE Item(LAMBDA i : [i EXCEPT !.data = @ \o part])
    /\ UNCHANGED chunk

ss_on_multipart_data_over ==
    /\ InPart("over")
    /\ IF file_items = <<>> THEN PartFails ELSE Item(LAMBDA i : [i EXCEPT !.parse_state = TRUE])
    /\ UNCHANGED chunk

parse_multi_params == [k \in DOMAIN file_items |-> <<file_items[k].name, file_items[k].data>>]

ss_on_multipart_body_end ==
    /\ InPart("bodyend")
    /\ MessageOver([req EXCEPT !._req_params = @ \o parse_multi_params], 0)
    /\ parts' = <<>>
    /\ UNCHANGED chunk

\* The body ends elsewhere.
MultipartEnds ==
    /\ ppc = "multipart" /\ parts = <<>>
    /\ MessageOver(req, 0)
    /\ UNCHANGED <<chunk, parts>>

\* multipart_parser stops at what it does not understand.
MultipartError ==
    /\ ppc = "multipart" /\ parts # <<>>
    /\ Head(parts)[1] \notin {"name", "value", "data", "over", "bodyend"}
    /\ PartFails
    /\ UNCHANGED chunk

-----------------------------------------------------------------------------
http_parser_execute ==
    \/ MethodOrVersion
    \/ SyntaxError
    \/ ss_on_url
    \/ ss_on_header_field
    \/ ss_on_header_value
    \/ ss_on_headers_complete
    \/ ss_on_body
    \/ ss_on_message_complete
    \/ ss_on_multipart_name
    \/ ss_on_multipart_value
    \/ ss_on_multipart_data
    \/ ss_on_multipart_data_over
    \/ ss_on_multipart_body_end
    \/ MultipartEnds
    \/ MultipartError

Executed == ppc = "callbacks" /\ (chunk = <<>> \/ parser.errno)

\* What parse_request returns then; what is left of chunk was not parsed.
ParseResult ==
    IF chunk # <<>> THEN "error"
    ELSE IF req._parse_err # "none" THEN req._parse_err
    ELSE IF req._parse_part # "PARSE_REQ_OVER" THEN "NEED_MORE_STATUS" ELSE "over"

=============================================================================
