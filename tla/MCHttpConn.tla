----------------------------- MODULE MCHttpConn ------------------------------
(* Requests of each kind, and what they mean to a handler. *)
EXTENDS HttpConn

MCLowerCase == ("Content-" :> "content-") @@ ("Length" :> "length") @@ ("Type" :> "type")
               @@ ("Connection" :> "connection") @@ ("Keep-" :> "keep-") @@ ("Alive" :> "alive")

MCChr == << "2", "6" >> :> "&"

Tokens(kind, s) == [k \in DOMAIN s |-> <<kind, s[k]>>]

\* A request of the client; headers are pairs of name and value.
Sends(method, url, version, headers, body, keep, params, items, k) ==
    [stream |-> << <<"method", method>> >> \o Tokens("url", url) \o << <<"version", version>> >>
                \o FlattenSeq([h \in DOMAIN headers |-> Tokens("field", headers[h][1]) \o Tokens("value", headers[h][2])])
                \o << <<"end", [length |-> Len(body), keep |-> keep]>> >> \o Tokens("body", body),
     view   |-> [method |-> method, url |-> url, version |-> version,
                 headers |-> [n \in {ss_str_tolower(headers[h][1]) : h \in DOMAIN headers} |->
                                headers[CHOOSE h \in DOMAIN headers : ss_str_tolower(headers[h][1]) = n][2]],
                 body |-> body, params |-> params, items |-> items, k |-> k]]

KeepAlive == << <<"Connection">>, <<"Keep-", "Alive">> >>
Length(n) == << <<"Content-", "Length">>, <<n>> >>
Type(t) == << <<"Content-", "Type">>, t >>
Close == << <<"connection">>, <<"close">> >>

\* A query with an escape, a request for nothing, a bare request, a form, a
\* multipart form, a form without length, three that are broken, and one that
\* is too long.
Query == Sends("GET", <<"/a", "?", "k", "=", "%", "2", "6", "&", "k">>, "HTTP/1.1", <<KeepAlive>>, <<>>, TRUE,
               << << <<"k">>, <<"%", "2", "6">> >>, << <<"k">>, <<>> >> >>, <<>>, <<"&">>)
Wrong == Sends("POST", <<"/a">>, "HTTP/1.0", <<KeepAlive, Length("1")>>, <<"x">>, TRUE, <<>>, <<>>, <<>>)
Missing == Sends("GET", <<"/", "c">>, "HTTP/1.1", <<Close>>, <<>>, FALSE, <<>>, <<>>, <<>>)
Bare == Sends("GET", <<"/a">>, "HTTP/1.0", <<>>, <<>>, FALSE, <<>>, <<>>, <<>>)
Form == Sends("POST", <<"/b">>, "HTTP/1.1", <<KeepAlive, Type(<<"application/x-www-form-urlencoded">>), Length("4")>>,
              <<"k", "=", "+", "&">>, TRUE, << << <<"k">>, <<"+">> >>, << <<>>, <<>> >> >>, <<>>, <<" ">>)

Disposition(name, more) == <<"value", <<"form-data", ";", "name", "=", "\"", name, "\"">> \o more>>
Multipart == << <<"boundary", <<"B">> >>, <<"name", "Content-Disposition">>,
                Disposition("k", <<";", "filename", "=", "\"", "f", "\"">>),
                <<"name", "Content-Type">>, <<"value", <<"text">> >>, <<"data", <<"y">> >>, <<"data", <<"z">> >>, <<"over">>,
                <<"name", "Content-Disposition">>, Disposition("l", <<>>), <<"over">>, <<"bodyend">> >>
Upload == Sends("POST", <<"/b">>, "HTTP/1.1",
                <<Type(<<"multipart/form-data", ";", "boundary", "=", "B">>), Length("12")>>, Multipart, TRUE,
                << << <<"k">>, <<"y", "z">> >>, << <<"l">>, <<>> >> >>,
                << [is_file |-> TRUE, name |-> <<"k">>, filename |-> <<"f">>, content_type |-> <<"text">>,
                    data |-> <<"y", "z">>, parse_state |-> TRUE],
                   [is_file |-> FALSE, name |-> <<"l">>, filename |-> <<>>, content_type |-> <<>>,
                    data |-> <<>>, parse_state |-> TRUE] >>, <<"y", "z">>)
NoLength == Sends("POST", <<"/b">>, "HTTP/1.1", <<KeepAlive>>, <<>>, TRUE, <<>>, <<>>, <<>>)
Short(part2, keep) ==
    Sends("POST", <<"/b">>, "HTTP/1.1", <<Type(<<"multipart/form-data", ";", "boundary", "=", "B">>), Length("2")>>,
          <<Multipart[1], part2>>, keep, <<>>,
          << [is_file |-> FALSE, name |-> <<>>, filename |-> <<>>, content_type |-> <<>>, data |-> <<>>,
              parse_state |-> FALSE] >>, <<>>)
Unended == Short(Multipart[2], FALSE)
Broken == Short(<<"name", "Content-Type">>, TRUE)
Garbled == Short(<<"garbage">>, TRUE)
Long == Sends("POST", <<"/b">>, "HTTP/1.1", <<Length("20")>>, [k \in 1..20 |-> "x"], TRUE, <<>>, <<>>, <<>>)

MCRequests == {Query, Wrong, Missing, Bare, Form, Upload, NoLength, Broken, Garbled, Unended, Long}

MCResources ==
    (<<"/a">> :> [methods |-> {"GET"}, replies |-> {[code |-> 200, headers |-> {}, body |-> <<"json">>]}])
    @@ (<<"/b">> :> [methods |-> {"GET", "POST"},
                     replies |-> {[code |-> 200, headers |-> {}, body |-> <<"x", "y", "z">>],
                                  [code |-> 302, headers |-> {"Content-Type"}, body |-> <<>>]}])
=============================================================================
