----------------------------- MODULE MCHttpServer -----------------------------
(***************************************************************************)
(* Two connections: a plain request of every route beside the creation of  *)
(* a session, and the creation in every form beside one plain request.     *)
(***************************************************************************)
EXTENDS HttpServer
CONSTANTS c1, c2

Plain == {Request(r, <<LF>>, <<>>, <<>>) : r \in Routes \ {"create"}}

Forms == {
    Request("create", CRLF, <<"length2">>, <<"{", "}">>),
    Request("create", <<LF>>, <<"other", "length2">>, <<LF, LF>>),
    Request("create", CRLF, <<"length2">>, <<LF, LF, "more">>),
    Request("create", CRLF, <<"length9", "length1">>, <<"{", "}">>),
    Request("create", CRLF, <<"length9">>, <<"{">>),
    Request("bad", <<LF>>, <<>>, <<>>),
    Request("create", CRLF, <<"other", "other", "other">>, <<>>) }

Usual == Request("create", CRLF, <<"length2">>, <<"{", "}">>)
Show == CHOOSE p \in Plain : p.line = "session"

MCRequests ==
    LET Pair(r, q) == [c \in {c1, c2} |-> IF c = c1 THEN r ELSE q] IN
    {Pair(Show, f) : f \in Forms} \cup {Pair(p, Usual) : p \in Plain}

\* a watcher of the stream, and somebody who looks at the session
Watch == CHOOSE p \in Plain : p.line = "stream"
WatcherRequests == {[c \in {c1, c2} |-> IF c = c1 THEN Watch ELSE Show]}

MCThreads == Conns \cup {Worker}
MCSessions == Conns \cup {FirstSession}
=============================================================================
