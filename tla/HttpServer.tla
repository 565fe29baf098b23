------------------------------ MODULE HttpServer ------------------------------
(***************************************************************************)
(* The HTTP side of the feature server: Run, HandleClient, ReadHttpRequest,*)
(* HandleRequest, WriteHttpResponse and the connection of a stream, over   *)
(* the locks of SessionLocks.                                              *)
(*                                                                         *)
(* A request is a sequence of words: the request line, header lines, line  *)
(* ends and body words.  It arrives in pieces of any size; the peer may    *)
(* stop sending, close its end or reset the connection at any moment.  One *)
(* more thread stands for the SCTP workers, which settle features.         *)
(***************************************************************************)
EXTENDS SessionLocks

CONSTANTS
    Conns,           \* connections, each with the thread that serves it
    Worker,          \* an SCTP worker
    FirstSession,    \* a session that exists from the start
    Requests,        \* what the connections are asked, a function of Conns each
    MaxHeader        \* 1 << 20, in words

ASSUME ThreadsAssumption == Threads = Conns \cup {Worker} /\ Worker \notin Conns
ASSUME SessionsAssumption == Sessions = Conns \cup {FirstSession}

CR == "CR"
LF == "LF"
CRLF == <<CR, LF>>

\* header lines: content-length with a number, or anything else
Lengths == [length0 |-> 0, length1 |-> 1, length2 |-> 2, length9 |-> 9]

\* "bad": a request line of less than three words; "other": no such route
Routes == {"create", "session", "index", "feature", "summary", "stream", "other"}

\* a request as the client means it, and the words it sends; eol is its line end
Request(line, eol, headers, payload) ==
    [line |-> line, headers |-> headers, body |-> payload,
     words |-> <<line>> \o eol
               \o FlattenSeq([i \in DOMAIN headers |-> <<headers[i]>> \o eol])
               \o eol \o payload]

VARIABLES
    died,            \* why the process has ended, "" while it runs
    request,         \* history: what the peer means to send
    got,             \* how much of it has been read
    peer,            \* "open", "closed" (its end) or "reset"
    step,            \* of the connection's thread
    body,            \* of the request that is handled
    session,         \* the session a request names
    status           \* of the response to be written

conn_vars == <<died, request, got, peer, step, body, session, status>>
http_vars == <<conn_vars, lock_vars>>

HttpInit ==
    /\ died = ""
    /\ request \in Requests
    /\ got = [c \in Conns |-> 0]
    /\ peer = [c \in Conns |-> "open"]
    /\ step = [c \in Conns |-> "queued"]
    /\ body = [c \in Conns |-> <<>>]
    /\ session = [c \in Conns |-> FirstSession]
    /\ status = [c \in Conns |-> 0]
    /\ sessions = {FirstSession}
    /\ owner = [m \in Mutexes |-> Nobody]
    /\ \E e \in 1..Executions :
          plan = [t \in Threads |-> IF t = Worker THEN Settle(FirstSession, e) ELSE <<>>]

-----------------------------------------------------------------------------
(* Parsing, when n words of s have been read *)

Occurs(pattern, s, i, n) ==
    i + Len(pattern) - 1 <= n /\ SubSeq(s, i, i + Len(pattern) - 1) = pattern

Find(pattern, s, n) ==
    LET hits == {i \in 1..n : Occurs(pattern, s, i, n)} IN
    IF hits = {} THEN 0 ELSE CHOOSE i \in hits : \A j \in hits : i <= j

\* header_end: "\r\n\r\n" anywhere, or else "\n\n"
HeaderEnd(s, n) ==
    LET crlf == Find(CRLF \o CRLF, s, n) IN
    IF crlf > 0 THEN crlf ELSE Find(<<LF, LF>>, s, n)

\* Mutant: a header that ends in "\r\n\r\n" is four characters longer.
BodyOffsetTwo(s, n) == HeaderEnd(s, n) + 2

BodyOffset(s, n) ==
    LET end == HeaderEnd(s, n) IN
    IF Occurs(CRLF \o CRLF, s, end, n) THEN end + 4 ELSE end + 2

\* the request line: up to the first '\n', without the '\r' it may end in
RequestLine(s, n) ==
    LET header == HeaderEnd(s, n) - 1
        lf == Find(<<LF>>, s, header)
        last == IF lf = 0 THEN header ELSE lf - 1
    IN  IF last > 0 /\ s[last] = CR THEN SubSeq(s, 1, last - 1) ELSE SubSeq(s, 1, last)

\* content_length: the last one counts, none is zero.
ContentLength(s, n) ==
    LET at == {i \in 1..HeaderEnd(s, n) - 1 : s[i] \in DOMAIN Lengths} IN
    IF at = {} THEN 0 ELSE Lengths[s[CHOOSE i \in at : \A j \in at : i >= j]]

\* A request as clients send it: no line end within a line, one kind of line end.
\* (A body with an empty CRLF line after a header of LF lines is cut elsewhere.)
WellFormed(r) ==
    /\ r.line \in STRING \ {CR, LF} /\ r.line \notin DOMAIN Lengths
    /\ r.headers \in Seq(STRING \ {CR, LF}) /\ r.body \in Seq(STRING)
    /\ \E eol \in {CRLF, <<LF>>} :
        /\ r = Request(r.line, eol, r.headers, r.body)
        /\ eol = <<LF>> => Find(CRLF \o CRLF, r.body, Len(r.body)) = 0

ASSUME RequestsAssumption == \A q \in Requests, c \in Conns : WellFormed(q[c])

-----------------------------------------------------------------------------
(* The peer *)

Alive == died = ""

Close(c) ==
    /\ Alive /\ peer[c] = "open"
    /\ peer' = [peer EXCEPT ![c] = "closed"]
    /\ UNCHANGED <<died, request, got, step, body, session, status, lock_vars>>

Reset(c) ==
    /\ Alive /\ peer[c] # "reset" /\ step[c] # "closed"
    /\ peer' = [peer EXCEPT ![c] = "reset"]
    /\ UNCHANGED <<died, request, got, step, body, session, status, lock_vars>>

-----------------------------------------------------------------------------
(* Run, HandleClient and ReadHttpRequest *)

Goto(c, next) == step' = [step EXCEPT ![c] = next]

Respond(c, code) ==
    /\ Goto(c, "write")
    /\ status' = [status EXCEPT ![c] = code]

\* A connection that was reset while it waited makes accept fail with
\* ECONNABORTED, and Run returns; set_http_timeout may fail on one reset later.
Accept(c) ==
    /\ Alive /\ step[c] = "queued"
    /\ \/ Goto(c, "head") /\ UNCHANGED <<died, status>>
       \/ peer[c] = "reset" /\ Respond(c, 500) /\ UNCHANGED died
       \/ peer[c] = "reset" /\ died' = "accept" /\ UNCHANGED <<step, status>>
    /\ UNCHANGED <<request, got, peer, body, session, lock_vars>>

\* what is done for a request on a session that exists
Answers(line, s) ==
    CASE line = "session" -> {SessionJson(s)}
      [] line = "summary" -> {SummaryJson(s, overdue) : overdue \in SUBSET {1}}
      [] line = "feature" -> UNION {FeatureRequest(s, e, overdue) :
                                        e \in 1..Executions, overdue \in SUBSET {1}}
      [] line = "stream" -> {<<>>}

\* HandleRequest, by route; on a session, by what FindSession will say
Dispatch(c) ==
    LET line == request[c].line
        Plan(p, code) == plan' = [plan EXCEPT ![c] = p] /\ status' = [status EXCEPT ![c] = code]
        For(s) == session' = [session EXCEPT ![c] = s]
    IN
    /\ Goto(c, "handle")
    /\ \/ line = "create" /\ For(c) /\ Plan(CreateSession(c), 201)
       \/ line = "create" /\ For(c) /\ Plan(<<>>, 400)         \* not a JSON object
       \/ line = "index" /\ UNCHANGED session /\ Plan(SessionIndexHtml, 200)
       \/ line = "other" /\ UNCHANGED session /\ Plan(<<>>, 404)
       \/ /\ line \in {"session", "feature", "summary", "stream"}
          /\ \E s \in Sessions :
              /\ For(s)
              /\ \/ s \notin sessions /\ Plan(FindSession, 404)
                 \/ /\ s \in sessions
                    /\ \E p \in Answers(line, s) : Plan(FindSession \o p, 200)

Words(c) == request[c].words

\* ReadHttpRequest returns; its locals die.
Refuse(c, code) ==
    /\ Respond(c, code) /\ got' = [got EXCEPT ![c] = 0]
    /\ UNCHANGED <<body, session, plan>>

\* The request is complete once the body is as long as was announced.
HandleOrReadOn(c, n) ==
    LET start == BodyOffset(Words(c), n)
        length == ContentLength(Words(c), n) IN
    \/ /\ n >= start + length - 1
       /\ body' = [body EXCEPT ![c] = SubSeq(Words(c), start, start + length - 1)]
       /\ got' = [got EXCEPT ![c] = 0]
       /\ Dispatch(c)
    \/ /\ n < start + length - 1
       /\ Goto(c, "body") /\ got' = [got EXCEPT ![c] = n]
       /\ UNCHANGED <<body, session, status, plan>>

\* what follows the read that completes the header
ParseHeader(c, n) ==
    LET line == RequestLine(Words(c), n) IN
    \/ (line = <<>> \/ Head(line) \notin Routes) /\ Refuse(c, 400)
    \/ line # <<>> /\ Head(line) \in Routes /\ HandleOrReadOn(c, n)

\* a read after which there are n words
Arrives(c, n) ==
    /\ Alive /\ peer[c] # "reset"
    /\ n > got[c]
    /\ UNCHANGED <<died, request, peer, sessions, owner>>

ReadHeader(c, n) ==
    /\ step[c] = "head" /\ Arrives(c, n)
    /\ \/ n > MaxHeader /\ Refuse(c, 400)
       \/ n <= MaxHeader /\ HeaderEnd(Words(c), n) # 0 /\ ParseHeader(c, n)
       \/ /\ n <= MaxHeader /\ HeaderEnd(Words(c), n) = 0
          /\ got' = [got EXCEPT ![c] = n]
          /\ UNCHANGED <<step, body, session, status, plan>>

ReadBody(c, n) == step[c] = "body" /\ Arrives(c, n) /\ HandleOrReadOn(c, n)

\* Mutant: set_http_timeout sets no SO_RCVTIMEO.
ReadEndsOnlyByPeer(c) ==
    /\ Alive /\ step[c] \in {"head", "body"} /\ peer[c] # "open"
    /\ Refuse(c, 400)
    /\ UNCHANGED <<died, request, peer, sessions, owner>>

\* Nothing for five seconds; or the end of the input, or an error
ReadEnds(c) ==
    /\ Alive /\ step[c] \in {"head", "body"}
    /\ Refuse(c, IF step[c] = "head" /\ peer[c] = "open" THEN 408 ELSE 400)
    /\ UNCHANGED <<died, request, peer, sessions, owner>>

Read(c) ==
    ReadEnds(c) \/ \E n \in 1..Len(Words(c)) : ReadHeader(c, n) \/ ReadBody(c, n)

-----------------------------------------------------------------------------
(* Handlers and answers *)

\* "scan": the SummaryJson of a stream
Handle(c) ==
    /\ Alive /\ step[c] \in {"handle", "scan"}
    /\ \/ LockStep(c) /\ UNCHANGED step
       \/ /\ plan[c] = <<>>
          /\ Goto(c, IF step[c] = "scan" THEN "event"
                     ELSE IF request[c].line = "stream" /\ status[c] = 200 THEN "stream"
                     ELSE "write")
          /\ UNCHANGED lock_vars
    /\ UNCHANGED <<died, request, got, peer, body, session, status>>

\* write_all.  A peer that has closed answers the first write with a reset; a
\* write after a reset raises SIGPIPE, which ends the process.
Write(c, next) ==
    \/ peer[c] = "open" /\ Goto(c, next) /\ UNCHANGED <<died, peer>>
    \/ peer[c] = "open" /\ Goto(c, "close") /\ UNCHANGED <<died, peer>>   \* EAGAIN
    \/ /\ peer[c] = "closed" /\ Goto(c, next)
       /\ peer' = [peer EXCEPT ![c] = "reset"] /\ UNCHANGED died
    \/ peer[c] = "reset" /\ died' = "SIGPIPE" /\ UNCHANGED <<step, peer>>

WriteHttpResponse(c) ==
    /\ Alive /\ step[c] = "write"
    /\ Write(c, "close")
    /\ UNCHANGED <<request, got, body, session, status, lock_vars>>

\* HandleSummaryStream: the header, then every 250 ms a summary if it differs
\* from the last one, a heartbeat, or nothing
BeginStream(c) ==
    /\ Alive /\ step[c] = "stream"
    /\ Write(c, "pause")
    /\ UNCHANGED <<request, got, body, session, status, lock_vars>>

WriteEvent(c) ==
    /\ Alive /\ step[c] = "event"
    /\ \/ Write(c, "pause")
       \/ Goto(c, "pause") /\ UNCHANGED <<died, peer>>
    /\ UNCHANGED <<request, got, body, session, status, lock_vars>>

NextSummary(c) ==
    /\ Alive /\ step[c] = "pause"
    /\ Goto(c, "scan")
    /\ plan' = [plan EXCEPT ![c] = SummaryJson(session[c], {})]
    /\ UNCHANGED <<died, request, got, peer, body, session, status, sessions, owner>>

\* the end of the thread that Run has made for the connection
CloseConnection(c) ==
    /\ Alive /\ step[c] = "close"
    /\ Goto(c, "closed")
    /\ UNCHANGED <<died, request, got, peer, body, session, status, lock_vars>>

\* An SCTP worker ends its feature, once.
WorkerEnds == Alive /\ LockStep(Worker) /\ UNCHANGED conn_vars

-----------------------------------------------------------------------------
Answer(c) == WriteHttpResponse(c) \/ BeginStream(c) \/ WriteEvent(c) \/ NextSummary(c)
             \/ CloseConnection(c)
Serve(c) == Accept(c) \/ Read(c) \/ Handle(c) \/ Answer(c)

HttpNext ==
    \/ \E c \in Conns : Close(c) \/ Reset(c) \/ Serve(c)
    \/ WorkerEnds

HttpSpec == HttpInit /\ [][HttpNext]_http_vars

\* Threads run, and a mutex that stays free is taken.  Peers owe nothing: a
\* read that returns nothing ends after five seconds.
HttpFairSpec ==
    /\ HttpSpec
    /\ \A c \in Conns : WF_http_vars(Accept(c) \/ ReadEnds(c) \/ Handle(c) \/ Answer(c))
    /\ WF_http_vars(WorkerEnds)

-----------------------------------------------------------------------------
(* Correctness *)

Declared(r) ==
    LET at == {i \in DOMAIN r.headers : r.headers[i] \in DOMAIN Lengths} IN
    IF at = {} THEN 0 ELSE Lengths[r.headers[CHOOSE i \in at : \A j \in at : i >= j]]

(* ReadHttpRequest hands on what the client has sent, whatever the pieces  *)
(* it arrived in and whichever line ends it uses: a handler runs only on a *)
(* whole request, with exactly the body the client announced, even if the  *)
(* body has blank lines or is followed by more.                            *)
HandledAsSent ==
    \A c \in Conns : step[c] \in {"handle", "stream", "scan", "event", "pause"} =>
        /\ request[c].line \in Routes
        /\ Len(request[c].body) >= Declared(request[c])
        /\ body[c] = SubSeq(request[c].body, 1, Declared(request[c]))

(* Every connection ends or is a stream that goes on: no read, write or    *)
(* mutex holds its thread for ever, whatever the client does.              *)
EveryConnectionEnds ==
    \A c \in Conns :
        <>(step[c] = "closed" \/ request[c].line = "stream" \/ ~Alive)

(* "Idle or completed sessions stay available until the server restarts."  *)
(* (the index page): a client that goes away does not end the process, of  *)
(* whose memory all sessions are part.                                     *)
SessionsStayAvailable == died # "SIGPIPE"
=============================================================================
