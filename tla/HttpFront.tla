------------------------------- MODULE HttpFront -------------------------------
(***************************************************************************)
(* The middleware chain every request passes: gzip around recover around   *)
(* the rate limiter around the router and its handlers.  A response is     *)
(* followed from its header to its last byte; its content is reduced to    *)
(* the number of gzip layers around it.                                    *)
(***************************************************************************)
EXTENDS RateLimiter, Sequences

CONSTANTS
  Writer,         \* gzip.Writer objects of the pool
  AcceptEncoding, \* Accept-Encoding headers: sequences of [coding, q]
  IfNoneMatch,    \* If-None-Match headers: sequences of tags
  Version         \* contents of a cacheable resource

ASSUME FrontAssumption == None \notin Writer \cup Req

VARIABLES
  limiting,  \* RATE_LIMIT_ENABLED
  pc,        \* where each request is
  method,
  gz,        \* the middleware wrapped its ResponseWriter
  wanted,    \* the client takes gzip, by the meaning of its header
  resp,      \* the response on the wire
  writer,    \* the gzip.Writer it holds
  dest       \* where every gzip.Writer writes: a request, or None for io.Discard

frontVars == <<limiting, pc, method, gz, wanted, resp, writer, dest>>
vars == <<limiterVars, frontVars>>

(***************************************************************************)
(* Headers.                                                                *)
(***************************************************************************)
\* Mutant: gzip is looked for and its quality is not.
AcceptsGzipNamed(header) == \E i \in 1..Len(header) : header[i].coding = "gzip"

\* The first gzip decides; without one, the last wildcard.  q is the value of
\* the part's last q parameter, 1 without one and 0 when it does not parse.
AcceptsGzip(header) ==
  LET At(c) == {i \in 1..Len(header) : header[i].coding = c}
  IN  IF At("gzip") # {}
      THEN \E i \in At("gzip") : header[i].q > 0 /\ \A j \in At("gzip") : i <= j
      ELSE \E i \in At("*") : header[i].q > 0 /\ \A j \in At("*") : j <= i

\* A tag is [weak, of]: a weak or strong validator of a version, or of "*".
OpaqueETag(tag) == tag.of

EtagMatches(header, etag) ==
  \E i \in 1..Len(header) :
    header[i].of = "*" \/ OpaqueETag(header[i]) = OpaqueETag(etag)

(***************************************************************************)
(* Responses.  ce, len and data count gzip layers: the ones the header     *)
(* declares, the ones of the body whose size is the Content-Length, and    *)
(* the ones of what the handler writes; -1 stands for no length and        *)
(* nothing written.  sent has the layers of every piece on the wire, cut   *)
(* says that they end before the Content-Length, done that the stream was  *)
(* completed.  A "mixed" response has recover's JSON in it besides the     *)
(* handler's own header or body.                                           *)
(***************************************************************************)
Response(status, type, layers, len, data) ==
  [status |-> status, type |-> type, ce |-> layers, len |-> len, data |-> data,
   sent |-> {}, cut |-> FALSE, done |-> TRUE]

NoResponse == Response(0, "none", 0, -1, -1)

Json(status) == Response(status, "json", 0, -1, 0)
Plain == Response(200, "text", 0, -1, 0)
Empty(status) == Response(status, "none", 0, -1, -1)

\* serveStaticAsset: the body compressed at startup, when the client takes it.
Asset(r) == LET n == IF gz[r] THEN 1 ELSE 0
            IN  Response(200, "html", n, n, IF method[r] = "HEAD" THEN -1 ELSE n)

StatusAllowsBody(status) == status >= 200 /\ status # 204 /\ status # 304
Compressible(type) == type \in {"json", "html"}

\* What the router's handlers may answer; the mux sends a HEAD to the GET
\* handlers and answers by itself what no pattern matches.  200 stands for every
\* status that allows a body: writeError's are written like any other JSON.
Cached(body) ==
  {h \in {Empty(304), body} : \E header \in IfNoneMatch, v \in Version :
     h = IF EtagMatches(header, [weak |-> TRUE, of |-> v]) THEN Empty(304) ELSE body}

Handled(r) ==
  IF method[r] \in {"GET", "HEAD"}
  THEN {Json(200), Empty(204)} \cup Cached(Json(200)) \cup Cached(Asset(r))
  ELSE {Json(200), Empty(204), Plain}

Init ==
  /\ LimiterInit
  /\ limiting \in BOOLEAN
  /\ pc = [r \in Req |-> "idle"]
  /\ method = [r \in Req |-> "GET"]
  /\ gz = [r \in Req |-> FALSE] /\ wanted = [r \in Req |-> FALSE]
  /\ resp = [r \in Req |-> NoResponse]
  /\ writer = [r \in Req |-> None]
  /\ dest = [w \in Writer |-> None]

Set(f, r, v) == [f EXCEPT ![r] = v]

\* RFC 9110: what a client means by its header.
Wants(header) ==
  LET Of(c) == {header[i].q : i \in {j \in 1..Len(header) : header[j].coding = c}}
  IN  IF Of("gzip") # {} THEN Of("gzip") # {0} ELSE \E q \in Of("*") : q > 0

\* gzipMiddleware wraps the writer, or not; then the limiter, or the router.
Arrive(r) ==
  /\ pc[r] = "idle"
  /\ \E m \in {"GET", "HEAD", "POST"}, header \in AcceptEncoding :
       /\ method' = Set(method, r, m)
       /\ gz' = Set(gz, r, AcceptsGzip(header))
       /\ wanted' = Set(wanted, r, Wants(header))
       /\ IF limiting /\ m # "GET"
          THEN pc' = Set(pc, r, "limiter") /\ ReadClock(r)
          ELSE pc' = Set(pc, r, "handler") /\ UNCHANGED limiterVars
  /\ UNCHANGED <<limiting, resp, writer, dest>>

Limit(r) ==
  /\ pc[r] = "limiter"
  /\ \/ Touch(r) /\ UNCHANGED pc
     \/ Admit(r) /\ pc' = Set(pc, r, "handler")
     \/ Refuse(r) /\ pc' = Set(pc, r, "limited")
  /\ UNCHANGED <<limiting, method, gz, wanted, resp, writer, dest>>

Compresses(r, h) ==
  gz[r] /\ method[r] # "HEAD" /\ StatusAllowsBody(h.status) /\ h.ce = 0 /\ Compressible(h.type)

\* WriteHeader, through the wrapper when there is one.
WriteHeader(r, h) ==
  /\ pc' = Set(pc, r, "body")
  /\ IF Compresses(r, h)
     THEN \E w \in {x \in Writer : \A q \in Req : writer[q] # x} :
            /\ writer' = Set(writer, r, w)
            /\ dest' = Set(dest, w, r)
            /\ resp' = Set(resp, r, [h EXCEPT !.ce = 1, !.len = -1, !.done = FALSE])
     ELSE resp' = Set(resp, r, h) /\ UNCHANGED <<writer, dest>>
  /\ UNCHANGED <<limiterVars, limiting, method, gz, wanted>>

Handle(r) ==
  \/ pc[r] = "limited" /\ WriteHeader(r, Json(200))
  \/ pc[r] = "handler" /\ \E h \in Handled(r) : WriteHeader(r, h)

\* The layers that Write adds.
Layer(r) == IF writer[r] = None THEN 0 ELSE 1

\* What the handler writes after its header, in one piece.
Written(r) == IF resp[r].data = -1 THEN {} ELSE {resp[r].data + Layer(r)}

\* The pieces on the wire; net/http drops a body that must not be there.
Body(r, pieces, cut) ==
  LET bodiless == method[r] = "HEAD" \/ ~StatusAllowsBody(resp[r].status)
  IN  [resp[r] EXCEPT !.sent = IF bodiless THEN {} ELSE pieces, !.cut = cut /\ ~bodiless]

\* recover's JSON has not the length that the handler declared for its own body.
WriteBody(r) ==
  /\ pc[r] = "body"
  /\ pc' = Set(pc, r, "close")
  /\ resp' = Set(resp, r, Body(r, Written(r),
       resp[r].len # -1 /\ (resp[r].type = "mixed" \/ resp[r].len \notin Written(r))))
  /\ UNCHANGED <<limiterVars, limiting, method, gz, wanted, writer, dest>>

\* recover's JSON goes out by the handler's ResponseWriter.  The coding and the
\* length that serveStaticAsset may have set by then stay in its header.
Recovered(r) ==
  {Json(500)} \cup {[Json(500) EXCEPT !.type = "mixed", !.ce = Asset(r).ce, !.len = n] :
                    n \in IF method[r] = "POST" THEN {} ELSE {-1, Asset(r).len}}

\* recover's JSON after a header that is out, and after what the handler wrote.
\* net/http refuses it when the declared length has been written.
Followed(r, wrote) ==
  LET full == resp[r].len # -1 /\ wrote = Written(r)
  IN  [Body(r, IF full THEN wrote ELSE wrote \cup {Layer(r)}, resp[r].len # -1 /\ ~full)
         EXCEPT !.type = "mixed"]

\* Mutant: recover is the outermost middleware, so a panic passes close by.
PanicPastClose(r) ==
  \/ pc[r] = "handler" /\ \E h \in Recovered(r) : WriteHeader(r, h)
  \/ /\ pc[r] = "body" /\ resp[r].status # 500
     /\ pc' = Set(pc, r, "sent")
     /\ UNCHANGED <<limiterVars, limiting, method, gz, wanted, resp, writer, dest>>

\* A handler panics and recoverMiddleware answers, before the header or after it.
\* Only recover's own header has status 500 here, and nothing panics after it.
Panic(r) ==
  \/ pc[r] = "handler" /\ \E h \in Recovered(r) : WriteHeader(r, h)
  \/ /\ pc[r] = "body" /\ resp[r].status # 500
     /\ pc' = Set(pc, r, "close")
     /\ \E wrote \in {{}, Written(r)} : resp' = Set(resp, r, Followed(r, wrote))
     /\ UNCHANGED <<limiterVars, limiting, method, gz, wanted, writer, dest>>

\* Mutant: the writer goes back to the pool while it still writes to w.
CloseUnreset(r) ==
  /\ pc[r] = "close"
  /\ pc' = Set(pc, r, "sent")
  /\ writer' = Set(writer, r, None)
  /\ resp' = Set(resp, r, [resp[r] EXCEPT !.done = TRUE])
  /\ UNCHANGED <<limiterVars, limiting, method, gz, wanted, dest>>

\* close flushes the stream, resets the writer and returns it to the pool.
Close(r) ==
  /\ pc[r] = "close"
  /\ pc' = Set(pc, r, "sent")
  /\ writer' = Set(writer, r, None)
  /\ dest' = IF writer[r] = None THEN dest ELSE Set(dest, writer[r], None)
  /\ resp' = Set(resp, r, [resp[r] EXCEPT !.done = TRUE])
  /\ UNCHANGED <<limiterVars, limiting, method, gz, wanted>>

\* net/http ends the exchange.
Finish(r) ==
  /\ pc[r] = "sent"
  /\ pc' = Set(pc, r, "idle")
  /\ method' = Set(method, r, "GET")
  /\ gz' = Set(gz, r, FALSE) /\ wanted' = Set(wanted, r, FALSE)
  /\ resp' = Set(resp, r, NoResponse)
  /\ UNCHANGED <<limiterVars, limiting, writer, dest>>

Next ==
  \/ \E r \in Req : Arrive(r) \/ Limit(r) \/ Handle(r) \/ WriteBody(r) \/ Panic(r)
                    \/ Close(r) \/ Finish(r)
  \/ limiting /\ (Sweep \/ LimiterTick) /\ UNCHANGED frontVars

Spec == Init /\ [][Next]_vars

-----------------------------------------------------------------------------
TypeOK ==
  /\ LimiterTypeOK
  /\ limiting \in BOOLEAN
  /\ pc \in [Req -> {"idle", "limiter", "limited", "handler", "body", "close", "sent"}]
  /\ method \in [Req -> {"GET", "HEAD", "POST"}]
  /\ gz \in [Req -> BOOLEAN] /\ wanted \in [Req -> BOOLEAN]
  /\ writer \in [Req -> Writer \cup {None}]
  /\ dest \in [Writer -> Req \cup {None}]
  /\ \A r \in Req : resp[r].ce \in 0..1 /\ resp[r].len \in -1..1 /\ resp[r].sent \subseteq 0..2

\* A client can read what it gets: the stream was completed, and every piece of
\* the body has the coding and all of them the length that the header declares,
\* also when a panic put recover's JSON behind the handler's in a compressed
\* stream.  The exception is a panic in serveStaticAsset once it has declared a
\* coding or a length, which recover's JSON does not have: the client is then told,
\* by status 500 or by a body that ends before its Content-Length.
Decodable ==
  \A r \in Req : pc[r] = "sent" =>
    /\ resp[r].done
    /\ \/ resp[r].sent \subseteq {resp[r].ce} /\ ~resp[r].cut
       \/ resp[r].type = "mixed" /\ (resp[r].status = 500 \/ resp[r].cut)

\* No client is sent a coding that its Accept-Encoding excludes.
OnlyIfWanted == \A r \in Req : resp[r].ce = 1 => wanted[r]

\* A pooled gzip.Writer belongs to one open response or to none, and one that
\* is in the pool can no longer write into a response.
WritersAreClean ==
  \A w \in Writer, r \in Req : dest[w] = r <=> writer[r] = w
=============================================================================
