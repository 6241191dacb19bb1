------------------------------ MODULE ApiServer ------------------------------
(***************************************************************************)
(* The service as its clients see it: main rejects or takes a              *)
(* configuration, and each request then runs through the middleware chain  *)
(*                                                                         *)
(*   request id -> security headers -> access log -> panic recovery        *)
(*     -> audit -> handler                                                 *)
(*                                                                         *)
(* to a handler that edits a monitor zone, pages through the audit trail   *)
(* or only reads.  A request is the goroutine of a worker; its `step' is   *)
(* what it does next, and a step makes at most one store call.  What an    *)
(* edit does to the monitor zone is in InterlockRaces.                     *)
(***************************************************************************)
EXTENDS Configuration, Sequences, FiniteSets

CONSTANTS
  Workers,           \* goroutines that serve requests
  Environments,      \* environments main may be started in
  Monitors,          \* ids requests name; those that are stored:
  StoredMonitors,
  ClientIds,         \* trace ids that clients send and may send twice
  UnsafeId,          \* a trace id with control characters, or too long a one
  HeaderOf,          \* the X-Request-Id header of each request, by number
  Absent, Invalid,   \* a header, parameter or date that is missing or malformed
  Limits,            \* texts of the `limit' parameter
  DefaultListLimit, MaxListLimit,
  EarlierEntries,    \* audit entries of earlier lives of the service
  MaxRequests,       \* bound: requests served
  MaxTime            \* bound: clock ticks

ASSUME ServerAssumption ==
  /\ StoredMonitors \subseteq Monitors
  /\ {DefaultListLimit, MaxListLimit, EarlierEntries, MaxRequests, MaxTime} \subseteq Nat
  /\ DefaultListLimit \in 1 .. MaxListLimit
  /\ Limits \subseteq Nat \cup {Absent, Invalid}
  /\ (ClientIds \cup {UnsafeId, Absent, Invalid}) \cap Nat = {}
  /\ HeaderOf \in [1 .. MaxRequests -> ClientIds \cup {UnsafeId, Absent}]
  /\ Absent # Invalid /\ UnsafeId \notin ClientIds /\ Absent \notin ClientIds
  \* Any text is a string; what strconv.Atoi accepts is an integer.
  /\ \A e \in Environments :
       /\ \A s \in DOMAIN e \ Parsed : e[s] # Garbage
       /\ \A s \in DOMAIN e \cap Integral :
            e[s] \notin {Empty, Garbage} => e[s].value \in Int

VARIABLES
  phase,     \* "starting", "serving" or "exited"
  env,       \* the environment of the process
  config,    \* the configuration main has built
  entries,   \* the audit trail, in the order it was appended
  now,       \* the clock
  requests,  \* the request of each worker, or the last one it answered
  served,    \* requests received so far; they are numbered by it
  pager      \* the client that pages through the audit trail

vars == <<phase, env, config, entries, now, requests, served, pager>>

process == <<phase, env, config>>

-----------------------------------------------------------------------------
\* Startup.

\* Mutant of Main: the lenient FromEnv replaces FromEnvStrict.
MainLenient ==
  /\ phase = "starting"
  /\ LET read == fromEnv(env, FALSE)
     IN  /\ config' = read.config
         /\ phase' = IF /\ ~read.failed
                        /\ ParseLevelAccepts(read.config.LogLevel)
                        /\ Validate(read.config)
                     THEN "serving" ELSE "exited"
  /\ UNCHANGED <<env, entries, now, requests, served, pager>>

Main ==
  /\ phase = "starting"
  /\ LET read == fromEnv(env, TRUE)
     IN  /\ config' = read.config
         /\ phase' = IF /\ ~read.failed
                        /\ ParseLevelAccepts(read.config.LogLevel)
                        /\ Validate(read.config)
                     THEN "serving" ELSE "exited"
  /\ UNCHANGED <<env, entries, now, requests, served, pager>>

-----------------------------------------------------------------------------
\* Requests, trace ids and responses.

\* What requests that only read are answered: a health check or a static file,
\* the app shell for any path that is neither, an API path without a route.
Plain == [health_or_asset |-> 200, shell |-> 200, no_route |-> 404]

\* "edit" is POST /api/monitors/{id}/maintenance or .../calibration.
Kinds == DOMAIN Plain \cup {"edit", "audit"}

\* NewAuditLogger is given the prefixes of these paths.
SkippedKinds == {"health_or_asset"}

\* Mutant of TraceId: what the client sends is taken as it is.
TraceIdUnchecked(header, n) == IF header = Absent THEN n ELSE header

\* Trace ids a client may repeat are honoured, unsafe ones are replaced.
TraceId(header, n) == IF header \in ClientIds THEN header ELSE n

Idle == [step |-> "idle"]

IsFree(w) == requests[w].step \in {"idle", "done", "panicked"}

\* The status Fail answers an error code with.
FailStatus(code) ==
  CASE code = "not_found" -> 404 [] code = "invalid_input" -> 400
    [] code = "conflict" -> 409 [] code = "unauthorized" -> 401 [] OTHER -> 500

\* WriteHeader of the nested responseRecorders: the first status is the one
\* that the client and the audit entry get.
WriteHeader(r, code) == IF r.status = 0 THEN [r EXCEPT !.status = code] ELSE r

GoTo(w, r, step) == requests' = [requests EXCEPT ![w] = [r EXCEPT !.step = step]]

\* The handler has written its response and is about to return; what it read
\* and what it was asked is of no use any more.
Respond(w, r, code) ==
  GoTo(w, [WriteHeader(r, code) EXCEPT !.id = Absent, !.body = Absent,
                                       !.at = 0], "answered")

At(w, step) == requests[w].step = step

Receive(w, kind, id, body) ==
  /\ phase = "serving"
  /\ IsFree(w)
  /\ served < MaxRequests
  /\ served' = served + 1
  /\ requests' = [requests EXCEPT ![w] =
       [n |-> served + 1, step |-> "handler", kind |-> kind,
        trace |-> TraceId(HeaderOf[served + 1], served + 1), id |-> id, body |-> body,
        status |-> 0, at |-> 0]]
  /\ UNCHANGED <<process, entries, now>>

ReceivePlain(w, kind) ==
  /\ kind \in DOMAIN Plain
  /\ Receive(w, kind, Absent, Absent)
  /\ UNCHANGED pager

\* The body of an edit decodes, its date parses, or not.
Bodies == {Absent, Invalid}

ReceiveEdit(w, id, body) ==
  /\ Receive(w, "edit", id, body)
  /\ UNCHANGED pager

-----------------------------------------------------------------------------
\* Handlers that only read.

ServePlain(w) ==
  LET r == requests[w]
  IN  /\ At(w, "handler")
      /\ r.kind \in DOMAIN Plain
      /\ Respond(w, r, Plain[r.kind])
      /\ UNCHANGED <<process, entries, now, served, pager>>

-----------------------------------------------------------------------------
\* SetMaintenance and SetCalibration, from the body to the business entry,
\* which is maintenance.start or maintenance.end for the former and
\* maintenance.end for the latter.

\* decodeJSON, parseTime and MonitorZones().Get.
EditGet(w) ==
  LET r == requests[w]
  IN  /\ At(w, "handler")
      /\ r.kind = "edit"
      /\ \/ r.body = Invalid /\ Respond(w, r, FailStatus("invalid_input"))
         \/ /\ r.body # Invalid /\ r.id \notin StoredMonitors
            /\ Respond(w, r, FailStatus("not_found"))
         \/ r.body # Invalid /\ r.id \in StoredMonitors /\ GoTo(w, r, "update")
      /\ UNCHANGED <<process, entries, now, served, pager>>

\* MonitorZones().Update.  When the save fails the handler answers 500 and
\* logs nothing, although the memory has changed.
EditUpdate(w) ==
  LET r == requests[w]
  IN  /\ At(w, "update")
      /\ \/ GoTo(w, [r EXCEPT !.id = Absent], "log")
         \/ Respond(w, r, FailStatus("internal"))
      /\ UNCHANGED <<process, entries, now, served, pager>>

\* AuditService.Log stamps the entry, then Create takes the lock.
LogStamp(w) ==
  /\ At(w, "log")
  /\ GoTo(w, [requests[w] EXCEPT !.at = now], "create")
  /\ UNCHANGED <<process, entries, now, served, pager>>

Entry(r, action, status) ==
  [n |-> r.n, action |-> action, trace |-> r.trace, status |-> status, at |-> r.at]

\* Create keeps the entry in memory even when its save fails, and Log's
\* error is dropped.
LogCreate(w) ==
  LET r == requests[w]
  IN  /\ At(w, "create")
      /\ entries' = Append(entries, Entry(r, "edit", 0))
      /\ Respond(w, r, 200)
      /\ UNCHANGED <<process, now, served, pager>>

-----------------------------------------------------------------------------
\* GET /api/audit.

\* Newest first by CreatedAt; the sort is stable, so entries with the same
\* time stay in the order they were appended.
ListedBefore(i, j) ==
  \/ entries[i].at > entries[j].at
  \/ entries[i].at = entries[j].at /\ i < j

Position(i) == Cardinality({j \in DOMAIN entries : ListedBefore(j, i)})

\* parsePagination: a limit that is missing, capped, or 0 for none.
ParseLimit(text) ==
  IF text = Absent THEN DefaultListLimit
  ELSE IF text > MaxListLimit THEN MaxListLimit ELSE text

\* Mutant of Paginate: a page that stops one entry short.
PaginateShort(length, limit, offset) ==
  LET start == IF offset > length THEN length ELSE offset
  IN  [start |-> start,
       end |-> IF limit > 0 /\ start + limit < length THEN start + limit - 1 ELSE length]

\* Page bounds within a list of the given length: positions start .. end - 1.
Paginate(length, limit, offset) ==
  LET start == IF offset > length THEN length ELSE offset
  IN  [start |-> start,
       end |-> IF limit > 0 /\ start + limit < length THEN start + limit ELSE length]

NewPager == [state |-> "off", limit |-> Absent, offset |-> 0, seen |-> {}, began |-> {}]

\* The paging client asks for its next page.
AskPage(w, limit) ==
  /\ \/ pager.state = "off"
     \/ pager.state = "page" /\ limit = pager.limit
  /\ Receive(w, "audit", Absent, limit)
  /\ pager' = [state |-> "waiting", limit |-> limit, offset |-> pager.offset,
               seen |-> pager.seen,
               began |-> IF pager.state = "off" THEN DOMAIN entries ELSE pager.began]

\* AlertHandler.Audit: the client reads the page and moves on by the limit it
\* is told in X-Limit, until that is past X-Total-Count.
AuditList(w) ==
  LET r     == requests[w]
      limit == ParseLimit(r.body)
      total == Len(entries)
      page  == Paginate(total, limit, pager.offset)
  IN  /\ At(w, "handler")
      /\ r.kind = "audit"
      /\ \/ /\ r.body = Invalid
            /\ Respond(w, r, FailStatus("invalid_input"))
            /\ pager' = [NewPager EXCEPT !.state = "refused"]
         \/ /\ r.body # Invalid
            /\ Respond(w, r, 200)
            /\ pager' = [pager EXCEPT
                 !.state = IF limit = 0 \/ pager.offset + limit >= total
                           THEN "finished" ELSE "page",
                 !.offset = @ + limit,
                 !.seen = @ \cup {i \in DOMAIN entries :
                                    Position(i) \in page.start .. page.end - 1}]
      /\ UNCHANGED <<process, entries, now, served>>

-----------------------------------------------------------------------------
\* The way back through the middleware.

Answer(w, r, panicked) ==
  requests' = [requests EXCEPT ![w] =
    IF panicked THEN [step |-> "panicked", status |-> r.status]
    ELSE [step |-> "done", n |-> r.n, kind |-> r.kind, trace |-> r.trace,
          status |-> r.status]]

\* audit.Wrap after the handler: skipped paths get no entry, for the others
\* it is stamped and then created.
AuditWrap(w) ==
  LET r == requests[w]
  IN  /\ At(w, "answered")
      /\ IF r.kind \in SkippedKinds THEN Answer(w, r, FALSE)
         ELSE GoTo(w, [r EXCEPT !.at = now], "record")
      /\ UNCHANGED <<process, entries, now, served, pager>>

\* Mutant of AuditCreate: the recorder's default status is never replaced.
AuditCreateDefault(w) ==
  LET r == requests[w]
  IN  /\ At(w, "record")
      /\ entries' = Append(entries, Entry(r, "http.request", 200))
      /\ Answer(w, r, FALSE)
      /\ UNCHANGED <<process, now, served, pager>>

\* The error of Create is dropped, and its entry stays in memory.
AuditCreate(w) ==
  LET r == requests[w]
  IN  /\ At(w, "record")
      /\ entries' = Append(entries, Entry(r, "http.request", r.status))
      /\ Answer(w, r, FALSE)
      /\ UNCHANGED <<process, now, served, pager>>

InHandler == {"handler", "update", "log", "create", "answered"}

\* A handler panics, before or after it wrote its header.  PanicRecovery sits
\* outside audit.Wrap, so the rest of that middleware is skipped too.
Panic(w) ==
  LET r == requests[w]
  IN  /\ r.step \in InHandler
      /\ Answer(w, WriteHeader(r, 500), TRUE)
      /\ pager' = IF r.kind = "audit" /\ r.step = "handler"
                  THEN [NewPager EXCEPT !.state = "refused"] ELSE pager
      /\ UNCHANGED <<process, entries, now, served>>

-----------------------------------------------------------------------------
Tick ==
  /\ phase = "serving"
  /\ now < MaxTime
  /\ now' = now + 1
  /\ UNCHANGED <<process, entries, requests, served, pager>>

Init ==
  /\ phase = "starting"
  /\ env \in Environments
  /\ config = Default
  /\ entries = [i \in 1 .. EarlierEntries |->
                  [n |-> 0, action |-> "zone.create", trace |-> Absent, status |-> 0, at |-> 0]]
  /\ now = 0
  /\ requests = [w \in Workers |-> Idle]
  /\ served = 0
  /\ pager = NewPager

Serve(w) ==
  \/ ServePlain(w)
  \/ EditGet(w)
  \/ EditUpdate(w)
  \/ LogStamp(w)
  \/ LogCreate(w)
  \/ AuditList(w)
  \/ AuditWrap(w)
  \/ AuditCreate(w)
  \/ Panic(w)

Next ==
  \/ Main
  \/ Tick
  \/ \E w \in Workers :
       \/ \E kind \in DOMAIN Plain : ReceivePlain(w, kind)
       \/ \E id \in Monitors, body \in Bodies : ReceiveEdit(w, id, body)
       \/ \E limit \in Limits : AskPage(w, limit)
       \/ Serve(w)

Spec == Init /\ [][Next]_vars

-----------------------------------------------------------------------------
TraceIds == ClientIds \cup 1 .. MaxRequests

Statuses == {200, 400, 404, 500}

RequestOK(r) ==
  \/ r = Idle
  \/ r.step = "panicked" /\ r.status \in Statuses
  \/ /\ r.n \in 1 .. served
     /\ r.step \in InHandler \cup {"record", "done"}
     /\ r.kind \in Kinds
     /\ r.trace \in TraceIds
     /\ r.step \in {"answered", "record", "done"} => r.status \in Statuses
     /\ r.step = "update" => r.id \in StoredMonitors
     /\ r.step \in {"create", "record"} => r.at \in 0 .. now

EntryRecord ==
  [n : Nat, action : {"zone.create", "edit", "http.request"},
   trace : TraceIds \cup {Absent}, status : Statuses \cup {0}, at : Nat]

EntryOK(e) ==
  /\ e.n <= served
  /\ e.n > 0 => e.trace \in TraceIds
  /\ e.action = "http.request" => e.status \in Statuses
  /\ e.at <= now

\* Types; in particular no unsafe trace id gets past the request-id middleware
\* into the audit trail, and nothing is stamped in the future.
TypeOK ==
  /\ phase \in {"starting", "serving", "exited"}
  /\ env \in Environments
  /\ DOMAIN config = Settings
  /\ now \in 0 .. MaxTime
  /\ served \in 0 .. MaxRequests
  /\ DOMAIN requests = Workers
  /\ \A w \in Workers : RequestOK(requests[w])
  /\ entries \in Seq(EntryRecord)
  /\ \A i \in DOMAIN entries : EntryOK(entries[i])

\* A service that answers requests runs with what its environment asks for:
\* every variable that is set has reached its setting, every other setting is
\* the default, and the window the services compute with is the one that was
\* asked for.  main never falls back silently on a value that does not parse
\* (the promise of FromEnvStrict), nor on a window that SampleWindow replaces.
ServesAsConfigured ==
  phase = "serving" =>
    /\ \A s \in Settings :
         IF IsSet(env, s)
         THEN /\ env[s] # Garbage
              /\ config[s] = IF env[s] = Empty THEN "" ELSE env[s].value
         ELSE config[s] = Default[s]
    /\ SampleWindow(config) = config.InvalidRatioWindow

\* Answer d has one http.request entry, with its status and trace id, and its
\* business entry before it.
OnRecord(d) ==
  \E i \in DOMAIN entries :
    /\ entries[i].action = "http.request"
    /\ entries[i].n = d.n /\ entries[i].status = d.status /\ entries[i].trace = d.trace
    /\ \A j \in DOMAIN entries \ {i} :
         entries[j].n = d.n => entries[j].action # "http.request"
    /\ d.kind = "edit" /\ d.status = 200 =>
         \E j \in 1 .. i - 1 :
           /\ entries[j].n = d.n /\ entries[j].trace = d.trace
           /\ entries[j].action = "edit"

\* Every answer that a handler completed, on a path that is not skipped, has
\* one http.request entry: with the status the client got and the trace id it
\* can quote, whatever overlapped, whatever save failed and however many
\* requests share that trace id.  An edit that was answered with success has
\* its business entry before it, under the same trace id.
AnswersOnRecord ==
  \A w \in Workers :
    requests[w].step = "done" /\ requests[w].kind \notin SkippedKinds =>
      OnRecord(requests[w])

\* The inductive invariant of ApiServerProofs: a request in progress has no
\* http.request entry yet, a successful edit already has its own entry, and no
\* two requests share a number.
WorkOK(r) ==
  /\ DOMAIN r = {"n", "step", "kind", "trace", "id", "body", "status", "at"}
  /\ r.step \in {"handler", "update", "log", "create"} => r.status = 0
  /\ r.step \in {"update", "log", "create"} => r.kind = "edit"
  /\ \A i \in DOMAIN entries : entries[i].n = r.n => entries[i].action # "http.request"
  /\ r.step \in {"answered", "record"} /\ r.kind = "edit" /\ r.status = 200 =>
       \E i \in DOMAIN entries :
         entries[i].n = r.n /\ entries[i].trace = r.trace /\ entries[i].action = "edit"

Numbered(w) == requests[w].step \in InHandler \cup {"record", "done"}

IInv ==
  /\ TypeOK
  /\ \A w \in Workers :
       /\ requests[w].step \in InHandler \cup {"record"} => WorkOK(requests[w])
       /\ \A v \in Workers \ {w} :
            Numbered(v) /\ Numbered(w) => requests[v].n # requests[w].n
  /\ AnswersOnRecord

\* A client that pages through the trail, newest first and by offset, while
\* requests (its own among them) add entries that are not always the newest,
\* ends up having seen every entry that was there when it began.
PagingMissesNothing == pager.state = "finished" => pager.began \subseteq pager.seen
=============================================================================
