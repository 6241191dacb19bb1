--------------------------- MODULE ApiServerProofs ---------------------------
(***************************************************************************)
(* What every client of the service may rely on, for any number of         *)
(* workers, requests, headers and environments: the configuration it runs  *)
(* with, the audit trail of what it answered, and that paging through this *)
(* trail while it grows passes nothing over.                               *)
(***************************************************************************)
EXTENDS ApiServer, SequenceTheorems, FiniteSetTheorems, TLAPS

-----------------------------------------------------------------------------
(* The configuration. *)

\* What strict reading assigns is what was asked for.
LEMMA StrictAssignment ==
  ASSUME NEW e \in Environments, ~fromEnv(e, TRUE).failed, NEW s \in Settings
  PROVE  IF IsSet(e, s)
         THEN /\ e[s] # Garbage
              /\ fromEnv(e, TRUE).config[s] = IF e[s] = Empty THEN "" ELSE e[s].value
         ELSE fromEnv(e, TRUE).config[s] = Default[s]
<1>1. fromEnv(e, TRUE).config[s] = Assigned(e, s)
  BY DEF fromEnv
<1>2. IsSet(e, s) => e[s] # Garbage
  <2>1. CASE s \in Parsed
    BY <2>1 DEF fromEnv
  <2>2. CASE s \notin Parsed
    BY <2>2, ServerAssumption DEF IsSet
  <2>3. QED
    BY <2>1, <2>2
<1>3. QED
  BY <1>1, <1>2 DEF Assigned

\* A window is an integer, whether it is read or the default.
LEMMA WindowTyped ==
  ASSUME NEW e \in Environments, NEW s \in Integral, NEW v,
         IsSet(e, s) => e[s] \notin {Empty, Garbage} /\ v = e[s].value,
         ~IsSet(e, s) => v \in Int
  PROVE  v \in Int
  BY ServerAssumption DEF IsSet

\* SampleWindow leaves a window alone that Validate accepts.
LEMMA WindowKept ==
  ASSUME NEW c, c.InvalidRatioWindow \in Int, c.InvalidRatioWindow >= 1
  PROVE  SampleWindow(c) = c.InvalidRatioWindow
<1> DEFINE window == c.InvalidRatioWindow
<1>1. ~(window < 1)
  OBVIOUS
<1>2. SampleWindow(c) = IF window < 1 THEN 50 ELSE window
  BY Zenon DEF SampleWindow
<1> HIDE DEF window
<1>3. SampleWindow(c) = window
  BY <1>1, <1>2, Zenon
<1>4. QED
  BY <1>3 DEF window

\* The window of a configuration that main accepts is the one it asks for.
LEMMA StrictWindow ==
  ASSUME NEW e \in Environments, ~fromEnv(e, TRUE).failed,
         Validate(fromEnv(e, TRUE).config)
  PROVE  SampleWindow(fromEnv(e, TRUE).config) = fromEnv(e, TRUE).config.InvalidRatioWindow
<1> DEFINE s    == "InvalidRatioWindow"
           read == fromEnv(e, TRUE).config
<1>1. s \in Settings /\ s \in Integral /\ s # "DataFile"
  BY DEF Settings, Parsed, Integral
<1>2. Default[s] \in Int
  BY DEF Default
<1> HIDE DEF s
<1>3. IsSet(e, s) => e[s] \notin {Empty, Garbage} /\ read[s] = e[s].value
  BY <1>1, StrictAssignment DEF IsSet
<1>4. ~IsSet(e, s) => read[s] = Default[s]
  BY <1>1, StrictAssignment
<1>5. read[s] \in Int
  BY <1>1, <1>2, <1>3, <1>4, WindowTyped
<1>6. read[s] >= 1
  BY Zenon DEF Validate, s
<1> HIDE DEF read
<1>7. SampleWindow(read) = read[s]
  BY <1>5, <1>6, WindowKept DEF s
<1>8. QED
  BY <1>7, Zenon DEF read, s

\* A request leaves the configuration alone, and writes one entry at most.
LEMMA RequestSteps ==
  ASSUME NEW w \in Workers,
         \/ \E kind \in DOMAIN Plain : ReceivePlain(w, kind)
         \/ \E id \in Monitors, body \in Bodies : ReceiveEdit(w, id, body)
         \/ \E limit \in Limits : AskPage(w, limit)
         \/ Serve(w)
  PROVE  UNCHANGED process /\ (entries' = entries \/ \E e : entries' = Append(entries, e))
<1> DEFINE Goal == /\ UNCHANGED process
                   /\ entries' = entries \/ \E e : entries' = Append(entries, e)
<1> SUFFICES Goal
  OBVIOUS
<1>1. ASSUME NEW kind, NEW id, NEW body, Receive(w, kind, id, body) PROVE Goal
  BY <1>1 DEF Receive
<1>2. CASE ServePlain(w) \/ EditGet(w) \/ EditUpdate(w) \/ LogStamp(w)
  BY <1>2 DEF ServePlain, EditGet, EditUpdate, LogStamp
<1>3. CASE LogCreate(w)
  BY <1>3 DEF LogCreate
<1>4. CASE AuditList(w)
  BY <1>4 DEF AuditList
<1>5. CASE AuditWrap(w)
  BY <1>5 DEF AuditWrap
<1>6. CASE AuditCreate(w)
  BY <1>6 DEF AuditCreate
<1>7. CASE Panic(w)
  BY <1>7 DEF Panic
<1>8. CASE Serve(w)
  BY <1>2, <1>3, <1>4, <1>5, <1>6, <1>7, <1>8 DEF Serve
<1>9. ASSUME NEW kind, ReceivePlain(w, kind) PROVE Goal
  BY <1>1, <1>9 DEF ReceivePlain
<1>10. ASSUME NEW id, NEW body, ReceiveEdit(w, id, body) PROVE Goal
  BY <1>1, <1>10 DEF ReceiveEdit
<1>11. ASSUME NEW limit, AskPage(w, limit) PROVE Goal
  BY <1>1, <1>11 DEF AskPage
<1> HIDE DEF Goal
<1>12. QED
  BY <1>8, <1>9, <1>10, <1>11

\* A service that answers requests runs with what its environment asks for.
\* main (main.go) refuses to start on everything that would fall back.
THEOREM RunsAsConfigured == Spec => []ServesAsConfigured
<1> DEFINE Inv == env \in Environments /\ ServesAsConfigured
<1>1. Init => Inv
  BY DEF Init, ServesAsConfigured
<1>2. Inv /\ [Next]_vars => Inv'
  <2> SUFFICES ASSUME Inv, [Next]_vars PROVE Inv'
    OBVIOUS
  <2>1. CASE Main
    <3>1. env' = env /\ config' = fromEnv(env, TRUE).config
      BY <2>1 DEF Main
    <3>2. phase' = "serving" => ~fromEnv(env, TRUE).failed /\ Validate(config')
      BY <2>1, <3>1 DEF Main
    <3>3. QED
      BY <3>1, <3>2, StrictAssignment, StrictWindow DEF ServesAsConfigured
  <2>2. CASE UNCHANGED process
    BY <2>2 DEF process, ServesAsConfigured
  <2>3. Main \/ UNCHANGED process
    <3>1. Tick => UNCHANGED process
      BY DEF Tick
    <3>2. UNCHANGED vars => UNCHANGED process
      BY DEF vars, process
    <3>3. QED
      BY <3>1, <3>2, RequestSteps DEF Next
  <2>4. QED
    BY <2>1, <2>2, <2>3
<1>3. Inv => ServesAsConfigured
  OBVIOUS
<1>4. QED
  BY <1>1, <1>2, <1>3, PTL DEF Spec

-----------------------------------------------------------------------------
(* Requests and the audit trail. *)

Fields == {"n", "step", "kind", "trace", "id", "body", "status", "at"}

Working == InHandler \cup {"record"}

\* Only the request of worker w moves.
OthersWait(w) ==
  /\ DOMAIN requests' = Workers
  /\ \A v \in Workers \ {w} : requests'[v] = requests[v]

\* The trail only grows, by entries of the request of worker w.
TrailGrows(w) ==
  /\ entries' \in Seq(EntryRecord)
  /\ \A i \in DOMAIN entries : i \in DOMAIN entries' /\ entries'[i] = entries[i]
  /\ \A i \in DOMAIN entries' \ DOMAIN entries :
       entries'[i].n = requests[w].n /\ EntryOK(entries[i])'
  /\ UNCHANGED <<process, now, served>>

\* A request in progress has all its fields.
LEMMA WorkingFacts ==
  ASSUME IInv, NEW w \in Workers, requests[w].step \in Working
  PROVE  /\ WorkOK(requests[w]) /\ DOMAIN requests[w] = Fields
         /\ requests[w].n \in 1 .. served
         /\ requests[w].kind \in Kinds /\ requests[w].trace \in TraceIds
         /\ Numbered(w)
         /\ requests[w].step \in {"answered", "record"} => requests[w].status \in Statuses
         /\ requests[w].step = "update" => requests[w].id \in StoredMonitors
         /\ requests[w].step = "record" => requests[w].at \in 0 .. now
         /\ requests[w].step = "create" => requests[w].at \in 0 .. now
  BY DEF IInv, TypeOK, RequestOK, WorkOK, Working, InHandler, Numbered, Idle, Fields

\* The types of counters and of the trail.
LEMMA TrailFacts ==
  ASSUME TypeOK
  PROVE  /\ served \in Nat /\ now \in Nat /\ MaxRequests \in Nat
         /\ Len(entries) \in Nat /\ DOMAIN entries = 1 .. Len(entries)
         /\ \A i \in DOMAIN entries : entries[i] \in EntryRecord /\ entries[i].n \in Nat
         /\ \A i \in DOMAIN entries : entries[i].n <= served
<1>1. served \in Nat /\ now \in Nat /\ MaxRequests \in Nat
  BY ServerAssumption DEF TypeOK
<1>2. /\ Len(entries) \in Nat /\ DOMAIN entries = 1 .. Len(entries)
      /\ \A i \in DOMAIN entries : entries[i] \in EntryRecord
  BY ElementOfSeq DEF TypeOK
<1>3. \A i \in DOMAIN entries : entries[i].n \in Nat
  BY <1>2 DEF EntryRecord
<1>4. \A i \in DOMAIN entries : entries[i].n <= served
  BY DEF TypeOK, EntryOK
<1>5. QED
  BY <1>1, <1>2, <1>3, <1>4

\* Entries of another request change nothing for worker v.
LEMMA OtherRequests ==
  ASSUME IInv, NEW w \in Workers, Numbered(w), OthersWait(w), TrailGrows(w),
         NEW v \in Workers, v # w
  PROVE  /\ RequestOK(requests[v])'
         /\ requests'[v].step \in Working => WorkOK(requests[v])'
         /\ requests'[v].step = "done" /\ requests'[v].kind \notin SkippedKinds =>
              OnRecord(requests[v])'
<1>1. requests'[v] = requests[v] /\ UNCHANGED <<now, served>>
  BY DEF OthersWait, TrailGrows
<1>2. RequestOK(requests[v])'
  BY <1>1 DEF IInv, TypeOK, RequestOK
<1>3. ASSUME Numbered(v), NEW i \in DOMAIN entries' \ DOMAIN entries
      PROVE  entries'[i].n # requests[v].n
  <2>1. entries'[i].n = requests[w].n
    BY DEF TrailGrows
  <2>2. requests[v].n # requests[w].n
    BY <1>3 DEF IInv
  <2>3. QED
    BY <2>1, <2>2
<1>4. ASSUME requests[v].step \in Working PROVE WorkOK(requests[v])'
  <2>1. WorkOK(requests[v]) /\ Numbered(v)
    BY <1>4, WorkingFacts
  <2>2. QED
    BY <1>1, <1>3, <2>1 DEF WorkOK, TrailGrows
<1>5. ASSUME requests[v].step = "done", requests[v].kind \notin SkippedKinds
      PROVE  OnRecord(requests[v])'
  <2>1. OnRecord(requests[v]) /\ Numbered(v)
    BY <1>5 DEF IInv, AnswersOnRecord, Numbered
  <2>2. PICK i \in DOMAIN entries :
          /\ entries[i].action = "http.request"
          /\ entries[i].n = requests[v].n /\ entries[i].status = requests[v].status
          /\ entries[i].trace = requests[v].trace
          /\ \A j \in DOMAIN entries \ {i} :
               entries[j].n = requests[v].n => entries[j].action # "http.request"
          /\ requests[v].kind = "edit" /\ requests[v].status = 200 =>
               \E j \in 1 .. i - 1 :
                 /\ entries[j].n = requests[v].n /\ entries[j].trace = requests[v].trace
                 /\ entries[j].action = "edit"
    BY <2>1 DEF OnRecord
  <2>3. i \in DOMAIN entries' /\ entries'[i] = entries[i]
    BY DEF TrailGrows
  <2>4. \A j \in DOMAIN entries' \ {i} :
          entries'[j].n = requests[v].n => entries'[j].action # "http.request"
    BY <1>3, <2>1, <2>2 DEF TrailGrows
  <2>5. ASSUME NEW j \in 1 .. i - 1 PROVE j \in DOMAIN entries /\ entries'[j] = entries[j]
    <3>1. j \in 1 .. Len(entries)
      BY TrailFacts DEF IInv
    <3>2. QED
      BY <3>1, TrailFacts DEF TrailGrows, IInv
  <2>6. requests[v].kind = "edit" /\ requests[v].status = 200 =>
          \E j \in 1 .. i - 1 :
            /\ entries'[j].n = requests[v].n /\ entries'[j].trace = requests[v].trace
            /\ entries'[j].action = "edit"
    BY <2>2, <2>5
  <2>7. QED
    BY <1>1, <2>2, <2>3, <2>4, <2>6 DEF OnRecord
<1>6. QED
  BY <1>1, <1>2, <1>4, <1>5

\* A step of one request keeps the invariant if that request stays all right.
LEMMA ServeStep ==
  ASSUME IInv, NEW w \in Workers, Numbered(w), OthersWait(w), TrailGrows(w),
         RequestOK(requests[w])',
         requests'[w].step \in Working => WorkOK(requests[w])',
         Numbered(w)' => requests'[w].n = requests[w].n,
         requests'[w].step = "done" /\ requests'[w].kind \notin SkippedKinds =>
           OnRecord(requests[w])'
  PROVE  IInv'
<1>1. \A i \in DOMAIN entries' : EntryOK(entries[i])'
  <2>1. ASSUME NEW i \in DOMAIN entries PROVE EntryOK(entries[i])'
    <3>1. EntryOK(entries[i]) /\ entries'[i] = entries[i] /\ UNCHANGED <<served, now>>
      BY DEF TrailGrows, IInv, TypeOK
    <3>2. QED
      BY <3>1 DEF EntryOK
  <2>2. QED
    BY <2>1 DEF TrailGrows
<1>2. TypeOK'
  BY <1>1, OtherRequests DEF IInv, TypeOK, OthersWait, TrailGrows, process
<1>3. \A v \in Workers :
        requests'[v].step \in InHandler \cup {"record"} => WorkOK(requests[v])'
  BY OtherRequests DEF Working
<1>4. \A u, v \in Workers :
        u # v /\ Numbered(u)' /\ Numbered(v)' => requests'[u].n # requests'[v].n
  <2> SUFFICES ASSUME NEW u \in Workers, NEW v \in Workers, u # v,
                      Numbered(u)', Numbered(v)'
               PROVE  requests'[u].n # requests'[v].n
    OBVIOUS
  <2>1. ASSUME NEW x \in Workers, Numbered(x)'
        PROVE  Numbered(x) /\ requests'[x].n = requests[x].n
    BY <2>1 DEF OthersWait, Numbered
  <2>2. requests[u].n # requests[v].n
    BY <2>1 DEF IInv
  <2>3. QED
    BY <2>1, <2>2
<1>5. AnswersOnRecord'
  BY OtherRequests DEF AnswersOnRecord
<1>6. QED
  BY <1>2, <1>3, <1>4, <1>5 DEF IInv

\* A step that writes no entry.
LEMMA TrailKept ==
  ASSUME IInv, NEW w \in Workers, UNCHANGED <<process, entries, now, served>>
  PROVE  TrailGrows(w)
  BY DEF IInv, TypeOK, TrailGrows

\* Log and audit.Wrap append an entry of their own request.
LEMMA TrailAppended ==
  ASSUME IInv, NEW w \in Workers, requests[w].step \in Working,
         NEW action \in {"edit", "http.request"}, NEW status \in Statuses \cup {0},
         action = "http.request" => status \in Statuses,
         requests[w].at \in 0 .. now,
         entries' = Append(entries, Entry(requests[w], action, status)),
         UNCHANGED <<process, now, served>>
  PROVE  /\ TrailGrows(w)
         /\ DOMAIN entries' = DOMAIN entries \cup {Len(entries) + 1}
         /\ Len(entries) + 1 \notin DOMAIN entries
         /\ entries'[Len(entries) + 1] = Entry(requests[w], action, status)
<1> DEFINE r   == requests[w]
           new == Entry(r, action, status)
<1>1. r.n \in 1 .. served /\ r.trace \in TraceIds /\ served \in Nat /\ now \in Nat
  BY WorkingFacts, TrailFacts DEF IInv
<1>2. /\ new.n = r.n /\ new.action = action /\ new.trace = r.trace
      /\ new.status = status /\ new.at = r.at
  BY DEF Entry
<1>3. new \in EntryRecord
  BY <1>1 DEF Entry, EntryRecord
<1> HIDE DEF new
<1>4. /\ entries' \in Seq(EntryRecord) /\ Len(entries') = Len(entries) + 1
      /\ \A i \in 1 .. Len(entries) : entries'[i] = entries[i]
      /\ entries'[Len(entries) + 1] = new
  BY <1>3, AppendProperties DEF IInv, TypeOK, new
<1>5. /\ DOMAIN entries = 1 .. Len(entries) /\ Len(entries) \in Nat
      /\ DOMAIN entries' = 1 .. Len(entries) + 1
  BY <1>4, TrailFacts, ElementOfSeq DEF IInv
<1>6. ASSUME NEW i \in DOMAIN entries' \ DOMAIN entries
      PROVE  entries'[i].n = r.n /\ EntryOK(entries[i])'
  <2>1. i = Len(entries) + 1
    BY <1>5
  <2>2. entries'[i] = new /\ served' = served /\ now' = now
    BY <1>4, <2>1
  <2>3. QED
    BY <1>1, <1>2, <2>2 DEF EntryOK
<1>7. QED
  BY <1>2, <1>4, <1>5, <1>6 DEF TrailGrows, new

\* What GoTo leaves of a request.
LEMMA GoToFacts ==
  ASSUME TypeOK, NEW w \in Workers, NEW r, DOMAIN r = Fields, NEW step, GoTo(w, r, step)
  PROVE  /\ OthersWait(w) /\ DOMAIN requests'[w] = Fields /\ requests'[w].step = step
         /\ requests'[w].n = r.n /\ requests'[w].kind = r.kind
         /\ requests'[w].trace = r.trace /\ requests'[w].status = r.status
         /\ requests'[w].id = r.id /\ requests'[w].at = r.at
<1>1. requests' = [requests EXCEPT ![w] = [r EXCEPT !.step = step]] /\ DOMAIN requests = Workers
  BY DEF TypeOK, GoTo
<1>2. requests'[w] = [r EXCEPT !.step = step] /\ OthersWait(w)
  BY <1>1 DEF OthersWait
<1>3. QED
  BY <1>2 DEF Fields

\* The same request goes on to its next call.
GoesOn(w) ==
  /\ OthersWait(w) /\ DOMAIN requests'[w] = Fields
  /\ requests'[w].n = requests[w].n /\ requests'[w].kind = requests[w].kind
  /\ requests'[w].trace = requests[w].trace

\* Reading, and going on.
LEMMA GoOnStep ==
  ASSUME IInv, NEW w \in Workers, UNCHANGED <<process, entries, now, served>>,
         GoesOn(w), requests'[w].status = requests[w].status,
         \/ /\ requests[w].step \in {"handler", "update", "log"}
            /\ requests'[w].step \in {"update", "log", "create"} /\ requests[w].kind = "edit"
            /\ requests'[w].step = "update" => requests'[w].id \in StoredMonitors
         \/ requests[w].step = "answered" /\ requests'[w].step = "record",
         requests'[w].step \in {"create", "record"} => requests'[w].at \in 0 .. now
  PROVE  IInv'
<1>1. requests[w].step \in Working /\ requests'[w].step \in Working
  BY DEF Working, InHandler
<1>2. TrailGrows(w)
  BY TrailKept
<1>3. RequestOK(requests[w])'
  BY <1>1, WorkingFacts DEF GoesOn, RequestOK, Working
<1>4. WorkOK(requests[w])'
  BY <1>1, WorkingFacts DEF GoesOn, WorkOK, Fields
<1>5. QED
  BY <1>1, <1>2, <1>3, <1>4, WorkingFacts, ServeStep DEF GoesOn, Working, InHandler

\* Answering: the status is the first one, and a successful edit has its entry.
LEMMA RespondStep ==
  ASSUME IInv, NEW w \in Workers, requests[w].step \in {"handler", "update", "create"},
         TrailGrows(w), NEW code \in Statuses, Respond(w, requests[w], code),
         \A i \in DOMAIN entries' \ DOMAIN entries : entries'[i].action # "http.request",
         requests[w].kind = "edit" /\ code = 200 =>
           \E i \in DOMAIN entries' :
             /\ entries'[i].n = requests[w].n /\ entries'[i].trace = requests[w].trace
             /\ entries'[i].action = "edit"
  PROVE  IInv'
<1> DEFINE r == requests[w]
           s == [WriteHeader(r, code) EXCEPT !.id = Absent, !.body = Absent, !.at = 0]
<1>1. r.step \in Working /\ DOMAIN r = Fields /\ r.status = 0 /\ WorkOK(r)
  BY WorkingFacts DEF Working, InHandler, WorkOK
<1>2. WriteHeader(r, code) = [r EXCEPT !.status = code]
  BY <1>1 DEF WriteHeader
<1>3. /\ DOMAIN s = Fields /\ s.n = r.n /\ s.kind = r.kind /\ s.trace = r.trace
      /\ s.status = code
  BY <1>1, <1>2 DEF Fields
<1>4. GoTo(w, s, "answered")
  BY DEF Respond
<1> HIDE DEF s
<1>5. GoesOn(w) /\ requests'[w].step = "answered" /\ requests'[w].status = code
  BY <1>3, <1>4, GoToFacts DEF IInv, GoesOn
<1>6. RequestOK(requests[w])'
  BY <1>1, <1>5, WorkingFacts DEF GoesOn, RequestOK, TrailGrows, InHandler
<1>7. WorkOK(requests[w])'
  <2>1. \A i \in DOMAIN entries' : entries'[i].n = r.n => entries'[i].action # "http.request"
    BY <1>1 DEF WorkOK, TrailGrows
  <2>2. QED
    BY <1>5, <2>1 DEF WorkOK, GoesOn, Fields
<1>8. QED
  BY <1>1, <1>5, <1>6, <1>7, WorkingFacts, ServeStep DEF GoesOn

\* The statuses the handlers answer with.
LEMMA StatusFacts ==
  /\ \A kind \in DOMAIN Plain : Plain[kind] \in Statuses /\ kind # "edit" /\ kind \in Kinds
  /\ {FailStatus("invalid_input"), FailStatus("not_found"), FailStatus("internal")}
       \subseteq Statuses \ {200}
  /\ 200 \in Statuses /\ 500 \in Statuses
  /\ {"edit", "audit"} \subseteq Kinds
  BY DEF Plain, Statuses, FailStatus, Kinds

\* Handlers that answer without an edit.
LEMMA ReadHandlers ==
  ASSUME IInv, NEW w \in Workers, ServePlain(w) \/ AuditList(w)
  PROVE  IInv'
<1> DEFINE r == requests[w]
<1>1. TrailGrows(w) /\ r.step = "handler" /\ entries' = entries
  BY TrailKept DEF ServePlain, AuditList, At
<1>2. PICK code \in Statuses : Respond(w, r, code) /\ (r.kind = "edit" => code # 200)
  BY StatusFacts DEF ServePlain, AuditList
<1>3. QED
  BY <1>1, <1>2, RespondStep

\* SetMaintenance and SetCalibration up to their business entry.
LEMMA EditHandlers ==
  ASSUME IInv, NEW w \in Workers, EditGet(w) \/ EditUpdate(w)
  PROVE  IInv'
<1> DEFINE r == requests[w]
<1>1. /\ TrailGrows(w) /\ r.step \in {"handler", "update"} /\ r.step \in Working
      /\ UNCHANGED <<process, entries, now, served>>
  BY TrailKept DEF EditGet, EditUpdate, At, Working, InHandler
<1>2. r.kind = "edit" /\ DOMAIN r = Fields /\ TypeOK
  BY <1>1, WorkingFacts DEF EditGet, EditUpdate, At, WorkOK, IInv
<1>3. CASE \E code \in Statuses \ {200} : Respond(w, r, code)
  BY <1>1, <1>3, RespondStep
<1>4. CASE r.step = "handler" /\ r.id \in StoredMonitors /\ GoTo(w, r, "update")
  <2>1. /\ GoesOn(w) /\ requests'[w].status = r.status /\ requests'[w].id = r.id
        /\ requests'[w].step = "update"
    BY <1>2, <1>4, GoToFacts DEF GoesOn
  <2>2. QED
    BY <1>1, <1>2, <1>4, <2>1, GoOnStep
<1>5. CASE r.step = "update" /\ GoTo(w, [r EXCEPT !.id = Absent], "log")
  <2> DEFINE s == [r EXCEPT !.id = Absent]
  <2>1. /\ DOMAIN s = Fields /\ s.n = r.n /\ s.kind = r.kind /\ s.trace = r.trace
        /\ s.status = r.status
    BY <1>2 DEF Fields
  <2>2. GoTo(w, s, "log")
    BY <1>5
  <2> HIDE DEF s
  <2>3. GoesOn(w) /\ requests'[w].status = r.status /\ requests'[w].step = "log"
    BY <1>2, <2>1, <2>2, GoToFacts DEF GoesOn
  <2>4. QED
    BY <1>1, <1>2, <1>5, <2>3, GoOnStep
<1>6. QED
  BY <1>3, <1>4, <1>5, StatusFacts DEF EditGet, EditUpdate, At

\* AuditService.Log after an edit.
LEMMA LogSteps ==
  ASSUME IInv, NEW w \in Workers, LogStamp(w) \/ LogCreate(w)
  PROVE  IInv'
<1> DEFINE r == requests[w]
<1>1. r.step \in {"log", "create"} /\ r.step \in Working
  BY DEF LogStamp, LogCreate, At, Working, InHandler
<1>2. r.kind = "edit" /\ DOMAIN r = Fields /\ TypeOK /\ now \in Nat
  BY <1>1, WorkingFacts, TrailFacts DEF WorkOK, IInv
<1>3. CASE LogStamp(w)
  <2> DEFINE s == [r EXCEPT !.at = now]
  <2>1. /\ DOMAIN s = Fields /\ s.n = r.n /\ s.kind = r.kind /\ s.trace = r.trace
        /\ s.status = r.status /\ s.at = now
    BY <1>2 DEF Fields
  <2>2. GoTo(w, s, "create") /\ r.step = "log" /\ UNCHANGED <<process, entries, now, served>>
    BY <1>3 DEF LogStamp, At
  <2> HIDE DEF s
  <2>3. /\ GoesOn(w) /\ requests'[w].status = r.status /\ requests'[w].step = "create"
        /\ requests'[w].at \in 0 .. now
    BY <1>2, <2>1, <2>2, GoToFacts DEF GoesOn
  <2>4. QED
    BY <1>2, <2>2, <2>3, GoOnStep
<1>4. CASE LogCreate(w)
  <2>1. /\ r.step = "create" /\ Respond(w, r, 200) /\ UNCHANGED <<process, now, served>>
        /\ entries' = Append(entries, Entry(r, "edit", 0))
    BY <1>4 DEF LogCreate, At
  <2>2. r.at \in 0 .. now
    BY <1>1, <2>1, WorkingFacts
  <2>3. /\ TrailGrows(w)
        /\ DOMAIN entries' = DOMAIN entries \cup {Len(entries) + 1}
        /\ entries'[Len(entries) + 1] = Entry(r, "edit", 0)
    BY <1>1, <2>1, <2>2, TrailAppended
  <2>4. /\ Entry(r, "edit", 0).n = r.n /\ Entry(r, "edit", 0).trace = r.trace
        /\ Entry(r, "edit", 0).action = "edit"
    BY DEF Entry
  <2>5. QED
    BY <2>1, <2>3, <2>4, StatusFacts, RespondStep
<1>5. QED
  BY <1>3, <1>4

-----------------------------------------------------------------------------
(* The middleware. *)

\* Answer with and without a panic.
LEMMA AnswerFacts ==
  ASSUME TypeOK, NEW w \in Workers, NEW r, NEW panicked \in BOOLEAN, Answer(w, r, panicked)
  PROVE  /\ OthersWait(w)
         /\ panicked => requests'[w].step = "panicked" /\ requests'[w].status = r.status
         /\ ~panicked => /\ requests'[w].step = "done"
                         /\ requests'[w].n = r.n /\ requests'[w].kind = r.kind
                         /\ requests'[w].trace = r.trace /\ requests'[w].status = r.status
<1>1. DOMAIN requests = Workers
  BY DEF TypeOK
<1>2. CASE panicked
  BY <1>1, <1>2 DEF Answer, OthersWait
<1>3. CASE ~panicked
  BY <1>1, <1>3 DEF Answer, OthersWait
<1>4. QED
  BY <1>2, <1>3

\* A completed answer keeps the invariant if it is on record.
LEMMA DoneStep ==
  ASSUME IInv, NEW w \in Workers, requests[w].step \in {"answered", "record"},
         TrailGrows(w), Answer(w, requests[w], FALSE),
         requests[w].kind \notin SkippedKinds => OnRecord(requests[w])'
  PROVE  IInv'
<1>1. /\ OthersWait(w) /\ requests'[w].step = "done"
      /\ requests'[w].n = requests[w].n /\ requests'[w].kind = requests[w].kind
      /\ requests'[w].trace = requests[w].trace /\ requests'[w].status = requests[w].status
  BY AnswerFacts DEF IInv
<1>2. requests[w].step \in Working /\ requests'[w].step \notin Working
  BY <1>1 DEF Working, InHandler
<1>3. RequestOK(requests[w])'
  BY <1>1, <1>2, WorkingFacts DEF RequestOK, TrailGrows
<1>4. QED
  BY <1>1, <1>2, <1>3, WorkingFacts, ServeStep

\* audit.Wrap after the handler.
LEMMA WrapSteps ==
  ASSUME IInv, NEW w \in Workers, AuditWrap(w) \/ AuditCreate(w)
  PROVE  IInv'
<1> DEFINE r == requests[w]
<1>1. r.step \in {"answered", "record"} /\ r.step \in Working
  BY DEF AuditWrap, AuditCreate, At, Working, InHandler
<1>2. DOMAIN r = Fields /\ TypeOK /\ now \in Nat /\ r.status \in Statuses
  BY <1>1, WorkingFacts, TrailFacts DEF IInv
<1>3. CASE AuditWrap(w)
  <2>1. TrailGrows(w) /\ r.step = "answered" /\ UNCHANGED <<process, entries, now, served>>
    BY <1>3, TrailKept DEF AuditWrap, At
  <2>2. CASE r.kind \in SkippedKinds
    BY <1>3, <2>1, <2>2, DoneStep DEF AuditWrap
  <2>3. CASE r.kind \notin SkippedKinds
    <3> DEFINE s == [r EXCEPT !.at = now]
    <3>1. /\ DOMAIN s = Fields /\ s.n = r.n /\ s.kind = r.kind /\ s.trace = r.trace
          /\ s.status = r.status /\ s.at = now
      BY <1>2 DEF Fields
    <3>2. GoTo(w, s, "record")
      BY <1>3, <2>3 DEF AuditWrap
    <3> HIDE DEF s
    <3>3. /\ GoesOn(w) /\ requests'[w].status = r.status /\ requests'[w].step = "record"
          /\ requests'[w].at \in 0 .. now
      BY <1>2, <3>1, <3>2, GoToFacts DEF GoesOn
    <3>4. QED
      BY <2>1, <3>3, GoOnStep
  <2>4. QED
    BY <2>2, <2>3
<1>4. CASE AuditCreate(w)
  <2> DEFINE last == Len(entries) + 1
             new  == Entry(r, "http.request", r.status)
  <2>1. /\ r.step = "record" /\ Answer(w, r, FALSE) /\ UNCHANGED <<process, now, served>>
        /\ entries' = Append(entries, new)
    BY <1>4 DEF AuditCreate, At
  <2>2. r.at \in 0 .. now
    BY <1>1, <2>1, WorkingFacts
  <2>3. /\ TrailGrows(w)
        /\ DOMAIN entries' = DOMAIN entries \cup {last} /\ last \notin DOMAIN entries
        /\ entries'[last] = new
    BY <1>1, <1>2, <2>1, <2>2, TrailAppended
  <2>4. /\ new.n = r.n /\ new.trace = r.trace /\ new.status = r.status
        /\ new.action = "http.request"
    BY DEF Entry
  <2> HIDE DEF new
  <2>5. \A j \in DOMAIN entries' \ {last} :
          /\ j \in 1 .. last - 1 /\ entries'[j] = entries[j] /\ j \in DOMAIN entries
          /\ entries'[j].n = r.n => entries'[j].action # "http.request"
    BY <1>1, <1>2, <2>3, WorkingFacts, TrailFacts DEF TrailGrows, WorkOK
  <2>6. r.kind = "edit" /\ r.status = 200 =>
          \E j \in 1 .. last - 1 :
            /\ entries'[j].n = r.n /\ entries'[j].trace = r.trace
            /\ entries'[j].action = "edit"
    BY <1>1, <2>3, <2>5, WorkingFacts DEF WorkOK
  <2>7. OnRecord(requests[w])' 
    <3> DEFINE d == requests'[w]
    <3>1. d.n = r.n /\ d.kind = r.kind /\ d.trace = r.trace /\ d.status = r.status
      BY <1>2, <2>1, AnswerFacts
    <3> HIDE DEF d
    <3>2. /\ last \in DOMAIN entries' /\ entries'[last].action = "http.request"
          /\ entries'[last].n = d.n /\ entries'[last].status = d.status
          /\ entries'[last].trace = d.trace
      BY <2>3, <2>4, <3>1
    <3>3. d.kind = "edit" /\ d.status = 200 =>
            \E j \in 1 .. last - 1 :
              /\ entries'[j].n = d.n /\ entries'[j].trace = d.trace
              /\ entries'[j].action = "edit"
      BY <2>6, <3>1
    <3>4. \A j \in DOMAIN entries' \ {last} :
            entries'[j].n = d.n => entries'[j].action # "http.request"
      BY <2>5, <3>1
    <3>5. QED
      BY <3>2, <3>3, <3>4 DEF OnRecord, d
  <2>8. QED
    BY <1>1, <2>1, <2>3, <2>7, DoneStep
<1>5. QED
  BY <1>3, <1>4

\* PanicRecovery answers with the first status, or 500, and records nothing.
LEMMA PanicStep ==
  ASSUME IInv, NEW w \in Workers, Panic(w)
  PROVE  IInv'
<1> DEFINE r == requests[w]
           s == WriteHeader(r, 500)
<1>1. r.step \in Working /\ TrailGrows(w) /\ DOMAIN r = Fields
  BY TrailKept, WorkingFacts DEF Panic, Working
<1>2. s.status \in Statuses
  <2>1. r.status = 0 \/ r.status \in Statuses
    BY <1>1, WorkingFacts DEF Panic, InHandler, WorkOK
  <2>2. CASE r.status = 0
    BY <1>1, <2>2, StatusFacts DEF WriteHeader, Fields
  <2>3. CASE r.status # 0
    BY <2>1, <2>3 DEF WriteHeader
  <2>4. QED
    BY <2>2, <2>3
<1>3. Answer(w, s, TRUE)
  BY DEF Panic
<1> HIDE DEF s
<1>4. OthersWait(w) /\ requests'[w].step = "panicked" /\ requests'[w].status \in Statuses
  BY <1>2, <1>3, AnswerFacts DEF IInv
<1>5. RequestOK(requests[w])' /\ requests'[w].step \notin Working /\ ~Numbered(w)'
  BY <1>4 DEF RequestOK, Working, InHandler, Numbered, Statuses
<1>6. QED
  BY <1>1, <1>4, <1>5, WorkingFacts, ServeStep

\* The request-id middleware numbers a new request and passes no unsafe id.
LEMMA ReceiveStep ==
  ASSUME IInv, NEW w \in Workers, NEW kind \in Kinds, NEW id, NEW body,
         Receive(w, kind, id, body)
  PROVE  IInv'
<1> DEFINE n == served + 1
<1>1. /\ served \in Nat /\ n \in 1 .. MaxRequests /\ served' = n
      /\ UNCHANGED <<phase, env, config, entries, now>>
  BY TrailFacts DEF IInv, Receive, process
<1>2. TraceId(HeaderOf[n], n) \in TraceIds
  BY <1>1, ServerAssumption DEF TraceId, TraceIds
<1>3. OthersWait(w) /\ requests'[w] = [n |-> n, step |-> "handler", kind |-> kind,
        trace |-> TraceId(HeaderOf[n], n), id |-> id, body |-> body, status |-> 0, at |-> 0]
  BY DEF IInv, TypeOK, Receive, OthersWait
<1>4. /\ requests'[w].n = n /\ requests'[w].step = "handler" /\ requests'[w].kind = kind
      /\ requests'[w].trace \in TraceIds /\ requests'[w].status = 0
      /\ DOMAIN requests'[w] = Fields
  BY <1>2, <1>3 DEF Fields
<1>5. \A i \in DOMAIN entries : entries[i].n \in Nat /\ entries[i].n < n
  BY <1>1, TrailFacts DEF IInv
<1>6. \A v \in Workers \ {w} : requests'[v] = requests[v]
  BY <1>3 DEF OthersWait
<1>7. TypeOK'
  <2>1. RequestOK(requests[w])'
    BY <1>1, <1>4 DEF RequestOK, InHandler
  <2>2. ASSUME NEW v \in Workers \ {w} PROVE RequestOK(requests[v])'
    <3>1. RequestOK(requests[v]) /\ requests'[v] = requests[v] /\ served' = served + 1
      BY <1>1, <1>6 DEF IInv, TypeOK
    <3>2. QED
      BY <1>1, <3>1 DEF RequestOK
  <2>3. ASSUME NEW i \in DOMAIN entries' PROVE EntryOK(entries[i])'
    <3>1. EntryOK(entries[i]) /\ entries' = entries
      BY <1>1 DEF IInv, TypeOK
    <3>2. QED
      BY <1>1, <1>5, <3>1 DEF EntryOK
  <2>4. DOMAIN requests' = Workers
    BY <1>3 DEF OthersWait
  <2>5. QED
    BY <1>1, <2>1, <2>2, <2>3, <2>4, ServerAssumption DEF IInv, TypeOK
<1>8. ASSUME NEW v \in Workers, requests'[v].step \in Working PROVE WorkOK(requests[v])'
  <2>1. CASE v = w
    <3>1. \A i \in DOMAIN entries' : entries'[i].n # n
      BY <1>1, <1>5
    <3>2. QED
      BY <1>4, <2>1, <3>1 DEF WorkOK, Fields
  <2>2. CASE v # w
    <3>1. WorkOK(requests[v]) /\ requests'[v] = requests[v] /\ entries' = entries
      BY <1>1, <1>6, <1>8, <2>2, WorkingFacts
    <3>2. QED
      BY <3>1 DEF WorkOK
  <2>3. QED
    BY <2>1, <2>2
<1>9. ASSUME NEW u \in Workers, NEW v \in Workers, u # v, Numbered(u)', Numbered(v)'
      PROVE  requests'[u].n # requests'[v].n
  <2>1. ASSUME NEW x \in Workers \ {w}, Numbered(x)'
        PROVE  Numbered(x) /\ requests'[x].n = requests[x].n /\ requests[x].n # n
    <3>1. Numbered(x) /\ requests'[x].n = requests[x].n
      BY <1>6, <2>1 DEF Numbered
    <3>2. requests[x].n \in 1 .. served
      BY <3>1 DEF IInv, TypeOK, RequestOK, Numbered, Idle, InHandler
    <3>3. QED
      BY <1>1, <3>1, <3>2
  <2>2. CASE u = w \/ v = w
    BY <1>4, <1>9, <2>1, <2>2
  <2>3. CASE u # w /\ v # w
    BY <1>9, <2>1, <2>3 DEF IInv
  <2>4. QED
    BY <2>2, <2>3
<1>10. AnswersOnRecord'
  <2> SUFFICES ASSUME NEW v \in Workers, requests'[v].step = "done",
                      requests'[v].kind \notin SkippedKinds
               PROVE  OnRecord(requests[v])'
    BY DEF AnswersOnRecord
  <2>1. v # w /\ requests'[v] = requests[v] /\ entries' = entries
    BY <1>1, <1>4, <1>6
  <2>2. OnRecord(requests[v])
    BY <2>1 DEF IInv, AnswersOnRecord
  <2>3. QED
    BY <2>1, <2>2 DEF OnRecord
<1>11. QED
  BY <1>7, <1>8, <1>9, <1>10 DEF IInv, Working

\* A step that touches neither requests nor the trail.
LEMMA ProcessStep ==
  ASSUME IInv, Main \/ Tick \/ UNCHANGED vars
  PROVE  IInv'
<1>1. UNCHANGED <<requests, entries, served>>
  BY DEF Main, Tick, vars
<1>2. /\ phase' \in {"starting", "serving", "exited"} /\ env' = env
      /\ now' \in 0 .. MaxTime /\ now \in 0 .. MaxTime /\ now' >= now /\ MaxTime \in Nat
  <2>1. MaxTime \in Nat /\ now \in 0 .. MaxTime /\ phase \in {"starting", "serving", "exited"}
    BY ServerAssumption DEF IInv, TypeOK
  <2>2. CASE Main
    <3>1. phase' \in {"serving", "exited"}
      BY <2>2, Zenon DEF Main
    <3>2. env' = env /\ now' = now
      BY <2>2 DEF Main
    <3>3. QED
      BY <2>1, <3>1, <3>2
  <2>3. CASE Tick \/ UNCHANGED vars
    BY <2>1, <2>3 DEF Tick, vars, process
  <2>4. QED
    BY <2>2, <2>3
<1>3. DOMAIN config' = Settings
  <2>1. CASE Main
    <3>1. config' = fromEnv(env, TRUE).config
      BY <2>1 DEF Main
    <3>2. QED
      BY <3>1, Zenon DEF fromEnv
  <2>2. CASE UNCHANGED config
    BY <2>2 DEF IInv, TypeOK
  <2>3. QED
    BY <2>1, <2>2 DEF Tick, vars, process
<1>4. ASSUME NEW w \in Workers PROVE RequestOK(requests[w])'
  <2>1. RequestOK(requests[w])
    BY DEF IInv, TypeOK
  <2>2. QED
    BY <1>1, <1>2, <2>1 DEF RequestOK
<1>5. ASSUME NEW i \in DOMAIN entries' PROVE EntryOK(entries[i])'
  <2>1. EntryOK(entries[i]) /\ entries[i].at \in Nat
    BY <1>1, TrailFacts DEF IInv, TypeOK, EntryRecord
  <2>2. QED
    BY <1>1, <1>2, <2>1 DEF EntryOK
<1>6. TypeOK'
  BY <1>1, <1>2, <1>3, <1>4, <1>5 DEF IInv, TypeOK
<1>7. QED
  BY <1>1, <1>6 DEF IInv, WorkOK, Numbered, AnswersOnRecord, OnRecord

\* Nothing has been answered at first; entries of earlier lives have no number.
LEMMA InitFacts ==
  ASSUME Init
  PROVE  IInv
<1> DEFINE old == [n |-> 0, action |-> "zone.create", trace |-> Absent, status |-> 0, at |-> 0]
<1>1. entries = [i \in 1 .. EarlierEntries |-> old] /\ EarlierEntries \in Nat
  BY ServerAssumption DEF Init
<1>2. old \in EntryRecord
  BY DEF EntryRecord
<1>3. entries \in Seq(EntryRecord)
  BY <1>1, <1>2, IsASeq
<1>4. \A i \in DOMAIN entries : EntryOK(entries[i])
  BY <1>1 DEF Init, EntryOK
<1>5. DOMAIN config = Settings
  <2>1. DOMAIN Default = Settings
    BY DEF Default, Settings, Parsed, Durations, Floats, Integral
  <2>2. QED
    BY <2>1 DEF Init
<1>6. \A w \in Workers : requests[w] = Idle
  BY DEF Init
<1>7. TypeOK
  BY <1>3, <1>4, <1>5, <1>6, ServerAssumption DEF TypeOK, Init, RequestOK
<1>8. QED
  BY <1>6, <1>7 DEF IInv, AnswersOnRecord, Numbered, InHandler, Idle

\* Every step keeps the invariant.
LEMMA InvariantStep ==
  ASSUME IInv, [Next]_vars
  PROVE  IInv'
<1>1. CASE Main \/ Tick \/ UNCHANGED vars
  BY <1>1, ProcessStep
<1>2. ASSUME NEW w \in Workers, Serve(w) PROVE IInv'
  BY <1>2, ReadHandlers, EditHandlers, LogSteps, WrapSteps, PanicStep DEF Serve
<1>3. ASSUME NEW w \in Workers, NEW kind \in DOMAIN Plain, ReceivePlain(w, kind)
      PROVE  IInv'
  BY <1>3, StatusFacts, ReceiveStep DEF ReceivePlain
<1>4. ASSUME NEW w \in Workers, NEW id, NEW body, ReceiveEdit(w, id, body)
      PROVE  IInv'
  BY <1>4, StatusFacts, ReceiveStep DEF ReceiveEdit
<1>5. ASSUME NEW w \in Workers, NEW limit, AskPage(w, limit)
      PROVE  IInv'
  BY <1>5, StatusFacts, ReceiveStep DEF AskPage
<1>6. QED
  BY <1>1, <1>2, <1>3, <1>4, <1>5 DEF Next

\* Types; no unsafe trace id gets past the request-id middleware
\* (httpapi/middleware.go) into the audit trail.
THEOREM ServerTyped == Spec => []TypeOK
<1>1. IInv => TypeOK
  BY DEF IInv
<1>2. QED
  BY <1>1, InitFacts, InvariantStep, PTL DEF Spec

\* Every answer that a handler completed has exactly one http.request entry
\* with its status and trace id, behind the business entry of a successful
\* edit (audit.Wrap around the handlers), whatever overlaps.
THEOREM EveryAnswerOnRecord == Spec => []AnswersOnRecord
<1>1. IInv => AnswersOnRecord
  BY DEF IInv
<1>2. QED
  BY <1>1, InitFacts, InvariantStep, PTL DEF Spec

-----------------------------------------------------------------------------
(* Paging through the trail while it grows. *)

\* The trail as a list that is only appended to.
TrailExtended ==
  /\ DOMAIN entries \subseteq DOMAIN entries'
  /\ \A i \in DOMAIN entries : entries'[i] = entries[i]

LEMMA TrailStep ==
  ASSUME IInv, [Next]_vars
  PROVE  TrailExtended
<1>1. entries' = entries \/ \E e : entries' = Append(entries, e)
  <2>1. Main \/ Tick \/ UNCHANGED vars => entries' = entries
    BY DEF Main, Tick, vars
  <2>2. QED
    BY <2>1, RequestSteps DEF Next
<1>2. CASE entries' = entries
  BY <1>2 DEF TrailExtended
<1>3. ASSUME NEW e, entries' = Append(entries, e) PROVE TrailExtended
  <2>1. /\ DOMAIN entries' = 1 .. Len(entries) + 1
        /\ \A i \in 1 .. Len(entries) : entries'[i] = entries[i]
    BY <1>3 DEF IInv, TypeOK
  <2>2. QED
    BY <2>1, TrailFacts DEF IInv, TrailExtended
<1>4. QED
  BY <1>1, <1>2, <1>3

\* An entry is listed behind other entries only.
LEMMA PositionFacts ==
  ASSUME TypeOK, NEW i \in DOMAIN entries
  PROVE  Position(i) \in Nat /\ Position(i) < Len(entries)
<1> DEFINE before == {j \in DOMAIN entries : ListedBefore(j, i)}
           others == DOMAIN entries \ {i}
<1>1. /\ IsFiniteSet(DOMAIN entries) /\ Cardinality(DOMAIN entries) = Len(entries)
      /\ Len(entries) \in Nat
  <2>1. DOMAIN entries = 1 .. Len(entries) /\ Len(entries) \in Nat
    BY TrailFacts
  <2>2. \A n \in Nat : IsFiniteSet(1 .. n) /\ Cardinality(1 .. n) = n
    BY FS_Interval
  <2>3. QED
    BY <2>1, <2>2
<1>2. IsFiniteSet(others) /\ Cardinality(others) = Len(entries) - 1
  BY <1>1, FS_RemoveElement
<1>3. i \notin before
  <2>1. entries[i].at \in Nat /\ i \in Nat
    BY TrailFacts DEF EntryRecord
  <2>2. QED
    BY <2>1 DEF ListedBefore
<1>4. before \subseteq others
  BY <1>3
<1>5. Cardinality(before) \in Nat /\ Cardinality(before) <= Cardinality(others)
  BY <1>2, <1>4, FS_Subset, FS_CardinalityType
<1>6. QED
  BY <1>1, <1>2, <1>5 DEF Position

\* However many entries are added, newer or not, an entry never moves forward.
LEMMA PositionGrows ==
  ASSUME TypeOK, TypeOK', TrailExtended, NEW i \in DOMAIN entries
  PROVE  Position(i)' \in Nat /\ Position(i)' >= Position(i)
<1> DEFINE before == {j \in DOMAIN entries : ListedBefore(j, i)}
           after  == {j \in DOMAIN entries' : ListedBefore(j, i)'}
<1>1. before \subseteq after
  BY DEF TrailExtended, ListedBefore
<1>2. IsFiniteSet(after)
  <2>1. DOMAIN entries' = 1 .. Len(entries') /\ Len(entries') \in Nat
    BY ElementOfSeq DEF TypeOK
  <2>2. IsFiniteSet(DOMAIN entries')
    BY <2>1, FS_Interval
  <2>3. QED
    BY <2>2, FS_Subset
<1>3. Cardinality(before) <= Cardinality(after)
  BY <1>1, <1>2, FS_Subset
<1>4. /\ Cardinality(before) \in Nat /\ Cardinality(after) \in Nat
  BY <1>1, <1>2, FS_Subset, FS_CardinalityType
<1>5. Position(i) = Cardinality(before) /\ Position(i)' = Cardinality(after)
  BY DEF Position
<1>6. QED
  BY <1>3, <1>4, <1>5

\* What a page leaves out of the rest of the list comes behind the next offset.
LEMMA PageFacts ==
  ASSUME NEW total \in Nat, NEW limit \in Nat, NEW offset \in Nat, NEW p \in Nat,
         p < total, p >= offset,
         NEW page, page = Paginate(total, limit, offset),
         p \notin page.start .. page.end - 1
  PROVE  limit > 0 /\ offset + limit < total /\ p >= offset + limit
<1>1. page.start = offset /\ page.end = IF limit > 0 /\ offset + limit < total
                                        THEN offset + limit ELSE total
  BY DEF Paginate
<1>2. QED
  BY <1>1

\* What was there when the client began it has seen, or has still before it.
PagerInv ==
  /\ DOMAIN pager = {"state", "limit", "offset", "seen", "began"}
  /\ pager.offset \in Nat /\ (pager.state = "off" => pager.offset = 0)
  /\ pager.began \subseteq DOMAIN entries
  /\ \A i \in pager.began :
       i \in pager.seen \/ (pager.state # "finished" /\ Position(i) >= pager.offset)
  /\ \A w \in Workers :
       At(w, "handler") /\ requests[w].kind = "audit" => requests[w].body \in Limits

LEMMA PagerInit == ASSUME Init PROVE PagerInv
  BY DEF Init, PagerInv, NewPager, At, Idle

\* The request waiting in AuditList stays as it was asked.
LEMMA AskedStep ==
  ASSUME IInv, PagerInv, [Next]_vars, NEW w \in Workers,
         At(w, "handler")', requests'[w].kind = "audit"
  PROVE  requests'[w].body \in Limits
<1>1. ASSUME NEW v \in Workers, NEW kind, NEW id, NEW body, Receive(v, kind, id, body),
             kind = "audit" => body \in Limits
      PROVE  requests'[w].body \in Limits
  BY <1>1 DEF Receive, PagerInv, At, IInv, TypeOK
<1>2. ASSUME NEW v \in Workers, Serve(v) PROVE requests'[w].body \in Limits
  <2>1. /\ DOMAIN requests = Workers /\ \A u \in Workers \ {v} : requests'[u] = requests[u]
    BY <1>2 DEF IInv, TypeOK, Serve, ServePlain, EditGet, EditUpdate, LogStamp, LogCreate,
                AuditList, AuditWrap, AuditCreate, Panic, Respond, GoTo, Answer
  <2>2. requests[v].step \in Working
    BY <1>2 DEF Serve, ServePlain, EditGet, EditUpdate, LogStamp, LogCreate,
                AuditList, AuditWrap, AuditCreate, Panic, At, Working, InHandler
  <2>3. DOMAIN requests[v] = Fields /\ TypeOK
    BY <2>2, WorkingFacts DEF IInv
  <2>4. \A code : DOMAIN [WriteHeader(requests[v], code) EXCEPT !.id = Absent,
                            !.body = Absent, !.at = 0] = Fields
    BY <2>3 DEF WriteHeader
  <2>5. \A time : DOMAIN [requests[v] EXCEPT !.at = time] = Fields
    BY <2>3
  <2>6. DOMAIN [requests[v] EXCEPT !.id = Absent] = Fields
    BY <2>3
  <2>7. \/ \E r, panicked : Answer(v, r, panicked)
        \/ \E r, step : DOMAIN r = Fields /\ step # "handler" /\ GoTo(v, r, step)
    BY <1>2, <2>3, <2>4, <2>5, <2>6
    DEF Serve, ServePlain, EditGet, EditUpdate, LogStamp, LogCreate,
        AuditList, AuditWrap, AuditCreate, Panic, Respond
  <2>8. requests'[v].step # "handler"
    <3>1. ASSUME NEW r, NEW panicked, Answer(v, r, panicked)
          PROVE  requests'[v].step \in {"panicked", "done"}
      BY <2>3, <3>1 DEF Answer, TypeOK
    <3>2. ASSUME NEW r, NEW step, DOMAIN r = Fields, step # "handler", GoTo(v, r, step)
          PROVE  requests'[v].step # "handler"
      BY <2>3, <3>2, GoToFacts
    <3>3. QED
      BY <2>7, <3>1, <3>2
  <2>9. QED
    BY <2>1, <2>8 DEF PagerInv, At
<1>3. CASE UNCHANGED requests
  BY <1>3 DEF PagerInv, At
<1>4. QED
  BY <1>1, <1>2, <1>3 DEF Next, vars, Main, Tick, ReceivePlain, ReceiveEdit, AskPage, Plain

\* The trail grows, the client waits.
LEMMA WaitingStep ==
  ASSUME IInv, IInv', PagerInv, [Next]_vars, UNCHANGED pager
  PROVE  PagerInv'
<1>1. TypeOK /\ TypeOK' /\ TrailExtended
  BY TrailStep DEF IInv
<1>2. ASSUME NEW i \in pager.began
      PROVE  i \in pager.seen \/ (pager.state # "finished" /\ Position(i)' >= pager.offset)
  <2>1. i \in DOMAIN entries /\ pager.offset \in Nat
    BY DEF PagerInv
  <2>2. /\ Position(i) \in Nat /\ Position(i)' \in Nat
        /\ Position(i)' >= Position(i)
    BY <1>1, <2>1, PositionFacts, PositionGrows
  <2>3. QED
    BY <2>1, <2>2 DEF PagerInv
<1>3. pager.began \subseteq DOMAIN entries'
  BY <1>1 DEF PagerInv, TrailExtended
<1>4. QED
  BY <1>2, <1>3, AskedStep DEF PagerInv

\* The client asks for a page: its first one begins with the trail as it is.
LEMMA AskStep ==
  ASSUME IInv, IInv', PagerInv, [Next]_vars, NEW w \in Workers, NEW limit, AskPage(w, limit)
  PROVE  PagerInv'
<1>1. UNCHANGED entries
  BY DEF AskPage, Receive
<1>2. /\ DOMAIN pager' = {"state", "limit", "offset", "seen", "began"}
      /\ pager'.offset = pager.offset /\ pager'.seen = pager.seen
      /\ pager'.state = "waiting"
      /\ pager'.began = IF pager.state = "off" THEN DOMAIN entries ELSE pager.began
  BY DEF AskPage
<1>3. pager.state = "off" => pager.offset = 0
  BY DEF PagerInv
<1>4. QED
  BY <1>1, <1>2, <1>3, AskedStep, PositionFacts DEF PagerInv, Position, ListedBefore, IInv

\* The client reads a page.
LEMMA ReadStep ==
  ASSUME IInv, IInv', PagerInv, [Next]_vars, NEW w \in Workers, AuditList(w)
  PROVE  PagerInv'
<1> DEFINE limit == ParseLimit(requests[w].body)
           total == Len(entries)
           page  == Paginate(total, limit, pager.offset)
<1>1. UNCHANGED entries
  BY DEF AuditList
<1>2. CASE requests[w].body = Invalid
  <2>1. /\ DOMAIN pager' = {"state", "limit", "offset", "seen", "began"}
        /\ pager'.offset = 0 /\ pager'.began = {}
    BY <1>2 DEF AuditList, NewPager
  <2>2. QED
    BY <2>1, AskedStep DEF PagerInv
<1>3. CASE requests[w].body # Invalid
  <2>1. limit \in Nat /\ total \in Nat
    <3>1. requests[w].body \in Nat \cup {Absent}
      BY <1>3, ServerAssumption DEF AuditList, PagerInv, At
    <3>2. QED
      BY <3>1, ServerAssumption, TrailFacts DEF ParseLimit, IInv
  <2>2. /\ DOMAIN pager' = {"state", "limit", "offset", "seen", "began"}
        /\ pager'.began = pager.began /\ pager'.offset = pager.offset + limit
        /\ pager'.seen = pager.seen \cup {i \in DOMAIN entries :
                                            Position(i) \in page.start .. page.end - 1}
        /\ pager'.state = IF limit = 0 \/ pager.offset + limit >= total
                          THEN "finished" ELSE "page"
    BY <1>3 DEF AuditList, PagerInv
  <2> HIDE DEF limit, total, page
  <2>3. ASSUME NEW i \in pager.began
        PROVE  \/ i \in pager'.seen
               \/ pager'.state # "finished" /\ Position(i) >= pager'.offset
    <3>1. i \in DOMAIN entries /\ pager.offset \in Nat
      BY DEF PagerInv
    <3>2. Position(i) \in Nat /\ Position(i) < total
      BY <3>1, PositionFacts DEF IInv, total
    <3>3. CASE i \in pager.seen \/ Position(i) \in page.start .. page.end - 1
      BY <2>2, <3>1, <3>3
    <3>4. CASE i \notin pager.seen /\ Position(i) \notin page.start .. page.end - 1
      <4>1. Position(i) >= pager.offset
        BY <3>4 DEF PagerInv
      <4>2. /\ limit > 0 /\ pager.offset + limit < total
            /\ Position(i) >= pager.offset + limit
        BY <2>1, <3>1, <3>2, <3>4, <4>1, PageFacts DEF page
      <4>3. QED
        BY <2>1, <2>2, <3>1, <4>2
    <3>5. QED
      BY <3>3, <3>4
  <2>4. QED
    BY <1>1, <2>1, <2>2, <2>3, AskedStep DEF PagerInv, Position, ListedBefore
<1>4. QED
  BY <1>2, <1>3

LEMMA PagerStep ==
  ASSUME IInv, IInv', PagerInv, [Next]_vars
  PROVE  PagerInv'
<1>1. ASSUME NEW w \in Workers, Panic(w), ~UNCHANGED pager PROVE PagerInv'
  <2>1. /\ DOMAIN pager' = {"state", "limit", "offset", "seen", "began"}
        /\ pager'.offset = 0 /\ pager'.began = {}
    BY <1>1 DEF Panic, NewPager
  <2>2. QED
    BY <2>1, AskedStep DEF PagerInv
<1>2. ASSUME NEW w \in Workers, AuditList(w) PROVE PagerInv'
  BY <1>2, ReadStep
<1>3. ASSUME NEW w \in Workers, NEW limit, AskPage(w, limit) PROVE PagerInv'
  BY <1>3, AskStep
<1>4. CASE UNCHANGED pager
  BY <1>4, WaitingStep
<1>5. QED
  BY <1>1, <1>2, <1>3, <1>4
  DEF Next, vars, Main, Tick, ReceivePlain, ReceiveEdit, Serve,
      ServePlain, EditGet, EditUpdate, LogStamp, LogCreate, AuditWrap, AuditCreate

\* Paging by offset, newest first, misses nothing that was there when it began
\* (AlertHandler.Audit, parsePagination and paginate): entries that come in
\* the meantime push the others back, behind the next offset, and never
\* forward.
THEOREM PagerSeesAll == Spec => []PagingMissesNothing
<1>1. Init => IInv /\ PagerInv
  BY InitFacts, PagerInit
<1>2. IInv /\ PagerInv /\ [Next]_vars => IInv' /\ PagerInv'
  BY InvariantStep, PagerStep
<1>3. PagerInv => PagingMissesNothing
  BY DEF PagerInv, PagingMissesNothing
<1>4. QED
  BY <1>1, <1>2, <1>3, PTL DEF Spec
=============================================================================
