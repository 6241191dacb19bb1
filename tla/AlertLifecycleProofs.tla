------------------------ MODULE AlertLifecycleProofs -------------------------
(***************************************************************************)
(* Alerts keep their shape, and none is closed without a disposition, for  *)
(* any number of overlapping requests, sweeps and failed saves.  Requests  *)
(* one at a time lose no disposition and leave one fresh alert per key.    *)
(***************************************************************************)
EXTENDS AlertLifecycle, SequenceTheorems, WellFoundedInduction, TLAPS

-----------------------------------------------------------------------------
\* The lifecycle steps of one alert keep its shape and the disposition rule.
LEMMA RecordSteps ==
  ASSUME NEW a \in AlertRecord, Disposed(a)
  PROVE  /\ Merge(a) \in AlertRecord /\ Disposed(Merge(a))
         /\ Ack(a) \in AlertRecord /\ Disposed(Ack(a))
         /\ Escalate(a) \in AlertRecord /\ Disposed(Escalate(a))
         /\ Older(a) \in AlertRecord /\ Disposed(Older(a))
         /\ a.status = "acknowledged" =>
              Close(a) \in AlertRecord /\ Disposed(Close(a))
<1>1. AgeCap \in Nat
  BY AlertAssumption DEF AgeCap
<1>2. Merge(a) \in AlertRecord /\ Disposed(Merge(a))
  BY <1>1 DEF Merge, AlertRecord, Disposed
<1>3. Ack(a) \in AlertRecord /\ Disposed(Ack(a))
  BY DEF Ack, AlertRecord, AlertStatuses, Disposed
<1>4. Escalate(a) \in AlertRecord /\ Disposed(Escalate(a))
  BY DEF Escalate, AlertRecord, AlertStatuses, Disposed
<1>5. Older(a) \in AlertRecord /\ Disposed(Older(a))
  BY <1>1 DEF Older, AlertRecord, Disposed
<1>6. a.status = "acknowledged" => Close(a) \in AlertRecord /\ Disposed(Close(a))
  BY DEF Close, AlertRecord, AlertStatuses, Disposed
<1>7. QED
  BY <1>2, <1>3, <1>4, <1>5, <1>6

\* A new alert has the stored shape and is not disposed of.
LEMMA NewAlertFacts ==
  ASSUME NEW k \in Keys
  PROVE  NewAlert(k) \in AlertRecord /\ Disposed(NewAlert(k))
<1>1. AgeCap \in Nat
  BY AlertAssumption DEF AgeCap
<1>2. QED
  BY <1>1 DEF NewAlert, AlertRecord, AlertStatuses, Disposed

\* The ids of stored alerts are the positions 1 to Len(alerts).
LEMMA AlertsIndexed ==
  ASSUME IInv
  PROVE  /\ Len(alerts) \in Nat /\ DOMAIN alerts = 1 .. Len(alerts)
         /\ \A i \in DOMAIN alerts : alerts[i] \in AlertRecord /\ Disposed(alerts[i])
  BY ElementOfSeq DEF IInv, TypeOK, ClosedAlertsDisposed, Disposed

\* Writing one stored alert back gives a sequence of stored alerts.
LEMMA AlertsRewritten ==
  ASSUME IInv, NEW f, f = [i \in DOMAIN alerts |-> f[i]],
         \A i \in DOMAIN alerts : f[i] \in AlertRecord
  PROVE  f \in Seq(AlertRecord) /\ DOMAIN f = DOMAIN alerts
<1>1. DOMAIN alerts = 1 .. Len(alerts) /\ Len(alerts) \in Nat
  BY AlertsIndexed
<1>2. f \in [1 .. Len(alerts) -> AlertRecord]
  BY <1>1
<1>3. QED
  BY <1>1, <1>2, IsASeq

\* A step that stores no alert and gives one worker sound records to write.
LEMMA PreparedStep ==
  ASSUME IInv, alerts' = alerts, queue' \subseteq DOMAIN alerts,
         NEW w \in Workers, NEW p \in {"idle", "next", "create", "update"}, NEW f,
         pc' = [pc EXCEPT ![w] = p], writes' = [writes EXCEPT ![w] = f],
         DOMAIN f \subseteq DOMAIN alerts \cup {0},
         \A i \in DOMAIN f : f[i] \in AlertRecord /\ Disposed(f[i]),
         p = "create" => 0 \in DOMAIN f
  PROVE  IInv'
<1>1. \A v \in Workers :
        /\ writes'[v] = f \/ writes'[v] = writes[v]
        /\ pc'[v] = "create" => 0 \in DOMAIN writes'[v]
        /\ pc'[v] \in {"idle", "next", "create", "update"}
  BY DEF IInv, TypeOK
<1>2. QED
  BY <1>1 DEF IInv, TypeOK, ClosedAlertsDisposed
\* A step that reads one alert and prepares to write one sound record.
LEMMA PreparedOne ==
  ASSUME IInv, alerts' = alerts, queue' \subseteq DOMAIN alerts,
         NEW w \in Workers, NEW i \in DOMAIN alerts, NEW a,
         a \in AlertRecord, Disposed(a), WillWrite(w, [j \in {i} |-> a])
  PROVE  IInv'
<1> DEFINE f == [j \in {i} |-> a]
<1>1. /\ DOMAIN f \subseteq DOMAIN alerts \cup {0}
      /\ \A j \in DOMAIN f : f[j] \in AlertRecord /\ Disposed(f[j])
  OBVIOUS
<1>2. pc' = [pc EXCEPT ![w] = "update"] /\ writes' = [writes EXCEPT ![w] = f]
  BY DEF WillWrite
<1> HIDE DEF f
<1>3. QED
  BY <1>1, <1>2, PreparedStep

\* Nothing is stored and nothing is to be written at the start.
LEMMA InvariantInit == Init => IInv
<1> SUFFICES ASSUME Init PROVE IInv
  OBVIOUS
<1>1. alerts \in Seq(AlertRecord) /\ DOMAIN alerts = {}
  BY EmptySeq DEF Init
<1>2. \A w \in Workers : pc[w] = "idle" /\ DOMAIN writes[w] = {}
  BY DEF Init
<1>3. QED
  BY <1>1, <1>2 DEF Init, IInv, TypeOK, ClosedAlertsDisposed

\* Each call of the store keeps the shape of alerts and the disposition rule.
LEMMA InvariantStep == IInv /\ [Next]_vars => IInv'
<1> SUFFICES ASSUME IInv, [Next]_vars PROVE IInv'
  OBVIOUS
<1>q. queue \subseteq DOMAIN alerts
  BY DEF IInv, TypeOK
<1>a. \A i \in DOMAIN alerts : alerts[i] \in AlertRecord /\ Disposed(alerts[i])
  BY AlertsIndexed
<1>1. ASSUME NEW w \in Workers, NEW k \in Keys, RaiseFind(w, k) PROVE IInv'
  <2>1. CASE \E i \in FindOpenByDedupKey(k) : WillWrite(w, [j \in {i} |-> Merge(alerts[i])])
    <3>1. PICK i \in DOMAIN alerts : WillWrite(w, [j \in {i} |-> Merge(alerts[i])])
      BY <2>1 DEF FindOpenByDedupKey, Unclosed
    <3>2. Merge(alerts[i]) \in AlertRecord /\ Disposed(Merge(alerts[i]))
      BY <1>a, RecordSteps
    <3>3. QED
      BY <1>1, <1>q, <3>1, <3>2, PreparedOne DEF RaiseFind, Starts
  <2>2. CASE /\ pc' = [pc EXCEPT ![w] = "create"]
             /\ writes' = [writes EXCEPT ![w] = [j \in {0} |-> NewAlert(k)]]
    <3> DEFINE f == [j \in {0} |-> NewAlert(k)]
    <3>1. /\ DOMAIN f \subseteq DOMAIN alerts \cup {0} /\ 0 \in DOMAIN f
          /\ \A j \in DOMAIN f : f[j] \in AlertRecord /\ Disposed(f[j])
      BY NewAlertFacts
    <3>2. pc' = [pc EXCEPT ![w] = "create"] /\ writes' = [writes EXCEPT ![w] = f]
      BY <2>2
    <3>3. alerts' = alerts /\ queue' \subseteq DOMAIN alerts
      BY <1>1, <1>q DEF RaiseFind, Starts
    <3> HIDE DEF f
    <3>4. QED
      BY <3>1, <3>2, <3>3, PreparedStep
  <2>3. QED
    BY <1>1, <2>1, <2>2 DEF RaiseFind
<1>2. ASSUME NEW w \in Workers, RaiseCreate(w) PROVE IInv'
  <2> DEFINE a == writes[w][0]
  <2>1. a \in AlertRecord /\ Disposed(a)
    BY <1>2 DEF RaiseCreate, IInv, TypeOK
  <2>2. alerts \in Seq(AlertRecord) /\ alerts' = Append(alerts, a)
    BY <1>2 DEF RaiseCreate, IInv, TypeOK
  <2>3. /\ alerts' \in Seq(AlertRecord)
        /\ Len(alerts') = Len(alerts) + 1
        /\ \A i \in 1 .. Len(alerts) : alerts'[i] = alerts[i]
        /\ alerts'[Len(alerts) + 1] = a
    BY <2>1, <2>2, AppendProperties
  <2>4. DOMAIN alerts' = DOMAIN alerts \cup {Len(alerts) + 1}
    BY <2>3, AlertsIndexed, ElementOfSeq
  <2>5. \A i \in DOMAIN alerts' : Disposed(alerts'[i])
    BY <2>1, <2>3, <2>4, AlertsIndexed
  <2>6. /\ DOMAIN writes' = Workers
        /\ pc' \in [Workers -> {"idle", "next", "create", "update"}]
        /\ \A v \in Workers :
             /\ v = w => pc'[v] = "idle" /\ writes'[v] = <<>>
             /\ v # w => pc'[v] = pc[v] /\ writes'[v] = writes[v]
    BY <1>2 DEF RaiseCreate, IInv, TypeOK
  <2>7. \A v \in Workers :
          /\ DOMAIN writes'[v] \subseteq DOMAIN alerts' \cup {0}
          /\ \A i \in DOMAIN writes'[v] :
               writes'[v][i] \in AlertRecord /\ Disposed(writes'[v][i])
          /\ pc'[v] = "create" => 0 \in DOMAIN writes'[v]
    BY <2>4, <2>6 DEF IInv, TypeOK
  <2>8. queue' \subseteq DOMAIN alerts'
    BY <1>2, <1>q, <2>4 DEF RaiseCreate
  <2>9. QED
    BY <2>3, <2>5, <2>6, <2>7, <2>8 DEF IInv, TypeOK, ClosedAlertsDisposed, Disposed
<1>3. ASSUME NEW w \in Workers, NEW i \in DOMAIN alerts, AckGet(w, i) PROVE IInv'
  <2>1. Ack(alerts[i]) \in AlertRecord /\ Disposed(Ack(alerts[i]))
    BY <1>a, RecordSteps
  <2>2. QED
    BY <1>3, <1>q, <2>1, PreparedOne DEF AckGet, Starts
<1>4. ASSUME NEW w \in Workers, NEW i \in DOMAIN alerts, EscalateGet(w, i) PROVE IInv'
  <2>1. Escalate(alerts[i]) \in AlertRecord /\ Disposed(Escalate(alerts[i]))
    BY <1>a, RecordSteps
  <2>2. QED
    BY <1>4, <1>q, <2>1, PreparedOne DEF EscalateGet, Starts
<1>5. ASSUME NEW w \in Workers, NEW k \in Keys, ResolveList(w, k) PROVE IInv'
  <2> DEFINE acknowledged ==
        {i \in DOMAIN alerts : alerts[i].key = k /\ alerts[i].status = "acknowledged"}
  <2>1. \A i \in acknowledged :
          Close(alerts[i]) \in AlertRecord /\ Disposed(Close(alerts[i]))
    BY <1>a, RecordSteps
  <2>2. WillWrite(w, [i \in acknowledged |-> Close(alerts[i])])
    BY <1>5 DEF ResolveList
  <2> HIDE DEF acknowledged
  <2>3. acknowledged \subseteq DOMAIN alerts
    BY DEF acknowledged
  <2> DEFINE f == [i \in acknowledged |-> Close(alerts[i])]
  <2>4. /\ DOMAIN f \subseteq DOMAIN alerts \cup {0}
        /\ \A i \in DOMAIN f : f[i] \in AlertRecord /\ Disposed(f[i])
    BY <2>1, <2>3
  <2>5. pc' = [pc EXCEPT ![w] = "update"] /\ writes' = [writes EXCEPT ![w] = f]
    BY <2>2 DEF WillWrite
  <2>6. alerts' = alerts /\ queue' \subseteq DOMAIN alerts
    BY <1>5, <1>q DEF ResolveList, Starts
  <2> HIDE DEF f
  <2>7. QED
    BY <2>4, <2>5, <2>6, PreparedStep
<1>6. ASSUME NEW w \in Workers, SweepList(w) PROVE IInv'
  BY <1>6 DEF SweepList, IInv, TypeOK, ClosedAlertsDisposed
<1>7. ASSUME NEW w \in Workers, NEW i \in queue, SweepGet(w, i) PROVE IInv'
  <2>1. Escalate(alerts[i]) \in AlertRecord /\ Disposed(Escalate(alerts[i]))
    BY <1>a, <1>q, RecordSteps
  <2>2. queue' \subseteq DOMAIN alerts
    BY <1>7, <1>q DEF SweepGet
  <2>3. QED
    BY <1>7, <1>q, <2>1, <2>2, PreparedOne DEF SweepGet
<1>8. ASSUME NEW w \in Workers, SweepEnd(w) PROVE IInv'
  BY <1>8 DEF SweepEnd, IInv, TypeOK, ClosedAlertsDisposed
<1>9. ASSUME NEW w \in Workers, NEW i \in DOMAIN writes[w], Update(w, i) PROVE IInv'
  <2>1. \A j \in DOMAIN alerts : alerts'[j] = alerts[j] \/ alerts'[j] = writes[w][i]
    BY <1>9 DEF Update
  <2>2. writes[w][i] \in AlertRecord /\ Disposed(writes[w][i])
    BY DEF IInv, TypeOK
  <2>3. alerts' = [j \in DOMAIN alerts |-> alerts'[j]]
    BY <1>9 DEF Update
  <2>4. alerts' \in Seq(AlertRecord) /\ DOMAIN alerts' = DOMAIN alerts
    BY <1>a, <2>1, <2>2, <2>3, AlertsRewritten
  <2>5. \A j \in DOMAIN alerts' : Disposed(alerts'[j])
    BY <1>a, <2>1, <2>2, <2>4
  <2>6. /\ DOMAIN writes' = Workers
        /\ pc' \in [Workers -> {"idle", "next", "create", "update"}]
        /\ queue' \subseteq queue
        /\ \A v \in Workers : v # w => pc'[v] = pc[v] /\ writes'[v] = writes[v]
        /\ pc'[w] # "create"
        /\ \/ writes'[w] = <<>>
           \/ writes'[w] = [j \in DOMAIN writes[w] \ {i} |-> writes[w][j]]
    BY <1>9 DEF Update, Restrict, IInv, TypeOK
  <2>7. \A v \in Workers :
          /\ DOMAIN writes'[v] \subseteq DOMAIN writes[v]
          /\ \A j \in DOMAIN writes'[v] : writes'[v][j] = writes[v][j]
    BY <2>6
  <2>8. QED
    BY <2>4, <2>5, <2>6, <2>7, <1>q
    DEF IInv, TypeOK, ClosedAlertsDisposed, Disposed
<1>10. ASSUME Tick PROVE IInv'
  <2>1. alerts' = [i \in DOMAIN alerts |-> Older(alerts[i])]
    BY <1>10 DEF Tick
  <2>2. \A i \in DOMAIN alerts : alerts'[i] \in AlertRecord /\ Disposed(alerts'[i])
    BY <1>a, <2>1, RecordSteps
  <2>3. alerts' \in Seq(AlertRecord) /\ DOMAIN alerts' = DOMAIN alerts
    BY <2>1, <2>2, AlertsRewritten
  <2>4. \A w \in Workers : \A i \in DOMAIN writes[w] :
          Older(writes[w][i]) \in AlertRecord /\ Disposed(Older(writes[w][i]))
    BY RecordSteps DEF IInv, TypeOK
  <2>5. /\ DOMAIN writes' = Workers /\ pc' = pc /\ queue' = queue
        /\ \A w \in Workers :
             /\ DOMAIN writes'[w] = DOMAIN writes[w]
             /\ \A i \in DOMAIN writes[w] : writes'[w][i] = Older(writes[w][i])
    BY <1>10 DEF Tick
  <2>6. QED
    BY <2>2, <2>3, <2>4, <2>5 DEF IInv, TypeOK, ClosedAlertsDisposed, Disposed
<1>11. CASE UNCHANGED vars
  BY <1>11 DEF vars, IInv, TypeOK, ClosedAlertsDisposed
<1>12. QED
  BY <1>1, <1>2, <1>3, <1>4, <1>5, <1>6, <1>7, <1>8, <1>9, <1>10, <1>11
  DEF Next, Start, Continue, Sweep

\* Alerts, and the records requests are about to write, keep their shape.
THEOREM AlertsTyped == Spec => []TypeOK
<1>1. IInv => TypeOK
  BY DEF IInv
<1>2. QED
  BY <1>1, InvariantInit, InvariantStep, PTL DEF Spec

\* No alert is acknowledged or closed without an engineer's disposition.
THEOREM NoneClosedUndisposed == Spec => []ClosedAlertsDisposed
<1>1. IInv => ClosedAlertsDisposed
  BY DEF IInv
<1>2. QED
  BY <1>1, InvariantInit, InvariantStep, PTL DEF Spec

-----------------------------------------------------------------------------
(* Requests one at a time. *)

\* Alert b may replace alert a in the store.
Follows(a, b) ==
  /\ b.key = a.key
  /\ a.disposed => b.disposed
  /\ b.status = "closed" => a.status \in {"acknowledged", "closed"}
  /\ a.status = "closed" => b.status = "closed"

\* The other unclosed alerts of its key are past the dedup window when record
\* b, for alert i, is to be stored as a fresh one.
RoomFor(i, b) ==
  b.status # "closed" /\ b.age < DedupWindow =>
    \A j \in Unclosed(b.key) \ {i} : alerts[j].age >= DedupWindow

\* One worker at a time has records to write.  They follow what is stored, and
\* only a resolve, which closes, has several.
SerialInv ==
  /\ \A v, w \in Workers : v # w /\ ~AtRest(v) => AtRest(w)
  /\ \A w \in Workers :
       /\ AtRest(w) => DOMAIN writes[w] = {}
       /\ pc[w] = "update" =>
            \A i \in DOMAIN writes[w] : i \in DOMAIN alerts /\ Follows(alerts[i], writes[w][i])
       /\ \A i \in DOMAIN writes[w] : RoomFor(i, writes[w][i])
       /\ \A i, j \in DOMAIN writes[w] : i # j => writes[w][i].status = "closed"
  /\ OneFreshAlertPerKey

\* A worker that starts to write is the only one.
LEMMA SerialPrepared ==
  ASSUME IInv, SerialInv, OneAtATime = TRUE, alerts' = alerts,
         NEW w \in Workers, AtRest(w), MayStart(w), NEW p \in {"create", "update"}, NEW f,
         pc' = [pc EXCEPT ![w] = p], writes' = [writes EXCEPT ![w] = f],
         p = "update" => \A i \in DOMAIN f : i \in DOMAIN alerts /\ Follows(alerts[i], f[i]),
         \A i \in DOMAIN f : RoomFor(i, f[i]),
         \A i, j \in DOMAIN f : i # j => f[i].status = "closed"
  PROVE  SerialInv'
<1>1. /\ pc'[w] = p /\ writes'[w] = f
      /\ \A v \in Workers \ {w} : pc'[v] = pc[v] /\ writes'[v] = writes[v] /\ AtRest(v)
  BY DEF IInv, TypeOK, MayStart
<1>2. AtRest(w)' = FALSE /\ \A v \in Workers \ {w} : AtRest(v)' /\ DOMAIN writes'[v] = {}
  BY <1>1 DEF AtRest, SerialInv
<1>3. \A i \in DOMAIN f : RoomFor(i, writes[w][i])'
  BY <1>1 DEF RoomFor, Unclosed
<1>4. OneFreshAlertPerKey'
  BY DEF SerialInv, OneFreshAlertPerKey, Unclosed
<1>5. \A v \in Workers :
        /\ AtRest(v)' => DOMAIN writes'[v] = {}
        /\ pc'[v] = "update" => \A i \in DOMAIN writes'[v] :
             i \in DOMAIN alerts' /\ Follows(alerts'[i], writes'[v][i])
        /\ \A i \in DOMAIN writes'[v] : RoomFor(i, writes[v][i])'
        /\ \A i, j \in DOMAIN writes'[v] : i # j => writes'[v][i].status = "closed"
  <2> TAKE v \in Workers
  <2>1. CASE v = w
    BY <1>1, <1>2, <1>3, <2>1
  <2>2. CASE v # w
    BY <1>2, <2>2
  <2>3. QED
    BY <2>1, <2>2
<1>6. \A u, v \in Workers : u # v /\ ~AtRest(u)' => AtRest(v)'
  BY <1>2
<1>7. QED
  BY <1>4, <1>5, <1>6 DEF SerialInv

\* Preparing one record that follows the alert it was made from.
LEMMA SerialPreparedOne ==
  ASSUME IInv, SerialInv, OneAtATime = TRUE, alerts' = alerts,
         NEW w \in Workers, AtRest(w), MayStart(w), NEW i \in DOMAIN alerts, NEW a,
         WillWrite(w, [j \in {i} |-> a]), Follows(alerts[i], a),
         a.status # "closed" /\ a.age < DedupWindow =>
           alerts[i].age < DedupWindow
  PROVE  SerialInv'
<1> DEFINE f == [j \in {i} |-> a]
<1>1. DOMAIN f = {i} /\ f[i] = a
  OBVIOUS
<1>2. pc' = [pc EXCEPT ![w] = "update"] /\ writes' = [writes EXCEPT ![w] = f]
  BY DEF WillWrite
<1> HIDE DEF f
<1>3. RoomFor(i, a)
  <2> SUFFICES ASSUME a.status # "closed", alerts[i].age < DedupWindow,
                      NEW j \in Unclosed(a.key) \ {i}
               PROVE  alerts[j].age >= DedupWindow
    BY DEF RoomFor
  <2>1. i \in Unclosed(a.key) /\ j \in DOMAIN alerts /\ alerts[i].key = a.key
    BY DEF Unclosed, Follows
  <2>2. alerts[i].key \in Keys /\ alerts[j].age \in Int /\ DedupWindow \in Int
    BY <2>1, AlertsIndexed, AlertAssumption DEF AlertRecord
  <2>3. ~(alerts[j].age < DedupWindow)
    BY <2>1, <2>2 DEF SerialInv, OneFreshAlertPerKey
  <2>4. QED
    BY <2>2, <2>3
<1>4. /\ \A j \in DOMAIN f : j \in DOMAIN alerts /\ Follows(alerts[j], f[j])
      /\ \A j \in DOMAIN f : RoomFor(j, f[j])
      /\ \A h, j \in DOMAIN f : h # j => f[h].status = "closed"
  BY <1>1, <1>3
<1>5. QED
  BY <1>2, <1>4, SerialPrepared

\* Of a key whose youngest unclosed alert is past the window, all are.
LEMMA YoungestDecides ==
  ASSUME IInv, NEW k, \A i \in FindOpenByDedupKey(k) : alerts[i].age >= DedupWindow,
         NEW j \in Unclosed(k)
  PROVE  alerts[j].age >= DedupWindow
<1> DEFINE ages == {alerts[i].age : i \in Unclosed(k)}
           less == OpToRel(<, Nat)
<1>1. \A i \in Unclosed(k) : alerts[i].age \in Nat
  <2>1. AgeCap \in Nat
    BY AlertAssumption DEF AgeCap
  <2>2. \A i \in Unclosed(k) : alerts[i] \in AlertRecord
    BY AlertsIndexed DEF Unclosed
  <2>3. QED
    BY <2>1, <2>2 DEF AlertRecord
<1>2. ages \subseteq Nat /\ ages # {}
  BY <1>1
<1>3. PICK least \in ages : \A age \in ages : ~(<<age, least>> \in less)
  BY <1>2, NatLessThanWellFounded, WFMin
<1>4. \A age \in ages : least <= age
  <2>1. less = {ss \in Nat \X Nat : ss[1] < ss[2]}
    BY DEF OpToRel
  <2> HIDE DEF less
  <2>2. ASSUME NEW age \in ages, age < least PROVE FALSE
    <3>1. <<age, least>> \in less
      BY <1>2, <2>1, <2>2
    <3>2. QED
      BY <1>3, <3>1
  <2>3. TAKE age \in ages
  <2>4. age \in Nat /\ least \in Nat
    BY <1>2
  <2>5. ~(age < least)
    BY <2>2
  <2> HIDE DEF ages
  <2>6. QED
    BY <2>4, <2>5
<1>5. PICK i \in Unclosed(k) : alerts[i].age = least
  OBVIOUS
<1>6. i \in FindOpenByDedupKey(k)
  BY <1>4, <1>5 DEF FindOpenByDedupKey
<1>7. /\ alerts[i].age \in Nat /\ alerts[j].age \in Nat /\ DedupWindow \in Nat
      /\ alerts[i].age <= alerts[j].age
  BY <1>1, <1>4, <1>5, AlertAssumption
<1>8. QED
  BY <1>6, <1>7

\* How the lifecycle steps of one alert follow on it.
LEMMA FollowFacts ==
  ASSUME NEW a \in AlertRecord
  PROVE  /\ Follows(a, Merge(a)) /\ Merge(a).key = a.key
         /\ a.status # "closed" => Follows(a, Ack(a)) /\ Ack(a).age = a.age
         /\ Follows(a, Escalate(a)) /\ Escalate(a).age = a.age
         /\ a.status = "acknowledged" =>
              Follows(a, Close(a)) /\ Close(a).status = "closed"
  BY DEF Merge, Ack, Escalate, Close, Follows, AlertRecord

\* Starting requests and sweeps.
LEMMA SerialStarts ==
  ASSUME IInv, SerialInv, OneAtATime = TRUE, NEW w \in Workers,
         Start(w) \/ \E i \in queue : SweepGet(w, i)
  PROVE  SerialInv'
<1>1. /\ \A i \in DOMAIN alerts : alerts[i] \in AlertRecord /\ alerts[i].age \in Int
      /\ DedupWindow \in Nat
  <2>1. AgeCap \in Nat /\ DedupWindow \in Nat
    BY AlertAssumption DEF AgeCap
  <2>2. QED
    BY <2>1, AlertsIndexed DEF AlertRecord
<1>2. /\ AtRest(w) /\ MayStart(w) /\ alerts' = alerts
  BY DEF Start, RaiseFind, ResolveList, AckGet, EscalateGet, Starts, SweepGet, AtRest
<1>3. ASSUME NEW k \in Keys, RaiseFind(w, k) PROVE SerialInv'
  <2>1. CASE \E i \in FindOpenByDedupKey(k) :
               /\ alerts[i].age < DedupWindow
               /\ WillWrite(w, [j \in {i} |-> Merge(alerts[i])])
    <3>1. PICK i \in DOMAIN alerts :
            /\ alerts[i].age < DedupWindow
            /\ WillWrite(w, [j \in {i} |-> Merge(alerts[i])])
      BY <2>1 DEF FindOpenByDedupKey, Unclosed
    <3>2. Follows(alerts[i], Merge(alerts[i]))
      BY <1>1, FollowFacts
    <3>3. QED
      BY <1>2, <3>1, <3>2, SerialPreparedOne
  <2>2. CASE /\ \A i \in FindOpenByDedupKey(k) : alerts[i].age >= DedupWindow
             /\ pc' = [pc EXCEPT ![w] = "create"]
             /\ writes' = [writes EXCEPT ![w] = [j \in {0} |-> NewAlert(k)]]
    <3> DEFINE f == [j \in {0} |-> NewAlert(k)]
    <3>1. DOMAIN f = {0} /\ f[0] = NewAlert(k)
      OBVIOUS
    <3>2. pc' = [pc EXCEPT ![w] = "create"] /\ writes' = [writes EXCEPT ![w] = f]
      BY <2>2
    <3> HIDE DEF f
    <3>3. \A j \in Unclosed(k) : alerts[j].age >= DedupWindow
      BY <2>2, YoungestDecides
    <3>4. RoomFor(0, NewAlert(k))
      BY <3>3 DEF RoomFor, NewAlert
    <3>5. /\ \A j \in DOMAIN f : RoomFor(j, f[j])
          /\ \A h, j \in DOMAIN f : h # j => f[h].status = "closed"
      BY <3>1, <3>4
    <3>6. QED
      BY <1>2, <3>2, <3>5, SerialPrepared
  <2>3. QED
    BY <1>3, <2>1, <2>2 DEF RaiseFind
<1>4. ASSUME NEW i \in DOMAIN alerts, AckGet(w, i) PROVE SerialInv'
  <2>1. alerts[i].status # "closed" /\ WillWrite(w, [j \in {i} |-> Ack(alerts[i])])
    BY <1>4 DEF AckGet
  <2>2. Follows(alerts[i], Ack(alerts[i])) /\ Ack(alerts[i]).age = alerts[i].age
    BY <1>1, <2>1, FollowFacts
  <2>3. QED
    BY <1>2, <2>1, <2>2, SerialPreparedOne
<1>5. ASSUME NEW i \in DOMAIN alerts, WillWrite(w, [j \in {i} |-> Escalate(alerts[i])])
      PROVE  SerialInv'
  <2>1. Follows(alerts[i], Escalate(alerts[i])) /\ Escalate(alerts[i]).age = alerts[i].age
    BY <1>1, FollowFacts
  <2>2. QED
    BY <1>2, <1>5, <2>1, SerialPreparedOne
<1>6. ASSUME NEW k \in Keys, ResolveList(w, k) PROVE SerialInv'
  <2> DEFINE acknowledged ==
        {i \in DOMAIN alerts : alerts[i].key = k /\ alerts[i].status = "acknowledged"}
             f == [i \in acknowledged |-> Close(alerts[i])]
  <2>1. pc' = [pc EXCEPT ![w] = "update"] /\ writes' = [writes EXCEPT ![w] = f]
    BY <1>6 DEF ResolveList, WillWrite
  <2>2. \A i \in acknowledged :
          /\ i \in DOMAIN alerts /\ Follows(alerts[i], Close(alerts[i]))
          /\ Close(alerts[i]).status = "closed"
    BY <1>1, FollowFacts
  <2>3. DOMAIN f = acknowledged /\ \A i \in acknowledged : f[i] = Close(alerts[i])
    OBVIOUS
  <2> HIDE DEF f, acknowledged
  <2>4. \A i \in DOMAIN f :
          i \in DOMAIN alerts /\ Follows(alerts[i], f[i]) /\ f[i].status = "closed"
    BY <2>2, <2>3
  <2>5. \A i \in DOMAIN f : RoomFor(i, f[i])
    BY <2>4 DEF RoomFor
  <2>6. QED
    BY <1>2, <2>1, <2>4, <2>5, SerialPrepared
<1>7. QED
  BY <1>3, <1>4, <1>5, <1>6 DEF Start, EscalateGet, SweepGet, IInv, TypeOK

\* The worker that writes is the only one that has anything to write.
LEMMA WriterAlone ==
  ASSUME IInv, SerialInv, NEW w \in Workers, ~AtRest(w)
  PROVE  \A v \in Workers \ {w} : AtRest(v) /\ DOMAIN writes[v] = {}
  BY DEF SerialInv

\* What a step that stores something must show of the alerts it leaves.
LEMMA SerialStored ==
  ASSUME IInv, IInv', SerialInv, NEW w \in Workers, ~AtRest(w),
         \A v \in Workers \ {w} : pc'[v] = pc[v] /\ writes'[v] = writes[v],
         OneFreshAlertPerKey',
         AtRest(w)' => DOMAIN writes'[w] = {},
         pc'[w] = "update" => \A i \in DOMAIN writes'[w] :
           i \in DOMAIN alerts' /\ Follows(alerts'[i], writes'[w][i]),
         \A i \in DOMAIN writes'[w] : RoomFor(i, writes[w][i])',
         \A i, j \in DOMAIN writes'[w] : i # j => writes'[w][i].status = "closed"
  PROVE  SerialInv'
<1>1. \A v \in Workers \ {w} : AtRest(v)' /\ DOMAIN writes'[v] = {}
  BY WriterAlone DEF AtRest
<1>2. \A v \in Workers :
        /\ AtRest(v)' => DOMAIN writes'[v] = {}
        /\ pc'[v] = "update" => \A i \in DOMAIN writes'[v] :
             i \in DOMAIN alerts' /\ Follows(alerts'[i], writes'[v][i])
        /\ \A i \in DOMAIN writes'[v] : RoomFor(i, writes[v][i])'
        /\ \A i, j \in DOMAIN writes'[v] : i # j => writes'[v][i].status = "closed"
  <2> TAKE v \in Workers
  <2>1. CASE v = w
    BY <2>1
  <2>2. CASE v # w
    BY <1>1, <2>2
  <2>3. QED
    BY <2>1, <2>2
<1>3. \A u, v \in Workers : u # v /\ ~AtRest(u)' => AtRest(v)'
  BY <1>1
<1>4. QED
  BY <1>2, <1>3 DEF SerialInv

\* Storing a new alert.
LEMMA SerialCreate ==
  ASSUME IInv, IInv', SerialInv, NEW w \in Workers, RaiseCreate(w)
  PROVE  /\ SerialInv'
         /\ \A i \in DOMAIN alerts : i \in DOMAIN alerts' /\ alerts'[i] = alerts[i]
<1> DEFINE b == writes[w][0]
           n == Len(alerts) + 1
<1>1. /\ ~AtRest(w) /\ 0 \in DOMAIN writes[w] /\ b \in AlertRecord
      /\ alerts' = Append(alerts, b)
  BY DEF RaiseCreate, AtRest, IInv, TypeOK
<1>2. RoomFor(0, b)
  BY <1>1 DEF SerialInv
<1>3. /\ DOMAIN alerts' = DOMAIN alerts \cup {n} /\ alerts'[n] = b /\ 0 \notin DOMAIN alerts
      /\ \A i \in DOMAIN alerts : alerts'[i] = alerts[i] /\ i # n
  <2>1. /\ alerts' \in Seq(AlertRecord) /\ Len(alerts') = n /\ alerts'[n] = b
        /\ \A i \in 1 .. Len(alerts) : alerts'[i] = alerts[i]
    BY <1>1, AppendProperties DEF IInv, TypeOK
  <2>2. DOMAIN alerts' = 1 .. n
    BY <2>1, ElementOfSeq
  <2>3. DOMAIN alerts = 1 .. Len(alerts) /\ Len(alerts) \in Nat
    BY AlertsIndexed
  <2>4. QED
    BY <2>1, <2>2, <2>3
<1> HIDE DEF b, n
<1>4. \A k \in Keys : Unclosed(k)' \subseteq Unclosed(k) \cup {n}
  BY <1>3 DEF Unclosed
<1>5. ASSUME NEW i \in DOMAIN alerts, b.status # "closed", b.age < DedupWindow,
             i \in Unclosed(b.key)
      PROVE  ~(alerts[i].age < DedupWindow)
  <2>1. alerts[i].age >= DedupWindow
    BY <1>2, <1>3, <1>5 DEF RoomFor
  <2>2. alerts[i].age \in Int /\ DedupWindow \in Int
    BY AlertsIndexed, AlertAssumption DEF AlertRecord
  <2>3. QED
    BY <2>1, <2>2
<1>6. OneFreshAlertPerKey'
  <2> SUFFICES ASSUME NEW k \in Keys, NEW i \in Unclosed(k)', NEW j \in Unclosed(k)',
                      alerts'[i].age < DedupWindow, alerts'[j].age < DedupWindow
               PROVE  i = j
    BY DEF OneFreshAlertPerKey
  <2>1. CASE i \in DOMAIN alerts /\ j \in DOMAIN alerts
    BY <1>3, <2>1 DEF SerialInv, OneFreshAlertPerKey, Unclosed
  <2>2. ASSUME NEW h \in Unclosed(k)', NEW new \in Unclosed(k)', new = n, h \in DOMAIN alerts,
               alerts'[h].age < DedupWindow, alerts'[new].age < DedupWindow
        PROVE  FALSE
    <3>1. b.status # "closed" /\ b.key = k /\ b.age < DedupWindow
      BY <1>3, <2>2 DEF Unclosed
    <3>2. h \in Unclosed(k) /\ alerts[h].age < DedupWindow
      BY <1>3, <2>2 DEF Unclosed
    <3>3. QED
      BY <1>5, <2>2, <3>1, <3>2
  <2>3. \A h \in Unclosed(k)' : h \in DOMAIN alerts \/ h = n
    BY <1>3 DEF Unclosed
  <2>4. QED
    BY <2>1, <2>2, <2>3
<1>7. /\ pc'[w] = "idle" /\ DOMAIN writes'[w] = {}
      /\ \A v \in Workers \ {w} : pc'[v] = pc[v] /\ writes'[v] = writes[v]
  BY DEF RaiseCreate, IInv, TypeOK
<1>8. SerialInv'
  BY <1>1, <1>6, <1>7, SerialStored
<1>9. QED
  BY <1>3, <1>8

\* Writing one record back.
LEMMA SerialUpdate ==
  ASSUME IInv, IInv', SerialInv, NEW w \in Workers, NEW i \in DOMAIN writes[w], Update(w, i)
  PROVE  /\ SerialInv'
         /\ \A j \in DOMAIN alerts : alerts'[j] = alerts[j] \/ Follows(alerts[j], alerts'[j])
<1> DEFINE b == writes[w][i]
<1>1. /\ ~AtRest(w) /\ i \in DOMAIN alerts /\ Follows(alerts[i], b) /\ RoomFor(i, b)
      /\ b \in AlertRecord
  BY DEF Update, AtRest, SerialInv, IInv, TypeOK
<1>2. /\ DOMAIN alerts' = DOMAIN alerts /\ alerts'[i] = b
      /\ \A j \in DOMAIN alerts \ {i} : alerts'[j] = alerts[j]
  BY <1>1 DEF Update
<1>3. /\ \A v \in Workers \ {w} : pc'[v] = pc[v] /\ writes'[v] = writes[v]
      /\ DOMAIN writes'[w] \subseteq DOMAIN writes[w] \ {i}
      /\ \A j \in DOMAIN writes'[w] : writes'[w][j] = writes[w][j]
      /\ pc'[w] \in {"update", "next", "idle"}
      /\ pc'[w] # "update" => DOMAIN writes'[w] = {}
  BY DEF Update, Restrict, IInv, TypeOK
<1>4. \A j \in DOMAIN writes'[w] : writes[w][j].status = "closed"
  BY <1>3 DEF SerialInv
<1>5. \A j \in DOMAIN writes'[w] :
        j \in DOMAIN alerts' /\ Follows(alerts'[j], writes'[w][j])
  BY <1>2, <1>3 DEF SerialInv, Update
<1> HIDE DEF b
<1>6. \A j \in DOMAIN writes'[w] : RoomFor(j, writes[w][j])'
  BY <1>3, <1>4 DEF RoomFor
<1>7. OneFreshAlertPerKey'
  <2> SUFFICES ASSUME NEW k \in Keys, NEW h \in Unclosed(k)', NEW j \in Unclosed(k)',
                      alerts'[h].age < DedupWindow, alerts'[j].age < DedupWindow
               PROVE  h = j
    BY DEF OneFreshAlertPerKey
  <2>1. CASE h # i /\ j # i
    BY <1>2, <2>1 DEF SerialInv, OneFreshAlertPerKey, Unclosed
  <2>2. ASSUME NEW old \in Unclosed(k)', NEW new \in Unclosed(k)', new = i, old # i,
               alerts'[old].age < DedupWindow, alerts'[new].age < DedupWindow
        PROVE  FALSE
    <3>1. b.status # "closed" /\ b.key = k /\ b.age < DedupWindow
      BY <1>2, <2>2 DEF Unclosed
    <3>2. old \in Unclosed(k) /\ alerts[old].age < DedupWindow /\ old \in DOMAIN alerts
      BY <1>2, <2>2 DEF Unclosed
    <3>3. alerts[old].age >= DedupWindow
      BY <1>1, <2>2, <3>1, <3>2 DEF RoomFor
    <3>4. alerts[old].age \in Int /\ DedupWindow \in Int
      BY <3>2, AlertsIndexed, AlertAssumption DEF AlertRecord
    <3>5. QED
      BY <3>2, <3>3, <3>4
  <2>3. QED
    BY <2>1, <2>2
<1>8. SerialInv'
  <2>1. AtRest(w)' => DOMAIN writes'[w] = {}
    BY <1>3 DEF AtRest
  <2>2. \A h, j \in DOMAIN writes'[w] : h # j => writes'[w][h].status = "closed"
    BY <1>3, <1>4
  <2>3. QED
    BY <1>1, <1>3, <1>5, <1>6, <1>7, <2>1, <2>2, SerialStored
<1>9. QED
  BY <1>1, <1>2, <1>8

\* The clock makes no alert fresh again.
LEMMA OlderFacts ==
  ASSUME NEW a \in AlertRecord
  PROVE  /\ Older(a).key = a.key /\ Older(a).status = a.status
         /\ Older(a).disposed = a.disposed
         /\ a.age \in Int /\ Older(a).age \in Int /\ Older(a).age >= a.age
<1>1. AgeCap \in Nat
  BY AlertAssumption DEF AgeCap
<1>2. QED
  BY <1>1 DEF Older, AlertRecord

\* The clock ages what is stored and what is to be written alike.
LEMMA SerialTick ==
  ASSUME IInv, SerialInv, Tick
  PROVE  /\ SerialInv'
         /\ \A i \in DOMAIN alerts :
              /\ i \in DOMAIN alerts'
              /\ alerts'[i].status = alerts[i].status
              /\ alerts'[i].disposed = alerts[i].disposed
<1> DEFINE Ages(a, b) ==
      /\ b.key = a.key /\ b.status = a.status /\ b.disposed = a.disposed
      /\ a.age \in Int /\ b.age \in Int /\ b.age >= a.age
<1>1. DedupWindow \in Int
  BY AlertAssumption
<1>2. /\ DOMAIN alerts' = DOMAIN alerts
      /\ \A i \in DOMAIN alerts : Ages(alerts[i], alerts'[i])
  BY AlertsIndexed, OlderFacts DEF Tick
<1>3. \A w \in Workers :
        /\ DOMAIN writes'[w] = DOMAIN writes[w] /\ pc'[w] = pc[w]
        /\ \A i \in DOMAIN writes[w] : Ages(writes[w][i], writes'[w][i])
  BY OlderFacts DEF Tick, IInv, TypeOK
<1> HIDE DEF Ages
<1>4. \A k : Unclosed(k)' = Unclosed(k)
  BY <1>2 DEF Unclosed, Ages
<1>5. \A i \in DOMAIN alerts : alerts'[i].age < DedupWindow => alerts[i].age < DedupWindow
  BY <1>1, <1>2 DEF Ages
<1>6. OneFreshAlertPerKey'
  <2> SUFFICES ASSUME NEW k \in Keys, NEW i \in Unclosed(k)', NEW j \in Unclosed(k)',
                      alerts'[i].age < DedupWindow, alerts'[j].age < DedupWindow
               PROVE  i = j
    BY DEF OneFreshAlertPerKey
  <2>1. i \in Unclosed(k) /\ j \in Unclosed(k)
    BY <1>4
  <2>2. i \in DOMAIN alerts /\ j \in DOMAIN alerts
    BY <2>1 DEF Unclosed
  <2>3. QED
    BY <1>5, <2>1, <2>2 DEF SerialInv, OneFreshAlertPerKey
<1>7. ASSUME NEW w \in Workers, NEW i \in DOMAIN writes[w] PROVE RoomFor(i, writes[w][i])'
  <2> DEFINE a == writes[w][i]
             b == writes'[w][i]
  <2>1. RoomFor(i, a) /\ Ages(a, b)
    BY <1>3 DEF SerialInv
  <2> HIDE DEF a, b
  <2>2. ASSUME b.status # "closed", b.age < DedupWindow, NEW k, k = b.key,
               NEW j \in Unclosed(k)' \ {i}
        PROVE  alerts'[j].age >= DedupWindow
    <3>1. a.status # "closed" /\ a.age < DedupWindow /\ a.key = b.key
      BY <1>1, <2>1, <2>2 DEF Ages
    <3>2. j \in Unclosed(a.key) \ {i} /\ j \in DOMAIN alerts
      <4>1. j \in Unclosed(k) \ {i} /\ a.key = k
        BY <1>4, <2>2, <3>1
      <4>2. QED
        BY <4>1 DEF Unclosed
    <3>3. alerts[j].age >= DedupWindow
      BY <2>1, <3>1, <3>2 DEF RoomFor
    <3>4. Ages(alerts[j], alerts'[j])
      BY <1>2, <3>2
    <3>5. QED
      BY <1>1, <3>3, <3>4 DEF Ages
  <2>3. b.status # "closed" /\ b.age < DedupWindow =>
          \A j \in {h \in DOMAIN alerts' : alerts'[h].key = b.key
                                          /\ alerts'[h].status # "closed"} \ {i} :
            alerts'[j].age >= DedupWindow
    BY <2>2 DEF Unclosed
  <2>4. QED
    BY <2>3 DEF RoomFor, Unclosed, b
<1>8. ASSUME NEW w \in Workers, pc[w] = "update", NEW i \in DOMAIN writes[w]
      PROVE  i \in DOMAIN alerts' /\ Follows(alerts'[i], writes'[w][i])
  <2>1. i \in DOMAIN alerts /\ Follows(alerts[i], writes[w][i])
    BY <1>8 DEF SerialInv
  <2>2. Ages(alerts[i], alerts'[i]) /\ Ages(writes[w][i], writes'[w][i])
    BY <1>2, <1>3, <2>1
  <2>3. QED
    BY <1>2, <2>1, <2>2 DEF Follows, Ages
<1>9. \A w \in Workers : \A i, j \in DOMAIN writes[w] :
        i # j => writes'[w][i].status = "closed"
  BY <1>3 DEF SerialInv, Ages
<1>10. SerialInv'
  BY <1>3, <1>6, <1>7, <1>8, <1>9 DEF SerialInv, AtRest
<1>11. QED
  BY <1>2, <1>10 DEF Ages

\* The sweeper lists and ends without writing anything.
LEMMA SerialRest ==
  ASSUME IInv, SerialInv, (\E w \in Workers : SweepList(w) \/ SweepEnd(w)) \/ UNCHANGED vars
  PROVE  SerialInv'
<1>1. alerts' = alerts /\ writes' = writes
  BY DEF SweepList, SweepEnd, vars
<1>2. \A w \in Workers :
        /\ AtRest(w)' <=> AtRest(w)
        /\ pc'[w] = "update" => pc[w] = "update"
  BY DEF SweepList, SweepEnd, vars, AtRest, IInv, TypeOK
<1>3. ASSUME NEW w \in Workers, NEW i \in DOMAIN writes'[w]
      PROVE  RoomFor(i, writes[w][i])'
  <2>1. RoomFor(i, writes[w][i])
    BY <1>1 DEF SerialInv
  <2>2. QED
    BY <1>1, <2>1 DEF RoomFor, Unclosed
<1>4. OneFreshAlertPerKey'
  BY <1>1 DEF SerialInv, OneFreshAlertPerKey, Unclosed
<1>5. \A w \in Workers :
        /\ AtRest(w)' => DOMAIN writes'[w] = {}
        /\ pc'[w] = "update" => \A i \in DOMAIN writes'[w] :
             i \in DOMAIN alerts' /\ Follows(alerts'[i], writes'[w][i])
        /\ \A i, j \in DOMAIN writes'[w] : i # j => writes'[w][i].status = "closed"
  <2> TAKE w \in Workers
  <2>1. /\ AtRest(w)' => AtRest(w)
        /\ pc'[w] = "update" => pc[w] = "update"
    BY <1>2 DEF AtRest
  <2>2. AtRest(w)' => DOMAIN writes'[w] = {}
    BY <1>1, <2>1 DEF SerialInv
  <2>3. pc'[w] = "update" => \A i \in DOMAIN writes'[w] :
          i \in DOMAIN alerts' /\ Follows(alerts'[i], writes'[w][i])
    BY <1>1, <2>1 DEF SerialInv
  <2>4. \A i, j \in DOMAIN writes'[w] : i # j => writes'[w][i].status = "closed"
    BY <1>1 DEF SerialInv
  <2>5. QED
    BY <2>2, <2>3, <2>4
<1>6. ASSUME NEW v \in Workers, NEW w \in Workers, v # w, ~AtRest(v)' PROVE AtRest(w)'
  <2>1. ~AtRest(v)
    BY <1>2, <1>6 DEF AtRest
  <2>2. AtRest(w)
    BY <1>6, <2>1 DEF SerialInv
  <2>3. QED
    BY <1>2, <2>2 DEF AtRest
<1>7. QED
  BY <1>3, <1>4, <1>5, <1>6 DEF SerialInv

LEMMA SerialInit == ASSUME Init PROVE SerialInv
  BY EmptySeq DEF Init, SerialInv, AtRest, OneFreshAlertPerKey, Unclosed

\* What a step of requests one at a time does to the alerts that are stored.
LEMMA SerialStep ==
  ASSUME IInv, SerialInv, OneAtATime = TRUE, [Next]_vars
  PROVE  /\ SerialInv'
         /\ \A i \in DOMAIN alerts :
              \/ Follows(alerts[i], alerts'[i])
              \/ /\ alerts'[i].status = alerts[i].status
                 /\ alerts'[i].disposed = alerts[i].disposed
<1>1. IInv'
  BY InvariantStep
<1>2. CASE Tick
  BY <1>2, SerialTick
<1>3. ASSUME NEW w \in Workers, Start(w) \/ \E i \in queue : SweepGet(w, i)
      PROVE  SerialInv' /\ alerts' = alerts
  BY <1>3, SerialStarts
  DEF Start, RaiseFind, ResolveList, AckGet, EscalateGet, Starts, SweepGet
<1>4. ASSUME NEW w \in Workers, RaiseCreate(w)
      PROVE  SerialInv' /\ \A i \in DOMAIN alerts : alerts'[i] = alerts[i]
  BY <1>1, <1>4, SerialCreate
<1>5. ASSUME NEW w \in Workers, NEW i \in DOMAIN writes[w], Update(w, i)
      PROVE  /\ SerialInv'
             /\ \A j \in DOMAIN alerts :
                  alerts'[j] = alerts[j] \/ Follows(alerts[j], alerts'[j])
  BY <1>1, <1>5, SerialUpdate
<1>6. CASE (\E w \in Workers : SweepList(w) \/ SweepEnd(w)) \/ UNCHANGED vars
  BY <1>6, SerialRest DEF SweepList, SweepEnd, vars
<1>7. QED
  BY <1>2, <1>3, <1>4, <1>5, <1>6 DEF Next, Continue, Sweep

\* Dedup, for any number of alerts, keys and windows: of requests one at a
\* time, whose saves may fail, no two leave fresh alerts of one key
\* (AlertService.CreateWithDedup).
THEOREM OneFreshAlert ==
  ASSUME OneAtATime = TRUE
  PROVE  Spec => []OneFreshAlertPerKey
<1>1. SerialInv => OneFreshAlertPerKey
  BY DEF SerialInv
<1>2. IInv /\ SerialInv /\ [Next]_vars => SerialInv'
  BY SerialStep
<1>3. Init => SerialInv
  BY SerialInit
<1>4. QED
  BY <1>1, <1>2, <1>3, InvariantInit, InvariantStep, PTL DEF Spec

\* An alert is closed only after it was acknowledged, and for good
\* (AlertService.ResolveActive), when requests do not overlap.
THEOREM ClosedThroughAck ==
  ASSUME OneAtATime = TRUE
  PROVE  Spec => ClosedOnlyFromAcknowledged
<1>1. IInv /\ SerialInv /\ [Next]_vars =>
        [\A i \in DOMAIN alerts :
          /\ alerts'[i].status = "closed" => alerts[i].status \in {"acknowledged", "closed"}
          /\ alerts[i].status = "closed" => alerts'[i].status = "closed"]_vars
  BY SerialStep DEF Follows
<1>2. IInv /\ SerialInv /\ [Next]_vars => SerialInv'
  BY SerialStep
<1>3. Init => SerialInv
  BY SerialInit
<1>4. QED
  BY <1>1, <1>2, <1>3, InvariantInit, InvariantStep, PTL DEF Spec, ClosedOnlyFromAcknowledged

\* An engineer's disposition stays on record (Merge and Escalate write back
\* what they read), when requests do not overlap.
THEOREM DispositionsKept ==
  ASSUME OneAtATime = TRUE
  PROVE  Spec => DispositionKept
<1>1. IInv /\ SerialInv /\ [Next]_vars =>
        [\A i \in DOMAIN alerts : alerts[i].disposed => alerts'[i].disposed]_vars
  BY SerialStep DEF Follows
<1>2. IInv /\ SerialInv /\ [Next]_vars => SerialInv'
  BY SerialStep
<1>3. Init => SerialInv
  BY SerialInit
<1>4. QED
  BY <1>1, <1>2, <1>3, InvariantInit, InvariantStep, PTL DEF Spec, DispositionKept
=============================================================================
