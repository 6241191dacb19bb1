---------------------------- MODULE AlertLifecycle ----------------------------
(***************************************************************************)
(* Alerts: raised and merged by samples, acknowledged and escalated by     *)
(* engineers, closed by samples that show the condition has cleared,       *)
(* escalated by the sweeper.                                               *)
(*                                                                         *)
(* As in InterlockRaces a worker is an HTTP request or the sweeper         *)
(* goroutine, one step is one call of the alert store, and a worker writes *)
(* back whole records that it read with an earlier call.  A sample makes   *)
(* one such request for each alert type it judges, and drops its error.    *)
(*                                                                         *)
(* Messages, levels, counts, operators and audit entries are left out.     *)
(***************************************************************************)
EXTENDS Integers, Sequences, FiniteSets, Functions

CONSTANTS
  Keys,          \* dedup keys: a monitor zone and an alert type
  Requesters,    \* workers that take requests, one request each at a time
  Sweeper,       \* the worker that runs EscalateSweeper
  Operations,    \* kinds of request the environment sends
  DedupWindow,   \* config AlertDedupWindow, in clock ticks
  EscalateAfter, \* config AlertEscalateAfter, in clock ticks
  MaxAlerts,     \* bound: alerts ever created
  SaveMayFail,   \* may a write fail after it changed the memory?
  OneAtATime     \* are requests served one after the other?

ASSUME AlertAssumption ==
  /\ Operations \subseteq {"raise", "resolve", "ack", "escalate", "sweep"}
  /\ DedupWindow \in Nat \ {0}
  /\ EscalateAfter \in Nat \ {0}
  /\ MaxAlerts \in Nat
  /\ SaveMayFail \in BOOLEAN
  /\ OneAtATime \in BOOLEAN

Workers == Requesters \cup {Sweeper}

AlertStatuses == {"open", "acknowledged", "escalated", "closed"}

\* Ages are only compared with the two windows and stop counting there.
AgeCap == IF DedupWindow > EscalateAfter THEN DedupWindow ELSE EscalateAfter

\* `age' is now - CreatedAt; `disposed' tells whether an engineer's
\* disposition is on record.
AlertRecord ==
  [key : Keys, status : AlertStatuses, age : 0 .. AgeCap, disposed : BOOLEAN]

VARIABLES
  alerts, \* the stored alerts, in the order they were created; ids are positions
  pc,     \* what each worker does next
  writes, \* records each worker has yet to write back, by alert id
  queue   \* overdue alerts the sweeper has listed and not come to yet

vars == <<alerts, pc, writes, queue>>

-----------------------------------------------------------------------------
\* Mutant of NewAlert: the status is left at its zero value.
NewAlertBlank(k) == [key |-> k, status |-> "", age |-> 0, disposed |-> FALSE]

NewAlert(k) == [key |-> k, status |-> "open", age |-> 0, disposed |-> FALSE]

\* Mutant of Merge: the old record is replaced by the new one.
MergeReplacing(a) == NewAlert(a.key)

\* Merge refreshes CreatedAt and leaves the status alone.
Merge(a) == [a EXCEPT !.age = 0]

Ack(a) == [a EXCEPT !.status = "acknowledged", !.disposed = TRUE]

\* Escalate and Close look at nothing but closed.
Escalate(a) == IF a.status = "closed" THEN a ELSE [a EXCEPT !.status = "escalated"]

Close(a) == [a EXCEPT !.status = "closed"]

NeedsEscalation(a) == a.status = "open" /\ a.age >= EscalateAfter

Unclosed(k) == {i \in DOMAIN alerts : alerts[i].key = k /\ alerts[i].status # "closed"}

\* Mutant of FindOpenByDedupKey: alerts that are not open are passed over.
FindOpenOnly(k) ==
  {i \in Unclosed(k) :
     /\ alerts[i].status = "open"
     /\ \A j \in Unclosed(k) : alerts[j].status = "open" => alerts[i].age <= alerts[j].age}

\* FindOpenByDedupKey: the unclosed alert created last.  Alerts of one clock
\* tick differ by less than a tick, so any of them may be the one.
FindOpenByDedupKey(k) ==
  {i \in Unclosed(k) : \A j \in Unclosed(k) : alerts[i].age <= alerts[j].age}

-----------------------------------------------------------------------------
AtRest(w) == pc[w] \in {"idle", "next"}

MayStart(w) == OneAtATime => \A v \in Workers \ {w} : AtRest(v)

Starts(w, op) ==
  /\ op \in Operations
  /\ w \in Requesters
  /\ pc[w] = "idle"
  /\ MayStart(w)
  /\ UNCHANGED <<alerts, queue>>

\* Worker w will write the records of f.
WillWrite(w, f) ==
  /\ pc' = [pc EXCEPT ![w] = "update"]
  /\ writes' = [writes EXCEPT ![w] = f]

-----------------------------------------------------------------------------
\* CreateWithDedup: merge into the youngest unclosed alert if that is within
\* the window, whatever its status, or else create one.
RaiseFind(w, k) ==
  /\ Starts(w, "raise")
  /\ \/ \E i \in FindOpenByDedupKey(k) :
          /\ alerts[i].age < DedupWindow
          /\ WillWrite(w, [j \in {i} |-> Merge(alerts[i])])
     \/ /\ \A i \in FindOpenByDedupKey(k) : alerts[i].age >= DedupWindow
        /\ Len(alerts) + Cardinality({v \in Workers : pc[v] = "create"}) < MaxAlerts
        /\ pc' = [pc EXCEPT ![w] = "create"]
        /\ writes' = [writes EXCEPT ![w] = [j \in {0} |-> NewAlert(k)]]

RaiseCreate(w) ==
  /\ pc[w] = "create"
  /\ alerts' = Append(alerts, writes[w][0])
  /\ pc' = [pc EXCEPT ![w] = "idle"]
  /\ writes' = [writes EXCEPT ![w] = <<>>]
  /\ UNCHANGED queue

\* POST /api/alerts/{id}/ack with a disposition; closed alerts are refused.
AckGet(w, i) ==
  /\ Starts(w, "ack")
  /\ alerts[i].status # "closed"
  /\ WillWrite(w, [j \in {i} |-> Ack(alerts[i])])

\* POST /api/alerts/{id}/escalate; the record is written even if closed.
EscalateGet(w, i) ==
  /\ Starts(w, "escalate")
  /\ WillWrite(w, [j \in {i} |-> Escalate(alerts[i])])

\* Mutant of ResolveList: open and escalated alerts are closed as well.
ResolveListAll(w, k) ==
  /\ Starts(w, "resolve")
  /\ Unclosed(k) # {}
  /\ WillWrite(w, [i \in Unclosed(k) |-> Close(alerts[i])])

\* ResolveActive: closes what was acknowledged when it was listed.
ResolveList(w, k) ==
  LET acknowledged ==
        {i \in DOMAIN alerts : alerts[i].key = k /\ alerts[i].status = "acknowledged"}
  IN  /\ Starts(w, "resolve")
      /\ acknowledged # {}
      /\ WillWrite(w, [i \in acknowledged |-> Close(alerts[i])])

\* EscalateSweeper.Sweep: lists the overdue alerts, then gets and escalates
\* one after the other.
SweepList(w) ==
  /\ w = Sweeper
  /\ "sweep" \in Operations
  /\ pc[w] = "idle"
  /\ MayStart(w)
  /\ queue' = {i \in DOMAIN alerts : NeedsEscalation(alerts[i])}
  /\ queue' # {}
  /\ pc' = [pc EXCEPT ![w] = "next"]
  /\ UNCHANGED <<alerts, writes>>

SweepGet(w, i) ==
  /\ pc[w] = "next"
  /\ i \in queue
  /\ MayStart(w)
  /\ queue' = queue \ {i}
  /\ WillWrite(w, [j \in {i} |-> Escalate(alerts[i])])
  /\ UNCHANGED alerts

\* Mutant of SweepEnd: the goroutine returns after its first sweep.
SweepOnce(w) ==
  /\ pc[w] = "next"
  /\ queue = {}
  /\ pc' = [pc EXCEPT ![w] = "returned"]
  /\ UNCHANGED <<alerts, writes, queue>>

SweepEnd(w) ==
  /\ pc[w] = "next"
  /\ queue = {}
  /\ pc' = [pc EXCEPT ![w] = "idle"]
  /\ UNCHANGED <<alerts, writes, queue>>

\* Alerts().Update with the next record; an error ends the request or sweep.
Update(w, i) ==
  /\ pc[w] = "update"
  /\ i \in DOMAIN writes[w]
  /\ alerts' = [alerts EXCEPT ![i] = writes[w][i]]
  /\ \/ /\ writes' = [writes EXCEPT ![w] = Restrict(@, DOMAIN @ \ {i})]
        /\ pc' = [pc EXCEPT ![w] = IF DOMAIN writes[w] # {i} THEN "update"
                                   ELSE IF w = Sweeper THEN "next" ELSE "idle"]
        /\ UNCHANGED queue
     \/ /\ SaveMayFail
        /\ writes' = [writes EXCEPT ![w] = <<>>]
        /\ pc' = [pc EXCEPT ![w] = "idle"]
        /\ queue' = IF w = Sweeper THEN {} ELSE queue

\* The clock; a record that was read and not yet written grows older too.
Older(a) == [a EXCEPT !.age = IF @ < AgeCap THEN @ + 1 ELSE @]

Tick ==
  /\ alerts' = [i \in DOMAIN alerts |-> Older(alerts[i])]
  /\ writes' = [w \in Workers |-> [i \in DOMAIN writes[w] |-> Older(writes[w][i])]]
  /\ UNCHANGED <<pc, queue>>

-----------------------------------------------------------------------------
Init ==
  /\ alerts = <<>>
  /\ pc = [w \in Workers |-> "idle"]
  /\ writes = [w \in Workers |-> <<>>]
  /\ queue = {}

Start(w) ==
  \/ \E k \in Keys : RaiseFind(w, k) \/ ResolveList(w, k)
  \/ \E i \in DOMAIN alerts : AckGet(w, i) \/ EscalateGet(w, i)

Continue(w) ==
  \/ RaiseCreate(w)
  \/ \E i \in DOMAIN writes[w] : Update(w, i)

Sweep(w) ==
  \/ SweepList(w)
  \/ \E i \in queue : SweepGet(w, i)
  \/ SweepEnd(w)

Next == Tick \/ \E w \in Workers : Start(w) \/ Continue(w) \/ Sweep(w)

Spec == Init /\ [][Next]_vars

\* The clock runs, started requests go on, and the ticker starts sweeps.
Fairness ==
  /\ WF_vars(Tick)
  /\ \A w \in Workers : WF_vars(Continue(w))
  /\ WF_vars(Sweep(Sweeper))

FairSpec == Spec /\ Fairness

-----------------------------------------------------------------------------
TypeOK ==
  /\ alerts \in Seq(AlertRecord)
  /\ pc \in [Workers -> {"idle", "next", "create", "update"}]
  /\ DOMAIN writes = Workers
  /\ \A w \in Workers :
       /\ \A i \in DOMAIN writes[w] : writes[w][i] \in AlertRecord
       /\ DOMAIN writes[w] \subseteq DOMAIN alerts \cup {0}
  /\ queue \subseteq DOMAIN alerts

\* Dedup: of the alerts that still need something, at most one per monitor
\* zone and type is younger than the dedup window (CreateWithDedup).
OneFreshAlertPerKey ==
  \A k \in Keys, i, j \in DOMAIN alerts :
    /\ {i, j} \subseteq Unclosed(k)
    /\ alerts[i].age < DedupWindow /\ alerts[j].age < DedupWindow
    => i = j

\* An alert is closed only after it was acknowledged, and closed for good:
\* open and escalated alerts stay visible however often the condition clears
\* (ResolveActive), and no sweep or merge revives a closed one.
ClosedOnlyFromAcknowledged ==
  [][\A i \in DOMAIN alerts :
       /\ alerts'[i].status = "closed" => alerts[i].status \in {"acknowledged", "closed"}
       /\ alerts[i].status = "closed" => alerts'[i].status = "closed"]_vars

\* The disposition of an engineer is never lost again (Merge and Escalate
\* write back the record they read).
DispositionKept ==
  [][\A i \in DOMAIN alerts : alerts[i].disposed => alerts'[i].disposed]_vars

\* However requests overlap and whatever write fails: no alert is closed
\* without a disposition.
ClosedAlertsDisposed ==
  \A i \in DOMAIN alerts :
    alerts[i].status \in {"acknowledged", "closed"} => alerts[i].disposed

\* The inductive invariant of AlertLifecycleProofs: what a worker is about to
\* write has the same shape and is disposed in the same cases.
Disposed(a) == a.status \in {"acknowledged", "closed"} => a.disposed

IInv ==
  /\ TypeOK
  /\ ClosedAlertsDisposed
  /\ \A w \in Workers :
       /\ \A i \in DOMAIN writes[w] : Disposed(writes[w][i])
       /\ pc[w] = "create" => 0 \in DOMAIN writes[w]

\* No alert stays open past the escalation window for ever: one that is
\* neither acknowledged nor raised again is escalated in the end, even when
\* sweeps overlap with requests that write old records back (but not when
\* every sweep fails: an error ends it before the alerts further down).
OverdueEscalated ==
  \A i \in 1 .. MaxAlerts :
    []<>(i \notin DOMAIN alerts \/ ~NeedsEscalation(alerts[i]))
=============================================================================
