------------------------------ MODULE Dashboard ------------------------------
(***************************************************************************)
(* The overview page and GET /api/overview, beside the requests of         *)
(* InterlockRaces that change what they show.                              *)
(*                                                                         *)
(* The page's hook useZones asks for the overview when it is started and   *)
(* then at every interval, whether or not earlier questions have been      *)
(* answered.  Each question is a poll: OverviewService.Build reads zones,  *)
(* monitor zones and interlock logs with one store call each, and the      *)
(* answer travels back until it arrives.  The active alerts and the latest *)
(* samples, further reads of the same kind, are left out.                  *)
(***************************************************************************)
EXTENDS InterlockRaces

CONSTANTS
  Polls,        \* bound: polls under way at the same time
  MaxErrors     \* bound: polls that fail

ASSUME PollAssumption == MaxErrors \in Nat

VARIABLES
  polls,    \* the polls under way
  page,     \* what the hook holds
  errors    \* polls that have failed

pageVars == <<polls, page, errors>>
allVars == <<vars, pageVars>>

NoPoll == [step |-> "none"]

\* What Build has collected so far.  `calm' is history: no request of another
\* client has been under way, or been served, since Build began.
NewPoll(calm) ==
  [step |-> "zones", calm |-> calm,
   interlocked |-> {}, zones |-> {}, monitors |-> {}, open |-> 0]

Quiet == \A w \in Workers : AtRest(w)

-----------------------------------------------------------------------------
\* OverviewService.Build.

Interlocked == {z \in DOMAIN zones : zones[z].status = "interlocked"}

\* Mutant of OpenCount: restored logs are counted too.
OpenCountAll == Len(interlocks)

OpenCount == Cardinality({i \in DOMAIN interlocks : interlocks[i].open})

Build(p, from, to, read) ==
  /\ polls[p].step = from
  /\ polls' = [polls EXCEPT ![p] = [read EXCEPT !.step = to]]
  /\ UNCHANGED <<vars, page, errors>>

\* CleanZones().List: the zones' ids, and which have the status interlocked.
BuildZones(p) ==
  Build(p, "zones", "monitors",
        [polls[p] EXCEPT !.zones = DOMAIN zones, !.interlocked = Interlocked])

\* MonitorZones().List, grouped by clean zone: those of zones created since
\* then go to no group.
BuildMonitors(p) ==
  Build(p, "monitors", "interlocks", [polls[p] EXCEPT !.monitors = DOMAIN monitors])

\* OpenCount; the answer is complete but for the samples.
BuildInterlocks(p) ==
  Build(p, "interlocks", "answered", [polls[p] EXCEPT !.open = OpenCount])

-----------------------------------------------------------------------------
\* The hook useZones.

\* The timer runs while the page is mounted; refresh returns when stopped.
Refresh(p) ==
  /\ page.mounted /\ ~page.stopped
  /\ polls[p] = NoPoll
  /\ polls' = [polls EXCEPT ![p] = NewPoll(Quiet)]
  /\ UNCHANGED <<vars, page, errors>>

\* The answer is stored, even when a later poll's answer is there already and
\* even after stop(), which only keeps further polls from starting.
Arrive(p) ==
  /\ polls[p].step = "answered"
  /\ page' = [page EXCEPT !.data = [polls[p] EXCEPT !.calm = FALSE]]
  /\ polls' = [polls EXCEPT ![p] = NoPoll]
  /\ UNCHANGED <<vars, errors>>

\* A poll that fails, anywhere on its way, leaves the data of earlier ones
\* beside its error message.
ArriveFailed(p) ==
  /\ polls[p] # NoPoll
  /\ errors < MaxErrors
  /\ errors' = errors + 1
  /\ polls' = [polls EXCEPT ![p] = NoPoll]
  /\ UNCHANGED <<vars, page>>

\* Mutant of PageStart: `stopped' is never reset.
PageStartStopped ==
  /\ ~page.mounted
  /\ page' = [page EXCEPT !.mounted = TRUE]
  /\ UNCHANGED <<vars, polls, errors>>

PageStart ==
  /\ ~page.mounted
  /\ page' = [page EXCEPT !.mounted = TRUE, !.stopped = FALSE]
  /\ UNCHANGED <<vars, polls, errors>>

PageStop ==
  /\ page.mounted
  /\ page' = [page EXCEPT !.mounted = FALSE, !.stopped = TRUE]
  /\ UNCHANGED <<vars, polls, errors>>

-----------------------------------------------------------------------------
\* Requests of other clients, step by step.  The clock is left out: it
\* changes nothing that a poll collects.

Changed == <<zones, monitors, interlocks>>' # <<zones, monitors, interlocks>>

StoreStep ==
  /\ \E w \in Workers : Start(w) \/ Continue(w)
  /\ polls' = [p \in Polls |-> IF polls[p] = NoPoll THEN NoPoll
                               ELSE [polls[p] EXCEPT !.calm = @ /\ Quiet' /\ ~Changed]]
  /\ UNCHANGED <<page, errors>>

DashboardInit ==
  /\ Init
  /\ polls = [p \in Polls |-> NoPoll]
  /\ page = [mounted |-> FALSE, stopped |-> FALSE, data |-> NoPoll]
  /\ errors = 0

Proceed(p) ==
  \/ BuildZones(p)
  \/ BuildMonitors(p)
  \/ BuildInterlocks(p)
  \/ Arrive(p)

DashboardNext ==
  \/ StoreStep
  \/ PageStart
  \/ PageStop
  \/ \E p \in Polls : Refresh(p) \/ Proceed(p) \/ ArriveFailed(p)

DashboardSpec == DashboardInit /\ [][DashboardNext]_allVars

\* setInterval fires as long as the page is mounted, and every poll is
\* answered in the end.  Nobody has to send a request, or to open the page.
DashboardFairness ==
  \A p \in Polls : WF_allVars(Refresh(p)) /\ WF_allVars(Proceed(p))

DashboardFairSpec == DashboardSpec /\ DashboardFairness

-----------------------------------------------------------------------------
\* The total of open interlocks and the interlocked zones of one answer come
\* from two store calls.  An answer built while no other request was under
\* way does not contradict itself: it counts an open interlock exactly when
\* it shows an interlocked zone, and knows the clean zone of every monitor
\* zone.
QuietOverviewAgrees ==
  \A p \in Polls :
    polls[p].step = "answered" /\ polls[p].calm =>
      /\ polls[p].open > 0 <=> polls[p].interlocked # {}
      /\ \A m \in polls[p].monitors : ZoneOf[m] \in polls[p].zones

Shows(data) ==
  /\ data # NoPoll
  /\ data.interlocked = Interlocked
  /\ data.zones = DOMAIN zones
  /\ data.monitors = DOMAIN monitors
  /\ data.open = OpenCount

\* Late answers overwrite newer ones, failed polls leave old data, a stopped
\* page may be started again: but once nothing changes any more and the page
\* stays open, it shows what is stored, and goes on doing so.
PageCatchesUp ==
  /\ <>[](Quiet /\ page.mounted)
  /\ <>[][FALSE]_<<zones, monitors, interlocks>>
  => <>[]Shows(page.data)
=============================================================================
