------------------------------ MODULE NodeView ------------------------------
(***************************************************************************)
(* The overview and the Electrum page of the browser interface             *)
(* (src/web/static/dashboard.js, electrs_status.js): one polling loop at a *)
(* time, a watchdog that re-judges the last answer every second, and the   *)
(* staged list of recent blocks.                                           *)
(*                                                                         *)
(* Time is counted in ticks of the watchdog.  What is due in a tick happens *)
(* before the next one: timers, timeouts and the rejection of an aborted   *)
(* fetch.  A request carries `current`, the answer to                      *)
(* current===generation: stop() makes a new generation, so it clears it.   *)
(* Numbers, labels and layout are left out; an answer holds what decides   *)
(* the badge, the block list and the Electrum notice.                      *)
(***************************************************************************)
EXTENDS Integers, FiniteSets

CONSTANTS
  Poll,         \* ticks between an answer and the next request (2 s)
  Abort,        \* ticks until an unanswered request is aborted (10 s, 8 s)
  Fresh,        \* age up to which a sample counts as fresh (15 s)
  BlockWait,    \* ticks a list of headers waits for its details (30 s)
  Skews,        \* how far the browser's clock may be ahead of the node's
  Chains,       \* names of block chains
  Hashes,       \* block hashes
  Batches,      \* lists of recent blocks the collector publishes
  Choices,      \* network and transport of an Electrum address
  MaxRequests,  \* bound: requests of one kind in flight
  OldAge,       \* bound: a sample of the overview grows no older
  MaxAge,       \* bound: nor does an Electrum status
  None

Details == {"pending", "resolved", "unavailable"}
Rows    == [hash : Hashes, size : BOOLEAN, miner : Details, deferred : BOOLEAN]

\* Poll, timeout and freshness relate as in the code; a batch has a block once; an age
\* at its bound is beyond what any property or comparison tells apart.
ASSUME ConstantsAssumption ==
  /\ Poll \in Nat \ {0} /\ Abort \in Nat \ {0} /\ Fresh \in Nat /\ BlockWait \in Nat
  /\ Poll + Abort < Fresh
  /\ Skews \subseteq Int
  /\ OldAge \in Nat /\ Fresh <= OldAge /\ MaxAge \in Nat /\ Fresh <= MaxAge
  /\ \A k \in Skews : OldAge + k > Fresh /\ MaxAge + k > Fresh + Poll + Abort
  /\ Batches \subseteq SUBSET Rows
  /\ \A rows \in Batches : \A b, c \in rows : b.hash = c.hash => b = c
  /\ MaxRequests \in Nat \ {0}
  /\ None \notin Chains \union Choices
  /\ None \notin [choice : Choices, active : BOOLEAN]
  /\ None \notin 0..Poll /\ None \notin 0..BlockWait /\ None \notin 1..MaxRequests
  /\ None \notin [page : {"overview", "electrum"}, current : BOOLEAN, left : 0..Abort,
                  aborted : BOOLEAN]
  /\ None \notin [core : {"error", "ibd", "behind", "synced"}, age : 0..OldAge]

VARIABLES
  skew,       \* the browser's clock minus the node's
  page,       \* which of the two pages runs a loop
  requests,   \* /dashboard requests in flight
  controller, \* the one stop() would abort
  timer,      \* ticks until the next request
  watchdog,   \* updateStatus runs every second
  overview,   \* what the overview keeps and shows
  held,       \* ghost: how long a list of headers has been held back
  electrs,    \* electrsSnapshot and coreIbd
  endpoints,  \* /electrum requests in flight
  electrum,   \* what the Electrum page shows
  toured      \* bound: the Electrum page was opened; no block lists from then on

vars == <<skew, page, requests, controller, timer, watchdog, overview, held,
          electrs, endpoints, electrum, toured>>

Slots  == 1..MaxRequests
Older(a, cap) == IF a < cap THEN a + 1 ELSE a

Free(f) == {s \in Slots : f[s] = None}
Slot(f) == CHOOSE s \in Slots : f[s] = None
InFlight == {s \in Slots : requests[s] # None}

-----------------------------------------------------------------------------
(* CoreStatus and RecentBlocks.                                            *)

\* CoreStatus.state.  The age of a snapshot is that of its older stamp.
CoreState(snapshot, transportFailed) ==
  IF transportFailed \/ snapshot = None THEN "delayed"
  ELSE IF snapshot.age + skew > Fresh \/ snapshot.core = "error" THEN "delayed"
  ELSE IF snapshot.core = "synced" THEN "synced" ELSE "syncing"

\* Details are known, or will not be asked for.
Settled(b) == b.deferred \/ b.miner = "unavailable" \/ (b.miner = "resolved" /\ b.size)

\* Defect: an answer without details replaces those already shown.
EnrichedForgets(b, shown, ibd) == [b EXCEPT !.deferred = @ \/ ibd]

\* A row with what was already resolved for the same hash.
Enriched(b, shown, ibd) ==
  LET old == {o \in shown : o.hash = b.hash}
  IN [b EXCEPT
        !.deferred = @ \/ ibd,
        !.size  = @ \/ \E o \in old : o.size,
        !.miner = IF \E o \in old : o.miner = "resolved" THEN "resolved" ELSE @]

NoBlocks == [chain |-> None, shown |-> {}, waited |-> None]

\* A view of another chain starts again.
OnChain(view, chain) ==
  IF chain # None /\ chain # view.chain
    THEN [NoBlocks EXCEPT !.chain = chain] ELSE view

\* Defect: every batch that must wait starts the deadline again.
BlocksUpdateRestarts(view, n) ==
  LET v == OnChain(view, n.chain)
      candidate == {Enriched(b, v.shown, n.core = "ibd") : b \in n.rows}
      complete == \A b \in candidate : Settled(b)
  IN IF n.rows = {} THEN v
     ELSE IF complete THEN [v EXCEPT !.shown = candidate, !.waited = None]
     ELSE [v EXCEPT !.waited = 0]

\* RecentBlocks.update: a list is shown when its details are known or when it
\* has waited long enough; until then the previous one is.
BlocksUpdate(view, n) ==
  LET v == OnChain(view, n.chain)
      candidate == {Enriched(b, v.shown, n.core = "ibd") : b \in n.rows}
      complete == \A b \in candidate : Settled(b)
      waited == IF ~complete /\ v.waited = None THEN 0 ELSE v.waited
  IN IF n.rows = {} THEN v
     ELSE IF complete \/ waited >= BlockWait
       THEN [v EXCEPT !.shown = candidate, !.waited = None]
       ELSE [v EXCEPT !.waited = waited]

Snapshots ==
  {n \in [chain : Chains \union {None}, core : {"error", "ibd", "behind", "synced"},
          age : {0, Fresh}, rows : Batches \union {{}}] :
     /\ n.chain = None => n.core = "error"
     /\ n.core # "synced" => n.age = 0}

-----------------------------------------------------------------------------
(* ElectrsStatus and the Electrum notice.                                  *)

\* Of a status, whether it claims that wallets can connect and since when that is
\* known; every other state, STALE included, is none of that.
Statuses == [state : {"READY"}, age : 0..MaxAge] \union [state : {"other"}, age : {0}]
Other    == [state |-> "other", age |-> 0]

\* ElectrsStatus.ready: a stamp from the future is not trusted.
IsReady(status) ==
  status.state = "READY" /\ status.age + skew >= 0 /\ status.age + skew <= Fresh

\* updateElectrumNotice, once the address is known.
Notice(endpoint, e) ==
  IF e.coreIbd THEN "core_syncing"
  ELSE IF ~IsReady(e.status) THEN "indexing"
  ELSE IF endpoint.active THEN "running" ELSE "inactive"

\* The page with its notice brought up to date.
WithNotice(p, e) ==
  IF p.endpoint = None THEN p ELSE [p EXCEPT !.notice = Notice(p.endpoint, e)]

-----------------------------------------------------------------------------
Requests  == [page : {"overview", "electrum"}, current : BOOLEAN, left : 0..Abort,
              aborted : BOOLEAN]
Endpoints == [choice : Choices, current : BOOLEAN]

NoOverview == [last |-> None, failed |-> FALSE, blocks |-> NoBlocks, badge |-> "delayed"]
NotHeld    == [ticks |-> None, overdue |-> FALSE]
NoElectrum == [choice |-> None, endpoint |-> None, notice |-> "none", details |-> FALSE]

Init ==
  /\ skew \in Skews
  /\ page = "none"
  /\ requests = [s \in Slots |-> None]
  /\ controller = None
  /\ timer = None
  /\ watchdog = FALSE
  /\ overview = NoOverview
  /\ held = NotHeld
  /\ electrs = [status |-> Other, coreIbd |-> FALSE]
  /\ endpoints = [s \in Slots |-> None]
  /\ electrum = NoElectrum
  /\ toured = FALSE

\* Defect: stop() leaves the request in flight.
OutdatedOnly(rs) ==
  [s \in Slots |-> IF rs[s] = None THEN None ELSE [rs[s] EXCEPT !.current = FALSE]]

\* stop(): no request and no answer of before belongs to the new generation,
\* and the one in flight is aborted.
Outdated(rs) ==
  [s \in Slots |-> IF rs[s] = None THEN None
     ELSE [rs[s] EXCEPT !.current = FALSE, !.aborted = @ \/ s = controller]]

OutdatedEndpoints ==
  [s \in Slots |-> IF endpoints[s] = None THEN None
     ELSE [endpoints[s] EXCEPT !.current = FALSE]]

Request(p) == [page |-> p, current |-> TRUE, left |-> Abort, aborted |-> FALSE]

\* refresh and refreshElectrum up to their await.
Issue(p, rs) ==
  /\ Free(rs) # {}
  /\ requests' = [rs EXCEPT ![Slot(rs)] = Request(p)]
  /\ controller' = Slot(rs)

\* start(): a fresh overview.  What it kept is read again only after this.
Start ==
  /\ page' = "overview"
  /\ Issue("overview", Outdated(requests))
  /\ endpoints' = OutdatedEndpoints
  /\ timer' = None
  /\ watchdog' = TRUE
  /\ overview' = NoOverview
  /\ held' = NotHeld
  /\ electrum' = NoElectrum
  /\ UNCHANGED <<skew, electrs, toured>>

\* connection(selected, transport): the address asked for and the progress loop.
Connection(c) ==
  /\ page' = "electrum"
  /\ Issue("electrum", Outdated(requests))
  /\ Free(endpoints) # {}
  /\ endpoints' = [OutdatedEndpoints EXCEPT ![Slot(endpoints)] =
                     [choice |-> c, current |-> TRUE]]
  /\ timer' = None
  /\ watchdog' = FALSE
  /\ electrum' = [choice |-> c, endpoint |-> None, notice |-> "checking",
                  details |-> FALSE]
  /\ overview' = NoOverview
  /\ held' = NotHeld
  /\ toured' = TRUE
  /\ UNCHANGED <<skew, electrs>>

\* stop(), on leaving for another page.
Stop ==
  /\ page # "none"
  /\ page' = "none"
  /\ requests' = Outdated(requests)
  /\ controller' = None
  /\ endpoints' = OutdatedEndpoints
  /\ timer' = None
  /\ watchdog' = FALSE
  /\ overview' = NoOverview
  /\ held' = NotHeld
  /\ electrum' = NoElectrum
  /\ UNCHANGED <<skew, electrs, toured>>

-----------------------------------------------------------------------------
(* Requests end.                                                           *)

\* Defect: the next request is scheduled for when this one would be aborted.
FinallyLate(s) ==
  /\ requests' = [requests EXCEPT ![s] = None]
  /\ controller' = IF controller = s THEN None ELSE controller
  /\ timer' = IF requests[s].current THEN Poll + Abort ELSE timer

\* The finally clause: the loop goes on if it is still the current one.
Finally(s) ==
  /\ requests' = [requests EXCEPT ![s] = None]
  /\ controller' = IF controller = s THEN None ELSE controller
  /\ timer' = IF requests[s].current THEN Poll ELSE timer

\* Whether the list n brings is still held back, and for how long.
HeldAfter(n) ==
  LET view == BlocksUpdate(overview.blocks, n)
      reset == view.chain # overview.blocks.chain
      since == IF reset \/ held.ticks = None THEN 0 ELSE held.ticks
  IN IF n.rows = {} THEN (IF reset THEN NotHeld ELSE held)
     ELSE IF view.waited = None THEN NotHeld
     ELSE [ticks |-> since, overdue |-> since >= BlockWait]

\* refresh: an answer is rendered if the overview that asked is still there.
Render(s, n) ==
  /\ requests[s] # None
  /\ requests[s].page = "overview"
  /\ Finally(s)
  /\ IF requests[s].current
       THEN /\ overview' = [last |-> [core |-> n.core, age |-> n.age], failed |-> FALSE,
                            blocks |-> BlocksUpdate(overview.blocks, n),
                            badge |-> CoreState(n, FALSE)]
            /\ held' = HeldAfter(n)
       ELSE UNCHANGED <<overview, held>>
  /\ UNCHANGED <<skew, page, watchdog, electrs, endpoints, electrum, toured>>

\* Defect: a failed request ends the loop.
RenderFailsForGood(s) ==
  /\ requests[s] # None
  /\ requests[s].page = "overview"
  /\ requests' = [requests EXCEPT ![s] = None]
  /\ controller' = IF controller = s THEN None ELSE controller
  /\ overview' = IF requests[s].current
                   THEN [overview EXCEPT !.failed = TRUE, !.badge = "delayed"]
                   ELSE overview
  /\ UNCHANGED <<skew, page, timer, watchdog, held, electrs, endpoints, electrum, toured>>

\* An overview that is no longer there ignores whatever comes.
RenderFails(s) ==
  /\ requests[s] # None
  /\ requests[s].page = "overview"
  /\ Finally(s)
  /\ overview' = IF requests[s].current
                   THEN [overview EXCEPT !.failed = TRUE, !.badge = "delayed"]
                   ELSE overview
  /\ UNCHANGED <<skew, page, watchdog, held, electrs, endpoints, electrum, toured>>

\* refreshElectrum with renderElectrumProgress.
RenderElectrum(s, status, ibd) ==
  /\ requests[s] # None
  /\ requests[s].page = "electrum"
  /\ Finally(s)
  /\ IF requests[s].current
       THEN /\ electrs' = [status |-> status, coreIbd |-> ibd]
            /\ electrum' = WithNotice(electrum, electrs')
       ELSE UNCHANGED <<electrs, electrum>>
  /\ UNCHANGED <<skew, page, watchdog, overview, held, endpoints, toured>>

\* Defect: a failed poll leaves the notice as it was.
RenderElectrumFailsQuietly(s) ==
  /\ requests[s] # None
  /\ requests[s].page = "electrum"
  /\ Finally(s)
  /\ UNCHANGED <<skew, page, watchdog, overview, held, endpoints, electrs, electrum, toured>>

\* A failed poll withdraws the readiness shown before.
RenderElectrumFails(s) ==
  /\ requests[s] # None
  /\ requests[s].page = "electrum"
  /\ Finally(s)
  /\ IF requests[s].current
       THEN /\ electrs' = [electrs EXCEPT !.status = Other]
            /\ electrum' = WithNotice(electrum, electrs')
       ELSE UNCHANGED <<electrs, electrum>>
  /\ UNCHANGED <<skew, page, watchdog, overview, held, endpoints, toured>>

\* connection() after its await: an address for another choice is dropped.
EndpointArrives(s, active) ==
  /\ endpoints[s] # None
  /\ endpoints' = [endpoints EXCEPT ![s] = None]
  /\ electrum' = IF endpoints[s].current
       THEN WithNotice([electrum EXCEPT
              !.endpoint = [choice |-> endpoints[s].choice, active |-> active],
              !.details = TRUE], electrs)
       ELSE electrum
  /\ UNCHANGED <<skew, page, requests, controller, timer, watchdog, overview, held,
                 electrs, toured>>

EndpointFails(s) ==
  /\ endpoints[s] # None
  /\ endpoints' = [endpoints EXCEPT ![s] = None]
  /\ electrum' = IF endpoints[s].current THEN [electrum EXCEPT !.notice = "error"]
                                         ELSE electrum
  /\ UNCHANGED <<skew, page, requests, controller, timer, watchdog, overview, held,
                 electrs, toured>>

-----------------------------------------------------------------------------
(* Time.                                                                   *)

\* setTimeout(()=>refresh(current),2000)
TimerFires ==
  /\ timer = 0
  /\ timer' = None
  /\ Issue(page, requests)
  /\ UNCHANGED <<skew, page, watchdog, overview, held, electrs, endpoints, electrum,
                 toured>>

\* setTimeout(()=>request.abort(),...)
TimeoutFires(s) ==
  /\ requests[s] # None
  /\ requests[s].left = 0 /\ ~requests[s].aborted
  /\ requests' = [requests EXCEPT ![s].aborted = TRUE]
  /\ UNCHANGED <<skew, page, controller, timer, watchdog, overview, held, electrs,
                 endpoints, electrum, toured>>

Due == \/ timer = 0
       \/ \E s \in InFlight : requests[s].aborted \/ requests[s].left = 0

\* A list that waits has waited a tick more; what counts is whether BlockWait is over.
Longer(waited) == IF waited \in {None, BlockWait} THEN waited ELSE waited + 1

\* An answer's sample, if there was one.
OlderSample(last) == IF last = None THEN None ELSE [last EXCEPT !.age = Older(@, OldAge)]

\* The overview a tick later.
Aged(o) ==
  [o EXCEPT !.last = OlderSample(@),
            !.blocks.waited = Longer(@)]

\* Defect: the badge is judged only when an answer comes.
Unwatched(o) == o

\* updateStatus, by the watchdog.
Watched(o) == [o EXCEPT !.badge = CoreState(o.last, o.failed)]

Tick ==
  /\ ~Due
  /\ requests' = [s \in Slots |-> IF requests[s] = None THEN None
                                  ELSE [requests[s] EXCEPT !.left = @ - 1]]
  /\ timer' = IF timer = None THEN None ELSE timer - 1
  /\ overview' = IF watchdog THEN Watched(Aged(overview)) ELSE Aged(overview)
  /\ held' = [held EXCEPT !.ticks = Longer(@)]
  /\ electrs' = IF electrs.status.state = "READY"
                 THEN [electrs EXCEPT !.status.age = Older(@, MaxAge)] ELSE electrs
  /\ UNCHANGED <<skew, page, controller, watchdog, endpoints, electrum, toured>>

Next ==
  \/ Start
  \/ \E c \in Choices : Connection(c)
  \/ Stop
  \/ TimerFires
  \/ Tick
  \/ \E s \in Slots :
       \/ \E n \in Snapshots : (toured => n.rows = {}) /\ Render(s, n)
       \/ RenderFails(s)
       \/ \E st \in {Other} \union [state : {"READY"}, age : {0, Fresh}], ibd \in BOOLEAN :
            RenderElectrum(s, st, ibd)
       \/ RenderElectrumFails(s)
       \/ \E active \in BOOLEAN : EndpointArrives(s, active)
       \/ EndpointFails(s)
       \/ TimeoutFires(s)

\* Timers fire, and an aborted fetch rejects.
Fairness ==
  /\ WF_vars(Tick)
  /\ WF_vars(TimerFires)
  /\ \A s \in Slots :
       /\ WF_vars(TimeoutFires(s))
       /\ WF_vars(requests[s] # None /\ requests[s].aborted
                  /\ (RenderFails(s) \/ RenderElectrumFails(s)))

Spec == Init /\ [][Next]_vars /\ Fairness

-----------------------------------------------------------------------------
(* Properties.                                                             *)

\* Types of the requests, timers and pages.
TypeOK ==
  /\ skew \in Skews
  /\ page \in {"none", "overview", "electrum"}
  /\ requests \in [Slots -> Requests \union {None}]
  /\ controller \in Slots \union {None}
  /\ timer \in 0..Poll \union {None}
  /\ watchdog \in BOOLEAN
  /\ overview \in [last : [core : {"error", "ibd", "behind", "synced"}, age : 0..OldAge]
                            \union {None},
                   failed : BOOLEAN,
                   blocks : [chain : Chains \union {None}, shown : SUBSET Rows,
                             waited : 0..BlockWait \union {None}],
                   badge : {"delayed", "syncing", "synced"}]
  /\ held \in [ticks : 0..BlockWait \union {None}, overdue : BOOLEAN]
  /\ electrs \in [status : Statuses, coreIbd : BOOLEAN]
  /\ endpoints \in [Slots -> Endpoints \union {None}]
  /\ electrum \in [choice : Choices \union {None},
                   endpoint : [choice : Choices, active : BOOLEAN] \union {None},
                   notice : {"none", "checking", "error", "core_syncing", "indexing",
                             "running", "inactive"},
                   details : BOOLEAN]
  /\ toured \in BOOLEAN

\* "The browser makes one status request at a time" (SETTINGS.md:67): however
\* the user changes pages and whatever answers are late, no two /dashboard
\* requests are open, and none is opened while another is scheduled.
OneStatusRequest ==
  /\ Cardinality({s \in InFlight : ~requests[s].aborted}) <= 1
  /\ timer # None => \A s \in InFlight : requests[s].aborted

\* The badge says synchronized only on an answer that said so and whose samples
\* are fresh by the browser's clock (SETTINGS.md:69): also between answers, and
\* while requests fail or hang.
SyncedIsFresh ==
  (page = "overview" /\ overview.badge = "synced") =>
    /\ overview.last # None /\ ~overview.failed
    /\ overview.last.core = "synced"
    /\ overview.last.age + skew <= Fresh

\* The Electrum page promises a wallet connection only for the address chosen,
\* and not for longer than one unanswered poll after electrs was last known to
\* serve.  Its notice is not watched as the badge is: it changes when an answer
\* comes, or fails to.
NoticeIsFresh ==
  /\ electrum.details => electrum.endpoint.choice = electrum.choice
  /\ (page = "electrum" /\ electrum.notice \in {"running", "inactive"}) =>
       /\ electrs.status.state = "READY" /\ ~electrs.coreIbd
       /\ electrs.status.age + skew <= Fresh + Poll + Abort

\* "Never lose already resolved details for the same immutable block hash"
\* (dashboard.js:41): from one list to the next, also when a batch comes without.
BlockDetailsKept ==
  [][overview'.blocks.chain = overview.blocks.chain =>
       \A o \in overview.blocks.shown, b \in overview'.blocks.shown :
         o.hash = b.hash =>
           /\ o.size => b.size
           /\ o.miner = "resolved" => b.miner = "resolved"]_vars

\* A list of headers that waits for details is shown by the first answer after
\* its deadline, even if every batch until then was another one
\* (dashboard.js:48).
HeadersNotWithheld == ~held.overdue

\* A page goes on asking as long as it is open, and no request stays open: no
\* failure, timeout or change of page ends its loop or blocks it.
PollGoesOn ==
  /\ []<>(page = "none" \/ \E s \in InFlight : requests[s].current)
  /\ \A s \in Slots : []<>(requests[s] = None)
=============================================================================
