-------------------------- MODULE NodeView_proofs --------------------------
(***************************************************************************)
(* Proofs about NodeView, for every choice of its timings (as long as a    *)
(* poll and its timeout fit into the time a sample counts as fresh), every *)
(* difference of clocks, all lists of blocks and any number of requests.   *)
(*                                                                         *)
(* They rest on one fact about the loop: the only request that is not      *)
(* aborted, and the only one of the current generation, is the one in      *)
(* `controller`, and while a timer runs there is none.                     *)
(***************************************************************************)
EXTENDS NodeView, FiniteSetTheorems, TLAPS

Blocks    == [chain : Chains \union {None}, shown : SUBSET Rows,
              waited : 0..BlockWait \union {None}]
Lasts     == [core : {"error", "ibd", "behind", "synced"}, age : 0..OldAge]
Overviews == [last : Lasts \union {None}, failed : BOOLEAN, blocks : Blocks,
              badge : {"delayed", "syncing", "synced"}]
Electrums == [choice : Choices \union {None},
              endpoint : [choice : Choices, active : BOOLEAN] \union {None},
              notice : {"none", "checking", "error", "core_syncing", "indexing", "running",
                        "inactive"},
              details : BOOLEAN]

-----------------------------------------------------------------------------
(* The list of blocks.                                                     *)

\* A snapshot has its parts.
LEMMA SnapshotTypes ==
  ASSUME NEW n \in Snapshots
  PROVE  /\ n.chain \in Chains \union {None}
         /\ n.core \in {"error", "ibd", "behind", "synced"}
         /\ n.age \in 0..OldAge
         /\ n.rows \in SUBSET Rows
         /\ \A b, c \in n.rows : b.hash = c.hash => b = c
BY ConstantsAssumption DEF Snapshots

\* A row keeps its hash and gains what is known of that hash.
LEMMA EnrichedKeeps ==
  ASSUME NEW b \in Rows, NEW shown \in SUBSET Rows, NEW ibd \in BOOLEAN
  PROVE  /\ Enriched(b, shown, ibd) \in Rows
         /\ Enriched(b, shown, ibd).hash = b.hash
         /\ \A o \in shown : o.hash = b.hash =>
              /\ o.size => Enriched(b, shown, ibd).size
              /\ o.miner = "resolved" => Enriched(b, shown, ibd).miner = "resolved"
<1> DEFINE old == {o \in shown : o.hash = b.hash}
           e   == Enriched(b, shown, ibd)
<1>1. e = [b EXCEPT
        !.deferred = @ \/ ibd,
        !.size  = @ \/ \E o \in old : o.size,
        !.miner = IF \E o \in old : o.miner = "resolved" THEN "resolved" ELSE @]
  BY DEF Enriched
<1>2. b \in [hash : Hashes, size : BOOLEAN, miner : Details, deferred : BOOLEAN]
  BY DEF Rows
<1>3. /\ e.hash = b.hash
      /\ e.size = (b.size \/ \E o \in old : o.size)
      /\ e.miner = IF \E o \in old : o.miner = "resolved" THEN "resolved" ELSE b.miner
  BY <1>1, <1>2
<1>4. e \in Rows
  <2>1. (b.deferred \/ ibd) \in BOOLEAN /\ (b.size \/ \E o \in old : o.size) \in BOOLEAN
    OBVIOUS
  <2>2. (IF \E o \in old : o.miner = "resolved" THEN "resolved" ELSE b.miner) \in Details
    BY <1>2 DEF Details
  <2> QED
    BY <1>1, <1>2, <2>1, <2>2 DEF Rows
<1> QED
  BY <1>3, <1>4

\* What a list is replaced by: the same one or a new one, no hash twice, waiting for as
\* long as the previous one has, and nothing lost unless the chain is another.
LEMMA BlocksUpdateKeeps ==
  ASSUME NEW view \in Blocks, NEW n \in Snapshots,
         \A b, c \in view.shown : b.hash = c.hash => b = c
  PROVE  /\ BlocksUpdate(view, n) \in Blocks
         /\ \A b, c \in BlocksUpdate(view, n).shown : b.hash = c.hash => b = c
         /\ BlocksUpdate(view, n).chain = view.chain =>
              \A o \in view.shown, b \in BlocksUpdate(view, n).shown :
                o.hash = b.hash =>
                  /\ o.size => b.size
                  /\ o.miner = "resolved" => b.miner = "resolved"
<1> DEFINE v == OnChain(view, n.chain)
           u == BlocksUpdate(view, n)
           candidate == {Enriched(b, v.shown, n.core = "ibd") : b \in n.rows}
<1>1. v \in Blocks
  BY SnapshotTypes DEF OnChain, NoBlocks, Blocks
<1>2. \A b, c \in v.shown : b.hash = c.hash => b = c
  BY DEF OnChain, NoBlocks
<1>3. v.chain = view.chain => v = view
  BY DEF OnChain, NoBlocks
<1>4. ASSUME NEW x \in n.rows
      PROVE  /\ Enriched(x, v.shown, n.core = "ibd") \in Rows
             /\ Enriched(x, v.shown, n.core = "ibd").hash = x.hash
             /\ \A o \in v.shown : o.hash = x.hash =>
                  /\ o.size => Enriched(x, v.shown, n.core = "ibd").size
                  /\ o.miner = "resolved" =>
                       Enriched(x, v.shown, n.core = "ibd").miner = "resolved"
  <2>1. x \in Rows /\ v.shown \in SUBSET Rows /\ (n.core = "ibd") \in BOOLEAN
    BY <1>1, SnapshotTypes DEF Blocks
  <2> QED
    BY <2>1, EnrichedKeeps
<1>5. candidate \in SUBSET Rows
  BY <1>4
<1>6. \A b, c \in candidate : b.hash = c.hash => b = c
  <2> SUFFICES ASSUME NEW b \in candidate, NEW c \in candidate, b.hash = c.hash
               PROVE  b = c
    OBVIOUS
  <2>1. PICK x \in n.rows : b = Enriched(x, v.shown, n.core = "ibd")
    OBVIOUS
  <2>2. PICK y \in n.rows : c = Enriched(y, v.shown, n.core = "ibd")
    OBVIOUS
  <2>3. b.hash = x.hash /\ c.hash = y.hash
    BY <2>1, <2>2, <1>4
  <2>4. x = y
    BY <2>3, SnapshotTypes
  <2> QED
    BY <2>1, <2>2, <2>4
<1>7. \A o \in v.shown, b \in candidate :
        o.hash = b.hash =>
          /\ o.size => b.size
          /\ o.miner = "resolved" => b.miner = "resolved"
  <2> SUFFICES ASSUME NEW o \in v.shown, NEW b \in candidate, o.hash = b.hash
               PROVE  /\ o.size => b.size
                      /\ o.miner = "resolved" => b.miner = "resolved"
    OBVIOUS
  <2>1. PICK x \in n.rows : b = Enriched(x, v.shown, n.core = "ibd")
    OBVIOUS
  <2> QED
    BY <2>1, <1>4
<1>8. \/ u = v
      \/ u = [v EXCEPT !.shown = candidate, !.waited = None]
      \/ \E waited \in 0..BlockWait : u = [v EXCEPT !.waited = waited]
  <2> DEFINE complete == \A b \in candidate : Settled(b)
             waited == IF ~complete /\ v.waited = None THEN 0 ELSE v.waited
  <2>1. u = IF n.rows = {} THEN v
            ELSE IF complete \/ waited >= BlockWait
              THEN [v EXCEPT !.shown = candidate, !.waited = None]
              ELSE [v EXCEPT !.waited = waited]
    BY DEF BlocksUpdate
  <2>2. v.waited \in 0..BlockWait \union {None} /\ 0 \in 0..BlockWait
    BY <1>1, ConstantsAssumption DEF Blocks
  <2>3. ~complete => waited \in 0..BlockWait
    BY <2>2
  <2> HIDE DEF complete, waited
  <2> QED
    BY <2>1, <2>3
<1>9. u.chain = v.chain /\ (u.shown = v.shown \/ u.shown = candidate) /\ u \in Blocks
  BY <1>1, <1>5, <1>8 DEF Blocks
<1> QED
  BY <1>2, <1>3, <1>6, <1>7, <1>9

\* The view of another chain waits for nothing; a list that waits has waited less than
\* its time, and the ghost is measured along with it.
LEMMA HeldAfterKeeps ==
  ASSUME overview \in Overviews, held.ticks = overview.blocks.waited, ~held.overdue,
         held \in [ticks : 0..BlockWait \union {None}, overdue : BOOLEAN],
         NEW n \in Snapshots
  PROVE  /\ HeldAfter(n) \in [ticks : 0..BlockWait \union {None}, overdue : BOOLEAN]
         /\ HeldAfter(n).ticks = BlocksUpdate(overview.blocks, n).waited
         /\ ~HeldAfter(n).overdue
<1> DEFINE b == overview.blocks
           v == OnChain(b, n.chain)
           view == BlocksUpdate(b, n)
           candidate == {Enriched(r, v.shown, n.core = "ibd") : r \in n.rows}
           complete == \A r \in candidate : Settled(r)
           waited == IF ~complete /\ v.waited = None THEN 0 ELSE v.waited
           since == IF view.chain # b.chain \/ held.ticks = None THEN 0 ELSE held.ticks
<1>1. b \in Blocks /\ v \in Blocks
  BY SnapshotTypes DEF Overviews, OnChain, NoBlocks, Blocks
<1>2. v = b \/ (v.chain # b.chain /\ v.waited = None)
  BY DEF OnChain, NoBlocks
<1>3. view = IF n.rows = {} THEN v
             ELSE IF complete \/ waited >= BlockWait
               THEN [v EXCEPT !.shown = candidate, !.waited = None]
               ELSE [v EXCEPT !.waited = waited]
  BY DEF BlocksUpdate
<1>4. HeldAfter(n) = IF n.rows = {} THEN (IF view.chain # b.chain THEN NotHeld ELSE held)
                     ELSE IF view.waited = None THEN NotHeld
                     ELSE [ticks |-> since, overdue |-> since >= BlockWait]
  BY DEF HeldAfter
<1>5. NotHeld = [ticks |-> None, overdue |-> FALSE] /\ None \notin 0..BlockWait
      /\ BlockWait \in Nat
  BY ConstantsAssumption DEF NotHeld
<1>6. CASE n.rows = {}
  <2>1. view = v
    BY <1>3, <1>6
  <2> QED
    BY <1>2, <1>4, <1>5, <1>6, <2>1
<1>7. CASE n.rows # {} /\ (complete \/ waited >= BlockWait)
  <2>1. view.waited = None
    BY <1>1, <1>3, <1>7 DEF Blocks
  <2> QED
    BY <1>4, <1>5, <1>7, <2>1
<1>8. CASE n.rows # {} /\ ~complete /\ ~(waited >= BlockWait)
  <2>1. view.waited = waited /\ view.chain = v.chain
    BY <1>1, <1>3, <1>8 DEF Blocks
  <2>2. v.waited \in 0..BlockWait \union {None}
    BY <1>1 DEF Blocks
  <2>3. waited \in 0..BlockWait /\ waited < BlockWait
    BY <1>5, <1>8, <2>2
  <2>4. waited = since
    <3>1. CASE v = b
      BY <1>8, <2>1, <3>1
    <3>2. CASE v.chain # b.chain /\ v.waited = None
      BY <1>8, <2>1, <3>2
    <3> QED
      BY <1>2, <3>1, <3>2
  <2>5. HeldAfter(n) = [ticks |-> since, overdue |-> FALSE]
    <3>1. view.waited # None
      BY <1>5, <2>1, <2>3
    <3>2. (since >= BlockWait) = FALSE
      BY <1>5, <2>3, <2>4
    <3> HIDE DEF since, view
    <3> QED
      BY <1>4, <1>8, <3>1, <3>2
  <2> QED
    BY <2>1, <2>3, <2>4, <2>5
<1> QED
  BY <1>6, <1>7, <1>8

-----------------------------------------------------------------------------
(* The inductive invariant.                                                *)

\* The loop: what is not aborted and what is current is the request in `controller`, it
\* is of the page that is open, and an open page has either that request or a timer.
Loop ==
  /\ \A s \in InFlight : ~requests[s].aborted => s = controller
  /\ \A s \in InFlight : requests[s].current => s = controller /\ requests[s].page = page
  /\ timer # None => \A s \in InFlight : requests[s].aborted /\ ~requests[s].current
  /\ page # "none" => timer # None \/ \E s \in InFlight : requests[s].current
  /\ page = "none" => timer = None

\* The overview is watched; its list waits as long as it is measured to wait.
Watching ==
  /\ page = "overview" => watchdog
  /\ held.ticks = overview.blocks.waited
  /\ \A b, c \in overview.blocks.shown : b.hash = c.hash => b = c

\* Addresses belong to the choice made, and a notice about the wallet connection to an
\* address.
Addressed ==
  /\ \A s \in Slots : endpoints[s] # None /\ endpoints[s].current =>
        endpoints[s].choice = electrum.choice
  /\ electrum.details => electrum.endpoint.choice = electrum.choice
  /\ electrum.notice \in {"running", "inactive"} => electrum.endpoint # None

\* The next poll fails, or is answered, in time: what is left of the timer or of the
\* request adds to the age of the status.
Timely ==
  (page = "electrum" /\ electrum.notice \in {"running", "inactive"}) =>
    /\ electrs.status.state = "READY" /\ ~electrs.coreIbd
    /\ timer # None => electrs.status.age + skew + timer <= Fresh + Poll
    /\ \A s \in InFlight : requests[s].current =>
         electrs.status.age + skew + requests[s].left <= Fresh + Poll + Abort

Inductive ==
  /\ TypeOK /\ Loop /\ Watching /\ HeadersNotWithheld /\ SyncedIsFresh
  /\ Addressed /\ Timely

-----------------------------------------------------------------------------
(* Requests.                                                               *)

LEMMA SlotTypes ==
  ASSUME NEW f, Free(f) # {}
  PROVE  Slot(f) \in Slots /\ f[Slot(f)] = None
BY DEF Free, Slot

\* A request of the page p is issued while all others are aborted and outdated.
LEMMA IssueKeeps ==
  ASSUME NEW p \in {"overview", "electrum"}, NEW rs \in [Slots -> Requests \union {None}],
         \A s \in Slots : rs[s] # None => rs[s].aborted /\ ~rs[s].current,
         Issue(p, rs)
  PROVE  /\ requests' \in [Slots -> Requests \union {None}] /\ controller' \in Slots
         /\ \A s \in InFlight' : ~requests'[s].aborted => s = controller'
         /\ \A s \in InFlight' : requests'[s].current =>
              s = controller' /\ requests'[s].page = p /\ requests'[s].left = Abort
         /\ \E s \in InFlight' : requests'[s].current
<1>1. Slot(rs) \in Slots /\ requests' = [rs EXCEPT ![Slot(rs)] = Request(p)]
      /\ controller' = Slot(rs)
  BY SlotTypes DEF Issue
<1>2. Request(p) \in Requests /\ Request(p).current /\ Request(p).page = p
      /\ Request(p).left = Abort
  BY ConstantsAssumption DEF Request, Requests
<1>3. Request(p) # None
  BY <1>2, ConstantsAssumption DEF Requests
<1>4. requests'[Slot(rs)] = Request(p) /\ Slot(rs) \in InFlight'
  BY <1>1, <1>3 DEF InFlight
<1>5. \A s \in Slots : s # Slot(rs) => requests'[s] = rs[s]
  BY <1>1
<1>6. requests' \in [Slots -> Requests \union {None}]
  BY <1>1, <1>2
<1> QED
  BY <1>1, <1>2, <1>4, <1>5, <1>6 DEF InFlight

\* stop() aborts and outdates all there are.
LEMMA OutdatedKeeps ==
  ASSUME TypeOK, Loop
  PROVE  /\ Outdated(requests) \in [Slots -> Requests \union {None}]
         /\ \A s \in Slots : Outdated(requests)[s] # None =>
              Outdated(requests)[s].aborted /\ ~Outdated(requests)[s].current
<1> SUFFICES ASSUME NEW s \in Slots
             PROVE  /\ Outdated(requests)[s] \in Requests \union {None}
                    /\ Outdated(requests)[s] # None =>
                         Outdated(requests)[s].aborted /\ ~Outdated(requests)[s].current
  BY DEF Outdated
<1>1. CASE requests[s] = None
  BY <1>1 DEF Outdated
<1>2. CASE requests[s] # None
  <2>1. requests[s] \in Requests
    BY <1>2 DEF TypeOK
  <2>2. Outdated(requests)[s] =
          [requests[s] EXCEPT !.current = FALSE, !.aborted = @ \/ s = controller]
    BY <1>2 DEF Outdated
  <2>3. requests[s].aborted \/ s = controller
    BY <1>2 DEF Loop, InFlight
  <2> QED
    BY <2>1, <2>2, <2>3 DEF Requests
<1> QED
  BY <1>1, <1>2

\* stop() outdates the addresses asked for.
LEMMA OutdatedEndpointsTypes ==
  ASSUME TypeOK
  PROVE  /\ OutdatedEndpoints \in [Slots -> Endpoints \union {None}]
         /\ \A s \in Slots : OutdatedEndpoints[s] # None => ~OutdatedEndpoints[s].current
<1> SUFFICES ASSUME NEW s \in Slots
             PROVE  /\ OutdatedEndpoints[s] \in Endpoints \union {None}
                    /\ OutdatedEndpoints[s] # None => ~OutdatedEndpoints[s].current
  BY DEF OutdatedEndpoints
<1>1. CASE endpoints[s] = None
  BY <1>1 DEF OutdatedEndpoints
<1>2. CASE endpoints[s] # None
  <2>1. endpoints[s] \in Endpoints
    BY <1>2 DEF TypeOK
  <2>2. OutdatedEndpoints[s] = [endpoints[s] EXCEPT !.current = FALSE]
    BY <1>2 DEF OutdatedEndpoints
  <2> QED
    BY <2>1, <2>2 DEF Endpoints
<1> QED
  BY <1>1, <1>2

\* An answer, or its failure, leaves the loop with a timer if it was the current one,
\* and as it was otherwise.
LEMMA FinallyKeeps ==
  ASSUME TypeOK, Loop, NEW s \in Slots, requests[s] # None, Finally(s), page' = page
  PROVE  /\ requests' \in [Slots -> Requests \union {None}]
         /\ controller' \in Slots \union {None}
         /\ timer' \in 0..Poll \union {None}
         /\ Loop'
         /\ InFlight' = InFlight \ {s}
         /\ \A t \in InFlight' : requests'[t] = requests[t]
         /\ requests[s].current => timer' = Poll
         /\ ~requests[s].current => timer' = timer
<1>1. /\ requests' = [requests EXCEPT ![s] = None]
      /\ controller' = IF controller = s THEN None ELSE controller
      /\ timer' = IF requests[s].current THEN Poll ELSE timer
  BY DEF Finally
<1>2. requests \in [Slots -> Requests \union {None}]
  BY DEF TypeOK
<1>3. InFlight' = InFlight \ {s} /\ \A t \in InFlight' : requests'[t] = requests[t]
  BY <1>1, <1>2 DEF InFlight
<1>4. s \in InFlight
  BY DEF InFlight
<1>5. /\ requests' \in [Slots -> Requests \union {None}]
      /\ controller' \in Slots \union {None}
      /\ timer' \in 0..Poll \union {None}
  BY <1>1, <1>2, ConstantsAssumption DEF TypeOK
<1>6. CASE requests[s].current
  <2>1. s = controller /\ timer' = Poll
    BY <1>1, <1>4, <1>6 DEF Loop
  <2>2. Poll # None
    BY ConstantsAssumption
  <2>3. \A t \in InFlight' : requests'[t].aborted /\ ~requests'[t].current
    BY <1>3, <2>1 DEF Loop
  <2>4. requests[s].page = page /\ requests[s].page # "none"
    BY <1>2, <1>4, <1>6, ConstantsAssumption DEF Loop, Requests
  <2>5. Loop'
    BY <2>1, <2>2, <2>3, <2>4 DEF Loop
  <2> QED
    BY <1>3, <1>5, <1>6, <2>1, <2>5
<1>7. CASE ~requests[s].current
  <2>1. timer' = timer
    BY <1>1, <1>7
  <2>2. \A t \in InFlight' :
          /\ ~requests'[t].aborted => t = controller'
          /\ requests'[t].current => t = controller' /\ requests'[t].page = page'
    <3> SUFFICES ASSUME NEW t \in InFlight'
                 PROVE  /\ ~requests[t].aborted => t = controller'
                        /\ requests[t].current =>
                             t = controller' /\ requests[t].page = page
      BY <1>3
    <3>1. t \in InFlight /\ t # s
      BY <1>3
    <3>2. t = controller => t = controller'
      BY <1>1, <3>1
    <3> QED
      BY <3>1, <3>2 DEF Loop
  <2>3. page' # "none" => timer' # None \/ \E t \in InFlight' : requests'[t].current
    <3>1. CASE \E t \in InFlight : requests[t].current
      <4>1. PICK t \in InFlight : requests[t].current
        BY <3>1
      <4>2. t \in InFlight' /\ requests'[t].current
        BY <1>3, <1>7, <4>1
      <4> QED
        BY <4>2
    <3>2. CASE ~\E t \in InFlight : requests[t].current
      BY <3>2, <2>1 DEF Loop
    <3> QED
      BY <3>1, <3>2
  <2>4. timer' # None => \A t \in InFlight' : requests'[t].aborted /\ ~requests'[t].current
    <3>1. timer # None => \A t \in InFlight : requests[t].aborted /\ ~requests[t].current
      BY DEF Loop
    <3> QED
      BY <1>3, <2>1, <3>1
  <2>5. Loop'
    BY <2>1, <2>2, <2>3, <2>4 DEF Loop
  <2> QED
    BY <1>3, <1>5, <1>7, <2>1, <2>5
<1> QED
  BY <1>6, <1>7

-----------------------------------------------------------------------------
(* The initial state, and pages that open or are left.                     *)

\* What a page keeps when it opens.
LEMMA FreshTypes ==
  /\ NoOverview \in Overviews /\ NotHeld.ticks = None /\ ~NotHeld.overdue
  /\ NotHeld \in [ticks : 0..BlockWait \union {None}, overdue : BOOLEAN]
  /\ Other \in Statuses /\ Abort \in 0..Abort /\ Poll \in 0..Poll
  /\ OldAge \in Nat /\ MaxAge \in Nat
BY ConstantsAssumption DEF NoOverview, NotHeld, NoBlocks, Overviews, Blocks, Other, Statuses

LEMMA InitHolds == Init => Inductive
<1> SUFFICES ASSUME Init PROVE Inductive
  OBVIOUS
<1>1. TypeOK
  BY FreshTypes DEF Init, TypeOK, Overviews, Blocks, Lasts, NoElectrum
<1>2. InFlight = {}
  BY DEF Init, InFlight
<1>3. Loop
  BY <1>2 DEF Init, Loop
<1>4. Watching /\ HeadersNotWithheld /\ SyncedIsFresh
  BY DEF Init, Watching, HeadersNotWithheld, SyncedIsFresh, NoOverview, NoBlocks, NotHeld
<1>5. Addressed /\ Timely
  BY DEF Init, Addressed, Timely, NoElectrum
<1> QED
  BY <1>1, <1>3, <1>4, <1>5 DEF Inductive

LEMMA StartKeeps == Inductive /\ Start => Inductive'
<1> SUFFICES ASSUME Inductive, Start PROVE Inductive'
  OBVIOUS
<1>1. /\ page' = "overview" /\ timer' = None /\ watchdog' = TRUE
      /\ overview' = NoOverview /\ held' = NotHeld /\ electrum' = NoElectrum
      /\ endpoints' = OutdatedEndpoints /\ UNCHANGED <<skew, electrs, toured>>
      /\ Issue("overview", Outdated(requests))
  BY DEF Start
<1>2. /\ requests' \in [Slots -> Requests \union {None}] /\ controller' \in Slots
      /\ \A s \in InFlight' : ~requests'[s].aborted => s = controller'
      /\ \A s \in InFlight' : requests'[s].current =>
           s = controller' /\ requests'[s].page = "overview" /\ requests'[s].left = Abort
      /\ \E s \in InFlight' : requests'[s].current
  BY <1>1, OutdatedKeeps, IssueKeeps DEF Inductive
<1>3. Loop'
  BY <1>1, <1>2 DEF Loop
<1>4. endpoints' \in [Slots -> Endpoints \union {None}]
      /\ \A s \in Slots : endpoints'[s] # None => ~endpoints'[s].current
  BY <1>1, OutdatedEndpointsTypes DEF Inductive
<1>5. TypeOK'
  BY <1>1, <1>2, <1>4, FreshTypes DEF Inductive, TypeOK, Overviews, Blocks, Lasts, NoElectrum
<1>6. Watching' /\ HeadersNotWithheld' /\ SyncedIsFresh'
  BY <1>1 DEF Watching, HeadersNotWithheld, SyncedIsFresh, NoOverview, NoBlocks, NotHeld
<1>7. Addressed' /\ Timely'
  BY <1>1, <1>4 DEF Addressed, Timely, NoElectrum
<1> QED
  BY <1>3, <1>5, <1>6, <1>7 DEF Inductive

LEMMA ConnectionKeeps ==
  ASSUME Inductive, NEW c \in Choices, Connection(c)
  PROVE  Inductive'
<1>1. /\ page' = "electrum" /\ timer' = None /\ watchdog' = FALSE
      /\ overview' = NoOverview /\ held' = NotHeld
      /\ electrum' = [choice |-> c, endpoint |-> None, notice |-> "checking",
                      details |-> FALSE]
      /\ toured' = TRUE /\ UNCHANGED <<skew, electrs>>
      /\ Free(endpoints) # {}
      /\ endpoints' = [OutdatedEndpoints EXCEPT ![Slot(endpoints)] =
                         [choice |-> c, current |-> TRUE]]
      /\ Issue("electrum", Outdated(requests))
  BY DEF Connection
<1>2. /\ requests' \in [Slots -> Requests \union {None}] /\ controller' \in Slots
      /\ \A s \in InFlight' : ~requests'[s].aborted => s = controller'
      /\ \A s \in InFlight' : requests'[s].current =>
           s = controller' /\ requests'[s].page = "electrum" /\ requests'[s].left = Abort
      /\ \E s \in InFlight' : requests'[s].current
  BY <1>1, OutdatedKeeps, IssueKeeps DEF Inductive
<1>3. Loop'
  BY <1>1, <1>2 DEF Loop
<1>4. endpoints' \in [Slots -> Endpoints \union {None}]
      /\ \A s \in Slots : endpoints'[s] # None /\ endpoints'[s].current =>
           endpoints'[s].choice = c
  <2>1. Slot(endpoints) \in Slots
    BY <1>1, SlotTypes
  <2>2. [choice |-> c, current |-> TRUE] \in Endpoints
    BY DEF Endpoints
  <2>3. OutdatedEndpoints \in [Slots -> Endpoints \union {None}]
        /\ \A s \in Slots : OutdatedEndpoints[s] # None => ~OutdatedEndpoints[s].current
    BY OutdatedEndpointsTypes DEF Inductive
  <2> QED
    BY <1>1, <2>1, <2>2, <2>3
<1>5. TypeOK'
  BY <1>1, <1>2, <1>4, FreshTypes DEF Inductive, TypeOK, Overviews, Blocks, Lasts
<1>6. Watching' /\ HeadersNotWithheld' /\ SyncedIsFresh'
  BY <1>1 DEF Watching, HeadersNotWithheld, SyncedIsFresh, NoOverview, NoBlocks, NotHeld
<1>7. Addressed' /\ Timely'
  BY <1>1, <1>4 DEF Addressed, Timely
<1> QED
  BY <1>3, <1>5, <1>6, <1>7 DEF Inductive

LEMMA StopKeeps == Inductive /\ Stop => Inductive'
<1> SUFFICES ASSUME Inductive, Stop PROVE Inductive'
  OBVIOUS
<1>1. /\ page' = "none" /\ timer' = None /\ watchdog' = FALSE /\ controller' = None
      /\ overview' = NoOverview /\ held' = NotHeld /\ electrum' = NoElectrum
      /\ endpoints' = OutdatedEndpoints /\ UNCHANGED <<skew, electrs, toured>>
      /\ requests' = Outdated(requests)
  BY DEF Stop
<1>2. /\ requests' \in [Slots -> Requests \union {None}]
      /\ \A s \in Slots : requests'[s] # None => requests'[s].aborted /\ ~requests'[s].current
  BY <1>1, OutdatedKeeps DEF Inductive
<1>3. Loop'
  BY <1>1, <1>2 DEF Loop, InFlight
<1>4. endpoints' \in [Slots -> Endpoints \union {None}]
      /\ \A s \in Slots : endpoints'[s] # None => ~endpoints'[s].current
  BY <1>1, OutdatedEndpointsTypes DEF Inductive
<1>5. TypeOK'
  BY <1>1, <1>2, <1>4, FreshTypes DEF Inductive, TypeOK, Overviews, Blocks, Lasts, NoElectrum
<1>6. Watching' /\ HeadersNotWithheld' /\ SyncedIsFresh'
  BY <1>1 DEF Watching, HeadersNotWithheld, SyncedIsFresh, NoOverview, NoBlocks, NotHeld
<1>7. Addressed' /\ Timely'
  BY <1>1, <1>4 DEF Addressed, Timely, NoElectrum
<1> QED
  BY <1>3, <1>5, <1>6, <1>7 DEF Inductive

-----------------------------------------------------------------------------
(* Answers and failures.                                                   *)

\* A request of the overview ends; an answer to the current one is rendered.
LEMMA RenderKeeps ==
  ASSUME Inductive, NEW s \in Slots, NEW n \in Snapshots, Render(s, n)
  PROVE  Inductive'
<1>1. /\ requests[s] # None /\ Finally(s) /\ page' = page
      /\ UNCHANGED <<skew, watchdog, electrs, endpoints, electrum, toured>>
  BY DEF Render
<1>2. /\ requests' \in [Slots -> Requests \union {None}]
      /\ controller' \in Slots \union {None} /\ timer' \in 0..Poll \union {None}
      /\ Loop' /\ InFlight' = InFlight \ {s}
      /\ \A t \in InFlight' : requests'[t] = requests[t]
      /\ ~requests[s].current => timer' = timer
  BY <1>1, FinallyKeeps DEF Inductive
<1>3. requests[s].current => page = "overview"
  BY <1>1 DEF Render, Inductive, Loop, InFlight
<1>4. Addressed'
  BY <1>1 DEF Inductive, Addressed
<1>5. Timely'
  BY <1>1, <1>2, <1>3 DEF Inductive, Timely
<1>6. overview \in Overviews
  BY DEF Inductive, TypeOK, Overviews, Blocks, Lasts
<1>7. CASE ~requests[s].current
  <2>1. overview' = overview /\ held' = held
    BY <1>7 DEF Render
  <2>2. TypeOK'
    BY <1>1, <1>2, <2>1 DEF Inductive, TypeOK
  <2>3. Watching' /\ HeadersNotWithheld' /\ SyncedIsFresh'
    BY <1>1, <2>1 DEF Inductive, Watching, HeadersNotWithheld, SyncedIsFresh
  <2> QED
    BY <1>2, <1>4, <1>5, <2>2, <2>3 DEF Inductive
<1>8. CASE requests[s].current
  <2> DEFINE view == BlocksUpdate(overview.blocks, n)
  <2>1. /\ overview' = [last |-> [core |-> n.core, age |-> n.age], failed |-> FALSE,
                        blocks |-> view, badge |-> CoreState(n, FALSE)]
        /\ held' = HeldAfter(n)
    BY <1>8 DEF Render
  <2>2. /\ view \in Blocks
        /\ \A b, c \in view.shown : b.hash = c.hash => b = c
    BY <1>6, BlocksUpdateKeeps DEF Inductive, Watching, Overviews
  <2>3. CoreState(n, FALSE) \in {"delayed", "syncing", "synced"}
    BY DEF CoreState
  <2>4. /\ held' \in [ticks : 0..BlockWait \union {None}, overdue : BOOLEAN]
        /\ held'.ticks = view.waited /\ ~held'.overdue
    BY <1>6, <2>1, HeldAfterKeeps DEF Inductive, Watching, HeadersNotWithheld, TypeOK
  <2>5. TypeOK'
    <3>1. overview' \in Overviews
      BY <2>1, <2>2, <2>3, SnapshotTypes DEF Overviews, Lasts
    <3> QED
      BY <1>1, <1>2, <2>4, <3>1 DEF Inductive, TypeOK, Overviews, Blocks, Lasts
  <2>6. Watching' /\ HeadersNotWithheld'
    BY <1>1, <2>1, <2>2, <2>4 DEF Inductive, Watching, HeadersNotWithheld
  <2>7. SyncedIsFresh'
    <3>1. CoreState(n, FALSE) = "synced" => n.core = "synced" /\ ~(n.age + skew > Fresh)
      BY DEF CoreState
    <3>2. n.age \in Nat /\ skew \in Int
      BY SnapshotTypes, FreshTypes, ConstantsAssumption DEF Inductive, TypeOK
    <3>3. [core |-> n.core, age |-> n.age] # None
      BY SnapshotTypes, ConstantsAssumption
    <3> QED
      BY <1>1, <2>1, <3>1, <3>2, <3>3, ConstantsAssumption DEF SyncedIsFresh
  <2> QED
    BY <1>2, <1>4, <1>5, <2>5, <2>6, <2>7 DEF Inductive
<1> QED
  BY <1>7, <1>8

LEMMA RenderFailsKeeps ==
  ASSUME Inductive, NEW s \in Slots, RenderFails(s)
  PROVE  Inductive'
<1>1. /\ requests[s] # None /\ Finally(s) /\ page' = page
      /\ UNCHANGED <<skew, watchdog, held, electrs, endpoints, electrum, toured>>
      /\ overview' \in {overview, [overview EXCEPT !.failed = TRUE, !.badge = "delayed"]}
  BY DEF RenderFails
<1>2. /\ requests' \in [Slots -> Requests \union {None}]
      /\ controller' \in Slots \union {None} /\ timer' \in 0..Poll \union {None}
      /\ Loop' /\ InFlight' = InFlight \ {s}
      /\ \A t \in InFlight' : requests'[t] = requests[t]
      /\ ~requests[s].current => timer' = timer
  BY <1>1, FinallyKeeps DEF Inductive
<1>3. requests[s].current => page = "overview"
  BY <1>1 DEF RenderFails, Inductive, Loop, InFlight
<1>4. Addressed'
  BY <1>1 DEF Inductive, Addressed
<1>5. Timely'
  BY <1>1, <1>2, <1>3 DEF Inductive, Timely
<1>6. overview \in Overviews
  BY DEF Inductive, TypeOK, Overviews, Blocks, Lasts
<1>7. overview' \in Overviews /\ overview'.blocks = overview.blocks
      /\ (overview' = overview \/ overview'.badge = "delayed")
  BY <1>1, <1>6 DEF Overviews
<1>8. TypeOK'
  BY <1>1, <1>2, <1>7 DEF Inductive, TypeOK, Overviews, Blocks, Lasts
<1>9. Watching' /\ HeadersNotWithheld' /\ SyncedIsFresh'
  BY <1>1, <1>7 DEF Inductive, Watching, HeadersNotWithheld, SyncedIsFresh
<1> QED
  BY <1>2, <1>4, <1>5, <1>8, <1>9 DEF Inductive

\* A notice about the wallet connection is for an address, and true of the status.
LEMMA WithNoticeKeeps ==
  ASSUME NEW p \in Electrums, NEW e \in [status : Statuses, coreIbd : BOOLEAN],
         p.notice \in {"running", "inactive"} => p.endpoint # None
  PROVE  /\ WithNotice(p, e) \in Electrums
         /\ WithNotice(p, e).choice = p.choice
         /\ WithNotice(p, e).endpoint = p.endpoint
         /\ WithNotice(p, e).details = p.details
         /\ WithNotice(p, e).notice \in {"running", "inactive"} =>
              p.endpoint # None /\ IsReady(e.status) /\ ~e.coreIbd
<1>1. CASE p.endpoint = None
  BY <1>1 DEF WithNotice
<1>2. CASE p.endpoint # None
  <2>1. WithNotice(p, e) = [p EXCEPT !.notice = Notice(p.endpoint, e)]
    BY <1>2 DEF WithNotice
  <2>2. /\ Notice(p.endpoint, e) \in {"core_syncing", "indexing", "running", "inactive"}
        /\ Notice(p.endpoint, e) \in {"running", "inactive"} =>
             IsReady(e.status) /\ ~e.coreIbd
    BY DEF Notice
  <2> HIDE DEF Notice
  <2> QED
    BY <1>2, <2>1, <2>2 DEF Electrums
<1> QED
  BY <1>1, <1>2

\* A request of the Electrum page ends, with or without a status; the notice is brought
\* up to date in both cases, and a timer starts.
LEMMA ElectrumEnds ==
  ASSUME Inductive, NEW s \in Slots, requests[s] # None, requests[s].page = "electrum",
         Finally(s), UNCHANGED <<skew, page, watchdog, overview, held, endpoints, toured>>,
         \/ UNCHANGED <<electrs, electrum>> /\ ~requests[s].current
         \/ /\ requests[s].current
            /\ electrs' \in [status : Statuses, coreIbd : BOOLEAN]
            /\ electrum' = WithNotice(electrum, electrs')
  PROVE  Inductive'
<1>1. /\ requests' \in [Slots -> Requests \union {None}]
      /\ controller' \in Slots \union {None} /\ timer' \in 0..Poll \union {None}
      /\ Loop' /\ InFlight' = InFlight \ {s}
      /\ \A t \in InFlight' : requests'[t] = requests[t]
      /\ ~requests[s].current => timer' = timer
      /\ requests[s].current => timer' = Poll
  BY FinallyKeeps DEF Inductive
<1>2. Watching' /\ HeadersNotWithheld' /\ SyncedIsFresh'
  BY DEF Inductive, Watching, HeadersNotWithheld, SyncedIsFresh
<1>3. CASE UNCHANGED <<electrs, electrum>> /\ ~requests[s].current
  <2>1. TypeOK'
    BY <1>1, <1>3 DEF Inductive, TypeOK
  <2>2. Addressed' /\ Timely'
    BY <1>1, <1>3 DEF Inductive, Addressed, Timely
  <2> QED
    BY <1>1, <1>2, <2>1, <2>2 DEF Inductive
<1>4. CASE requests[s].current
  <2>1. electrum \in Electrums /\ electrs' \in [status : Statuses, coreIbd : BOOLEAN]
        /\ (electrum.notice \in {"running", "inactive"} => electrum.endpoint # None)
        /\ electrum' = WithNotice(electrum, electrs')
    BY <1>4 DEF Inductive, TypeOK, Electrums, Addressed
  <2>2. /\ electrum' \in Electrums
        /\ electrum'.choice = electrum.choice /\ electrum'.endpoint = electrum.endpoint
        /\ electrum'.details = electrum.details
        /\ electrum'.notice \in {"running", "inactive"} =>
             electrum.endpoint # None /\ IsReady(electrs.status)' /\ ~electrs'.coreIbd
    BY <2>1, WithNoticeKeeps DEF IsReady
  <2>3. TypeOK'
    BY <1>1, <2>1, <2>2 DEF Inductive, TypeOK, Electrums
  <2>4. Addressed'
    BY <2>2 DEF Inductive, Addressed
  <2>5. Timely'
    <3>1. timer' = Poll /\ Poll # None /\ \A t \in InFlight' : ~requests'[t].current
      BY <1>1, <1>4, ConstantsAssumption DEF Loop
    <3>2. electrum'.notice \in {"running", "inactive"} =>
            /\ electrs'.status.state = "READY" /\ ~electrs'.coreIbd
            /\ electrs'.status.age + skew' <= Fresh
      BY <2>2 DEF IsReady
    <3>3. IsReady(electrs.status)' => electrs'.status.age \in Nat /\ skew' \in Int
      BY <2>1, FreshTypes, ConstantsAssumption DEF Inductive, TypeOK, Statuses
    <3>4. Poll \in Nat /\ Fresh \in Nat
      BY ConstantsAssumption
    <3> QED
      BY <2>2, <3>1, <3>2, <3>3, <3>4 DEF Timely
  <2> QED
    BY <1>1, <1>2, <2>3, <2>4, <2>5 DEF Inductive
<1> QED
  BY <1>3, <1>4

LEMMA RenderElectrumKeeps ==
  ASSUME Inductive, NEW s \in Slots, NEW ibd \in BOOLEAN,
         NEW st \in {Other} \union [state : {"READY"}, age : {0, Fresh}],
         RenderElectrum(s, st, ibd)
  PROVE  Inductive'
<1>1. st \in Statuses
  BY ConstantsAssumption DEF Statuses, Other
<1>2. requests[s].current => electrs' \in [status : Statuses, coreIbd : BOOLEAN]
  BY <1>1 DEF RenderElectrum
<1> QED
  BY <1>2, ElectrumEnds DEF RenderElectrum

LEMMA RenderElectrumFailsKeeps ==
  ASSUME Inductive, NEW s \in Slots, RenderElectrumFails(s)
  PROVE  Inductive'
<1>1. requests[s].current => electrs' \in [status : Statuses, coreIbd : BOOLEAN]
  <2>1. electrs \in [status : Statuses, coreIbd : BOOLEAN]
    BY DEF Inductive, TypeOK
  <2> QED
    BY <2>1, FreshTypes DEF RenderElectrumFails
<1> QED
  BY <1>1, ElectrumEnds DEF RenderElectrumFails

LEMMA EndpointArrivesKeeps ==
  ASSUME Inductive, NEW s \in Slots, NEW active \in BOOLEAN, EndpointArrives(s, active)
  PROVE  Inductive'
<1>1. /\ endpoints[s] # None /\ endpoints' = [endpoints EXCEPT ![s] = None]
      /\ UNCHANGED <<skew, page, requests, controller, timer, watchdog, overview, held,
                     electrs, toured>>
  BY DEF EndpointArrives
<1>2. /\ endpoints' \in [Slots -> Endpoints \union {None}] /\ endpoints[s] \in Endpoints
      /\ \A t \in Slots : endpoints'[t] # None => endpoints'[t] = endpoints[t]
  BY <1>1 DEF Inductive, TypeOK
<1>3. Loop' /\ Watching' /\ HeadersNotWithheld' /\ SyncedIsFresh'
  BY <1>1 DEF Inductive, Loop, InFlight, Watching, HeadersNotWithheld, SyncedIsFresh
<1>4. electrum \in Electrums /\ electrs \in [status : Statuses, coreIbd : BOOLEAN]
  BY DEF Inductive, TypeOK, Electrums
<1>5. CASE ~endpoints[s].current
  <2>1. electrum' = electrum
    BY <1>5 DEF EndpointArrives
  <2>2. TypeOK'
    BY <1>1, <1>2, <2>1 DEF Inductive, TypeOK
  <2>3. Addressed' /\ Timely'
    BY <1>1, <1>2, <2>1 DEF Inductive, Addressed, Timely, InFlight
  <2> QED
    BY <1>3, <2>2, <2>3 DEF Inductive
<1>6. CASE endpoints[s].current
  <2> DEFINE ep == [choice |-> endpoints[s].choice, active |-> active]
             pg == [electrum EXCEPT !.endpoint = ep, !.details = TRUE]
  <2>1. endpoints[s].choice = electrum.choice
    BY <1>1, <1>6 DEF Inductive, Addressed
  <2>2. ep \in [choice : Choices, active : BOOLEAN] /\ ep # None
    BY <1>2, ConstantsAssumption DEF Endpoints
  <2>3. pg \in Electrums /\ pg.endpoint = ep /\ pg.details /\ pg.choice = electrum.choice
    BY <1>4, <2>2 DEF Electrums
  <2>4. electrum' = WithNotice(pg, electrs)
    BY <1>6 DEF EndpointArrives
  <2>5. /\ electrum' \in Electrums /\ electrum'.choice = electrum.choice
        /\ electrum'.endpoint = ep /\ electrum'.details
        /\ electrum'.notice \in {"running", "inactive"} =>
             IsReady(electrs.status) /\ ~electrs.coreIbd
    <3> HIDE DEF pg, ep
    <3> QED
      BY <1>4, <2>2, <2>3, <2>4, WithNoticeKeeps
  <2>6. TypeOK'
    BY <1>1, <1>2, <2>5 DEF Inductive, TypeOK, Electrums
  <2>7. Addressed'
    BY <1>1, <1>2, <2>1, <2>2, <2>5 DEF Inductive, Addressed
  <2>8. Timely'
    <3>1. IsReady(electrs.status) =>
            /\ electrs.status.state = "READY" /\ electrs.status.age + skew <= Fresh
            /\ electrs.status.age \in Nat /\ skew \in Int
      BY <1>4, FreshTypes, ConstantsAssumption DEF IsReady, Inductive, TypeOK, Statuses
    <3>2. timer # None => timer \in 0..Poll
      BY DEF Inductive, TypeOK
    <3>3. \A t \in InFlight : requests[t].left \in 0..Abort
      BY DEF Inductive, TypeOK, InFlight, Requests
    <3>4. Poll \in Nat /\ Abort \in Nat /\ Fresh \in Nat
      BY ConstantsAssumption
    <3> QED
      BY <1>1, <2>5, <3>1, <3>2, <3>3, <3>4 DEF Timely, InFlight
  <2> QED
    BY <1>3, <2>6, <2>7, <2>8 DEF Inductive
<1> QED
  BY <1>5, <1>6

LEMMA EndpointFailsKeeps ==
  ASSUME Inductive, NEW s \in Slots, EndpointFails(s)
  PROVE  Inductive'
<1>1. /\ endpoints[s] # None /\ endpoints' = [endpoints EXCEPT ![s] = None]
      /\ UNCHANGED <<skew, page, requests, controller, timer, watchdog, overview, held,
                     electrs, toured>>
      /\ electrum' \in {electrum, [electrum EXCEPT !.notice = "error"]}
  BY DEF EndpointFails
<1>2. /\ endpoints' \in [Slots -> Endpoints \union {None}]
      /\ \A t \in Slots : endpoints'[t] # None => endpoints'[t] = endpoints[t]
  BY <1>1 DEF Inductive, TypeOK
<1>3. Loop' /\ Watching' /\ HeadersNotWithheld' /\ SyncedIsFresh'
  BY <1>1 DEF Inductive, Loop, InFlight, Watching, HeadersNotWithheld, SyncedIsFresh
<1>4. /\ electrum' \in Electrums /\ electrum'.choice = electrum.choice
      /\ electrum'.endpoint = electrum.endpoint /\ electrum'.details = electrum.details
      /\ electrum'.notice \in {electrum.notice, "error"}
  <2>1. electrum \in Electrums
    BY DEF Inductive, TypeOK, Electrums
  <2> QED
    BY <1>1, <2>1 DEF Electrums
<1>5. TypeOK'
  BY <1>1, <1>2, <1>4 DEF Inductive, TypeOK, Electrums
<1>6. Addressed' /\ Timely'
  BY <1>1, <1>2, <1>4 DEF Inductive, Addressed, Timely, InFlight
<1> QED
  BY <1>3, <1>5, <1>6 DEF Inductive

-----------------------------------------------------------------------------
(* Time.                                                                   *)

LEMMA TimerFiresKeeps == Inductive /\ TimerFires => Inductive'
<1> SUFFICES ASSUME Inductive, TimerFires PROVE Inductive'
  OBVIOUS
<1>1. /\ timer = 0 /\ timer' = None /\ Issue(page, requests)
      /\ UNCHANGED <<skew, page, watchdog, overview, held, electrs, endpoints, electrum,
                     toured>>
  BY DEF TimerFires
<1>2. timer # None
  BY <1>1, ConstantsAssumption
<1>3. page \in {"overview", "electrum"}
  BY <1>2 DEF Inductive, TypeOK, Loop
<1>4. /\ requests \in [Slots -> Requests \union {None}]
      /\ \A s \in Slots : requests[s] # None => requests[s].aborted /\ ~requests[s].current
  BY <1>2 DEF Inductive, TypeOK, Loop, InFlight
<1>5. /\ requests' \in [Slots -> Requests \union {None}] /\ controller' \in Slots
      /\ \A s \in InFlight' : ~requests'[s].aborted => s = controller'
      /\ \A s \in InFlight' : requests'[s].current =>
           s = controller' /\ requests'[s].page = page /\ requests'[s].left = Abort
      /\ \E s \in InFlight' : requests'[s].current
  BY <1>1, <1>3, <1>4, IssueKeeps
<1>6. Loop'
  BY <1>1, <1>3, <1>5 DEF Loop
<1>7. TypeOK'
  BY <1>1, <1>5 DEF Inductive, TypeOK
<1>8. Watching' /\ HeadersNotWithheld' /\ SyncedIsFresh' /\ Addressed'
  BY <1>1 DEF Inductive, Watching, HeadersNotWithheld, SyncedIsFresh, Addressed
<1>9. Timely'
  <2>1. electrs.status.age \in Nat /\ skew \in Int
    BY FreshTypes, ConstantsAssumption DEF Inductive, TypeOK, Statuses
  <2>2. Poll \in Nat /\ Abort \in Nat /\ Fresh \in Nat
    BY ConstantsAssumption
  <2> QED
    BY <1>1, <1>2, <1>5, <2>1, <2>2 DEF Inductive, Timely
<1> QED
  BY <1>6, <1>7, <1>8, <1>9 DEF Inductive

LEMMA TimeoutFiresKeeps ==
  ASSUME Inductive, NEW s \in Slots, TimeoutFires(s)
  PROVE  Inductive'
<1>1. /\ requests[s] # None
      /\ requests' = [requests EXCEPT ![s].aborted = TRUE]
      /\ UNCHANGED <<skew, page, controller, timer, watchdog, overview, held, electrs,
                     endpoints, electrum, toured>>
  BY DEF TimeoutFires
<1>2. requests \in [Slots -> Requests \union {None}] /\ requests[s] \in Requests
  BY <1>1 DEF Inductive, TypeOK
<1>3. /\ requests'[s] \in Requests /\ requests'[s] # None /\ requests'[s].aborted
      /\ requests'[s].current = requests[s].current
      /\ requests'[s].page = requests[s].page /\ requests'[s].left = requests[s].left
      /\ \A t \in Slots : t # s => requests'[t] = requests[t]
  <2>1. requests'[s] = [requests[s] EXCEPT !.aborted = TRUE]
        /\ \A t \in Slots : t # s => requests'[t] = requests[t]
    BY <1>1, <1>2
  <2>2. requests'[s] \in Requests
    BY <1>2, <2>1 DEF Requests
  <2>3. None \notin Requests
    BY ConstantsAssumption DEF Requests
  <2> QED
    BY <1>2, <2>1, <2>2, <2>3 DEF Requests
<1>4. requests' \in [Slots -> Requests \union {None}]
  BY <1>1, <1>2, <1>3
<1>5. InFlight' = InFlight
  BY <1>1, <1>3 DEF InFlight
<1>6. /\ \A t \in InFlight : requests'[t].current = requests[t].current
                            /\ requests'[t].page = requests[t].page
                            /\ requests'[t].left = requests[t].left
                            /\ (requests[t].aborted => requests'[t].aborted)
  BY <1>3 DEF InFlight
<1>7. Loop'
  BY <1>1, <1>5, <1>6 DEF Inductive, Loop
<1>8. TypeOK'
  BY <1>1, <1>4 DEF Inductive, TypeOK
<1>9. Watching' /\ HeadersNotWithheld' /\ SyncedIsFresh' /\ Addressed'
  BY <1>1 DEF Inductive, Watching, HeadersNotWithheld, SyncedIsFresh, Addressed
<1>10. Timely'
  BY <1>1, <1>5, <1>6 DEF Inductive, Timely
<1> QED
  BY <1>7, <1>8, <1>9, <1>10 DEF Inductive

\* An overview a tick later: older by a tick, waiting for a tick more.
LEMMA AgedKeeps ==
  ASSUME NEW o \in Overviews
  PROVE  /\ Aged(o) \in Overviews
         /\ Aged(o).badge = o.badge
         /\ Aged(o).blocks.shown = o.blocks.shown
         /\ Aged(o).blocks.waited = Longer(o.blocks.waited)
<1> DEFINE l == OlderSample(o.last)
           w == Longer(o.blocks.waited)
           b == [o.blocks EXCEPT !.waited = w]
<1>1. o.blocks \in Blocks /\ o.last \in Lasts \union {None}
  BY DEF Overviews
<1>2. Aged(o) = [o EXCEPT !.last = l, !.blocks = b]
  BY DEF Aged
<1>3. l \in Lasts \union {None}
  BY <1>1, FreshTypes DEF OlderSample, Lasts, Older
<1>4. w \in 0..BlockWait \union {None}
  BY <1>1, ConstantsAssumption DEF Blocks, Longer
<1>5. b \in Blocks /\ b.shown = o.blocks.shown /\ b.waited = w
  BY <1>1, <1>4 DEF Blocks
<1> HIDE DEF l, b
<1> QED
  BY <1>2, <1>3, <1>5 DEF Overviews

LEMMA TickKeeps == Inductive /\ Tick => Inductive'
<1> SUFFICES ASSUME Inductive, Tick PROVE Inductive'
  OBVIOUS
<1>1. /\ ~Due
      /\ requests' = [s \in Slots |-> IF requests[s] = None THEN None
                                      ELSE [requests[s] EXCEPT !.left = @ - 1]]
      /\ timer' = IF timer = None THEN None ELSE timer - 1
      /\ overview' = IF watchdog THEN Watched(Aged(overview)) ELSE Aged(overview)
      /\ held' = [held EXCEPT !.ticks = Longer(@)]
      /\ electrs' = IF electrs.status.state = "READY"
                     THEN [electrs EXCEPT !.status.age = Older(@, MaxAge)] ELSE electrs
      /\ UNCHANGED <<skew, page, controller, watchdog, endpoints, electrum, toured>>
  BY DEF Tick
<1>2. /\ timer # None => timer \in 1..Poll
      /\ \A s \in InFlight : requests[s] \in Requests /\ requests[s].left \in 1..Abort
  <2>1. timer # 0 /\ \A s \in InFlight : requests[s].left # 0
    BY <1>1 DEF Due
  <2>2. timer # None => timer \in 0..Poll
    BY DEF Inductive, TypeOK
  <2>3. \A s \in InFlight : requests[s] \in Requests /\ requests[s].left \in 0..Abort
    BY DEF Inductive, TypeOK, InFlight, Requests
  <2> QED
    BY <2>1, <2>2, <2>3, ConstantsAssumption
<1>3. /\ timer' \in 0..Poll \union {None}
      /\ (timer' # None) = (timer # None)
      /\ timer # None => timer' = timer - 1
  BY <1>1, <1>2, ConstantsAssumption
<1>4. \A s \in Slots : requests[s] # None =>
        /\ requests'[s] \in Requests
        /\ requests'[s] # None
        /\ requests'[s].current = requests[s].current
        /\ requests'[s].aborted = requests[s].aborted
        /\ requests'[s].page = requests[s].page
        /\ requests'[s].left = requests[s].left - 1
  <2> SUFFICES ASSUME NEW s \in Slots, requests[s] # None
               PROVE  /\ requests'[s] \in Requests
                      /\ requests'[s] # None
                      /\ requests'[s].current = requests[s].current
                      /\ requests'[s].aborted = requests[s].aborted
                      /\ requests'[s].page = requests[s].page
                      /\ requests'[s].left = requests[s].left - 1
    OBVIOUS
  <2>1. requests[s] \in Requests /\ requests[s].left - 1 \in 0..Abort
    BY <1>2, ConstantsAssumption DEF InFlight
  <2>2. requests'[s] = [requests[s] EXCEPT !.left = @ - 1]
    BY <1>1
  <2>3. requests'[s] \in Requests
    BY <2>1, <2>2 DEF Requests
  <2>4. None \notin Requests
    BY ConstantsAssumption DEF Requests
  <2> QED
    BY <2>1, <2>2, <2>3, <2>4 DEF Requests
<1>5. requests' \in [Slots -> Requests \union {None}] /\ InFlight' = InFlight
  <2>1. \A s \in Slots : requests[s] = None => requests'[s] = None
    BY <1>1
  <2>2. \A s \in Slots : requests'[s] \in Requests \union {None}
    BY <1>4, <2>1
  <2>3. requests' \in [Slots -> Requests \union {None}]
    <3>1. DOMAIN requests' = Slots /\ requests' = [s \in Slots |-> requests'[s]]
      BY <1>1
    <3> QED
      BY <2>2, <3>1
  <2>4. InFlight' = InFlight
    BY <1>4, <2>1 DEF InFlight
  <2> QED
    BY <2>3, <2>4
<1>6. Loop'
  <2>1. /\ page' = page /\ controller' = controller
        /\ \A s \in InFlight : /\ requests'[s].current = requests[s].current
                              /\ requests'[s].aborted = requests[s].aborted
                              /\ requests'[s].page = requests[s].page
    BY <1>1, <1>4 DEF InFlight
  <2>2. (timer' = None) = (timer = None)
    BY <1>3
  <2> QED
    BY <1>5, <2>1, <2>2 DEF Inductive, Loop
<1>7. overview \in Overviews
  BY DEF Inductive, TypeOK, Overviews, Blocks, Lasts
<1> DEFINE o == Aged(overview)
<1>8. /\ o \in Overviews /\ o.badge = overview.badge
      /\ o.blocks.shown = overview.blocks.shown
      /\ o.blocks.waited = Longer(overview.blocks.waited)
  BY <1>7, AgedKeeps
<1>9. /\ overview' \in Overviews /\ overview'.blocks = o.blocks
      /\ overview'.last = o.last /\ overview'.failed = o.failed
      /\ watchdog => overview'.badge = CoreState(o.last, o.failed)
  <2>1. CoreState(o.last, o.failed) \in {"delayed", "syncing", "synced"}
    BY DEF CoreState
  <2> HIDE DEF o
  <2> QED
    BY <1>1, <1>8, <2>1 DEF Watched, Overviews, o
<1>10. /\ held' \in [ticks : 0..BlockWait \union {None}, overdue : BOOLEAN]
       /\ held'.ticks = o.blocks.waited /\ ~held'.overdue
  <2>1. held \in [ticks : 0..BlockWait \union {None}, overdue : BOOLEAN]
        /\ held.ticks = overview.blocks.waited /\ ~held.overdue
    BY DEF Inductive, TypeOK, Watching, HeadersNotWithheld
  <2>2. Longer(held.ticks) \in 0..BlockWait \union {None}
    BY <2>1, ConstantsAssumption DEF Longer
  <2> QED
    BY <1>1, <1>8, <2>1, <2>2
<1>11. /\ electrs' \in [status : Statuses, coreIbd : BOOLEAN]
       /\ electrs'.status.state = electrs.status.state
       /\ electrs'.coreIbd = electrs.coreIbd
       /\ electrs.status.age \in Nat /\ electrs'.status.age \in Nat
       /\ electrs'.status.age <= electrs.status.age + 1
  <2>1. electrs \in [status : Statuses, coreIbd : BOOLEAN]
        /\ electrs.status \in Statuses /\ electrs.status.age \in Nat /\ MaxAge \in Nat
    BY FreshTypes DEF Inductive, TypeOK, Statuses
  <2>2. CASE electrs.status.state = "READY"
    <3> DEFINE a == Older(electrs.status.age, MaxAge)
    <3>1. electrs.status.age \in 0..MaxAge
      BY <2>1, <2>2 DEF Statuses
    <3>2. a \in 0..MaxAge /\ a <= electrs.status.age + 1
      BY <2>1, <3>1 DEF Older
    <3>3. electrs' = [electrs EXCEPT !.status = [electrs.status EXCEPT !.age = a]]
      BY <1>1, <2>1, <2>2
    <3>4. [electrs.status EXCEPT !.age = a] \in [state : {"READY"}, age : 0..MaxAge]
          /\ [electrs.status EXCEPT !.age = a].age = a
      BY <2>1, <2>2, <3>2 DEF Statuses
    <3> HIDE DEF a
    <3> QED
      BY <2>1, <2>2, <3>2, <3>3, <3>4 DEF Statuses
  <2>3. CASE electrs.status.state # "READY"
    BY <1>1, <2>1, <2>3
  <2> QED
    BY <2>2, <2>3
<1>12. TypeOK'
  BY <1>1, <1>3, <1>5, <1>9, <1>10, <1>11 DEF Inductive, TypeOK, Overviews, Blocks, Lasts
<1>13. Watching' /\ HeadersNotWithheld'
  BY <1>1, <1>8, <1>9, <1>10 DEF Inductive, Watching, HeadersNotWithheld
<1>14. SyncedIsFresh'
  <2> SUFFICES ASSUME page' = "overview", overview'.badge = "synced"
               PROVE  /\ overview'.last # None /\ ~overview'.failed
                      /\ overview'.last.core = "synced"
                      /\ overview'.last.age + skew' <= Fresh
    BY DEF SyncedIsFresh
  <2>1. CoreState(o.last, o.failed) = "synced"
    BY <1>1, <1>9 DEF Inductive, Watching
  <2>2. /\ o.last # None /\ ~o.failed /\ o.last.core = "synced"
        /\ ~(o.last.age + skew > Fresh)
    BY <2>1 DEF CoreState
  <2>3. o.last.age \in Nat /\ skew \in Int /\ Fresh \in Nat
    <3>1. o.last \in Lasts /\ OldAge \in Nat
      BY <1>8, <2>2, FreshTypes DEF Overviews
    <3> QED
      BY <3>1, ConstantsAssumption DEF Lasts, Inductive, TypeOK
  <2> QED
    BY <1>1, <1>9, <2>2, <2>3
<1>15. Addressed'
  BY <1>1 DEF Inductive, Addressed
<1>16. Timely'
  <2>1. skew \in Int /\ Poll \in Nat /\ Abort \in Nat /\ Fresh \in Nat
    BY ConstantsAssumption DEF Inductive, TypeOK
  <2>2. \A s \in InFlight : requests[s].left \in Nat
                            /\ requests'[s].current = requests[s].current
                            /\ requests'[s].left = requests[s].left - 1
    BY <1>2, <1>4, <2>1 DEF InFlight
  <2>3. timer # None => timer \in Nat
    BY <1>2, <2>1
  <2> SUFFICES ASSUME page = "electrum", electrum.notice \in {"running", "inactive"}
               PROVE  /\ electrs'.status.state = "READY" /\ ~electrs'.coreIbd
                      /\ timer' # None => electrs'.status.age + skew' + timer' <= Fresh + Poll
                      /\ \A s \in InFlight' : requests'[s].current =>
                           electrs'.status.age + skew' + requests'[s].left
                             <= Fresh + Poll + Abort
    BY <1>1 DEF Timely
  <2>4. /\ electrs.status.state = "READY" /\ ~electrs.coreIbd
        /\ timer # None => electrs.status.age + skew + timer <= Fresh + Poll
        /\ \A s \in InFlight : requests[s].current =>
             electrs.status.age + skew + requests[s].left <= Fresh + Poll + Abort
    BY DEF Inductive, Timely
  <2>5. timer' # None => electrs'.status.age + skew' + timer' <= Fresh + Poll
    BY <1>1, <1>3, <1>11, <2>1, <2>3, <2>4
  <2>6. ASSUME NEW s \in InFlight', requests'[s].current
        PROVE  electrs'.status.age + skew' + requests'[s].left <= Fresh + Poll + Abort
    <3>1. /\ electrs.status.age + skew + requests[s].left <= Fresh + Poll + Abort
          /\ requests'[s].left = requests[s].left - 1 /\ requests[s].left \in Nat
      BY <1>5, <2>2, <2>4, <2>6
    <3> QED
      BY <1>1, <1>11, <2>1, <3>1
  <2> QED
    BY <1>11, <2>4, <2>5, <2>6
<1> QED
  BY <1>6, <1>12, <1>13, <1>14, <1>15, <1>16 DEF Inductive

-----------------------------------------------------------------------------
(* Every step.                                                             *)

LEMMA StepKeeps == Inductive /\ [Next]_vars => Inductive'
<1> SUFFICES ASSUME Inductive, [Next]_vars PROVE Inductive'
  OBVIOUS
<1>1. CASE UNCHANGED vars
  BY <1>1 DEF vars, Inductive, TypeOK, Loop, InFlight, Watching, HeadersNotWithheld,
     SyncedIsFresh, Addressed, Timely
<1>2. CASE Start
  BY <1>2, StartKeeps
<1>3. CASE \E c \in Choices : Connection(c)
  BY <1>3, ConnectionKeeps
<1>4. CASE Stop
  BY <1>4, StopKeeps
<1>5. CASE TimerFires
  BY <1>5, TimerFiresKeeps
<1>6. CASE Tick
  BY <1>6, TickKeeps
<1>7. ASSUME NEW s \in Slots, NEW n \in Snapshots, Render(s, n)
      PROVE  Inductive'
  BY <1>7, RenderKeeps
<1>8. ASSUME NEW s \in Slots, RenderFails(s)
      PROVE  Inductive'
  BY <1>8, RenderFailsKeeps
<1>9. ASSUME NEW s \in Slots, NEW ibd \in BOOLEAN,
             NEW st \in {Other} \union [state : {"READY"}, age : {0, Fresh}],
             RenderElectrum(s, st, ibd)
      PROVE  Inductive'
  BY <1>9, RenderElectrumKeeps
<1>10. ASSUME NEW s \in Slots, RenderElectrumFails(s)
       PROVE  Inductive'
  BY <1>10, RenderElectrumFailsKeeps
<1>11. ASSUME NEW s \in Slots, NEW active \in BOOLEAN, EndpointArrives(s, active)
       PROVE  Inductive'
  BY <1>11, EndpointArrivesKeeps
<1>12. ASSUME NEW s \in Slots, EndpointFails(s)
       PROVE  Inductive'
  BY <1>12, EndpointFailsKeeps
<1>13. ASSUME NEW s \in Slots, TimeoutFires(s)
       PROVE  Inductive'
  BY <1>13, TimeoutFiresKeeps
<1> QED
  BY <1>1, <1>2, <1>3, <1>4, <1>5, <1>6, <1>7, <1>8, <1>9, <1>10, <1>11, <1>12, <1>13
     DEF Next

LEMMA Invariance == Spec => []Inductive
BY InitHolds, StepKeeps, PTL DEF Spec

\* The next step takes nothing from the rows shown, as long as the chain is the same.
LEMMA StepKeepsDetails ==
  ASSUME Inductive, [Next]_vars, overview'.blocks.chain = overview.blocks.chain,
         NEW o \in overview.blocks.shown, NEW b \in overview'.blocks.shown,
         o.hash = b.hash
  PROVE  /\ o.size => b.size
         /\ o.miner = "resolved" => b.miner = "resolved"
<1>1. overview \in Overviews /\ overview.blocks \in Blocks
  BY DEF Inductive, TypeOK, Overviews, Blocks, Lasts
<1>2. \A x, y \in overview.blocks.shown : x.hash = y.hash => x = y
  BY DEF Inductive, Watching
<1>3. CASE overview'.blocks.shown = overview.blocks.shown
  BY <1>2, <1>3
<1>4. CASE overview' = NoOverview
  BY <1>4 DEF NoOverview, NoBlocks
<1>5. CASE \E n \in Snapshots : overview'.blocks = BlocksUpdate(overview.blocks, n)
  BY <1>1, <1>2, <1>5, BlocksUpdateKeeps
<1>6. CASE UNCHANGED overview
  BY <1>3, <1>6
<1>7. CASE Start \/ (\E c \in Choices : Connection(c)) \/ Stop
  BY <1>4, <1>7 DEF Start, Connection, Stop
<1>8. CASE Tick
  <2>1. /\ Aged(overview).blocks.shown = overview.blocks.shown
        /\ Aged(overview) \in Overviews
    BY <1>1, AgedKeeps
  <2>2. Watched(Aged(overview)).blocks = Aged(overview).blocks
    BY <2>1 DEF Watched, Overviews
  <2> QED
    BY <1>3, <1>8, <2>1, <2>2 DEF Tick
<1>9. ASSUME NEW s \in Slots, NEW n \in Snapshots, Render(s, n)
      PROVE  overview' = overview \/ overview'.blocks = BlocksUpdate(overview.blocks, n)
  <2>1. CASE requests[s].current
    <3> DEFINE view == BlocksUpdate(overview.blocks, n)
    <3>1. overview' = [last |-> [core |-> n.core, age |-> n.age], failed |-> FALSE,
                       blocks |-> view, badge |-> CoreState(n, FALSE)]
      BY <1>9, <2>1 DEF Render
    <3> HIDE DEF view
    <3> QED
      BY <3>1 DEF view
  <2>2. CASE ~requests[s].current
    BY <1>9, <2>2 DEF Render
  <2> QED
    BY <2>1, <2>2
<1>10. ASSUME NEW s \in Slots, RenderFails(s)
       PROVE  overview'.blocks.shown = overview.blocks.shown
  BY <1>1, <1>10 DEF RenderFails, Overviews
<1>11. CASE \/ TimerFires \/ UNCHANGED vars
            \/ \E s \in Slots :
                 \/ \E st \in {Other} \union [state : {"READY"}, age : {0, Fresh}],
                       ibd \in BOOLEAN : RenderElectrum(s, st, ibd)
                 \/ RenderElectrumFails(s)
                 \/ \E active \in BOOLEAN : EndpointArrives(s, active)
                 \/ EndpointFails(s)
                 \/ TimeoutFires(s)
  BY <1>6, <1>11 DEF TimerFires, vars, RenderElectrum, RenderElectrumFails, EndpointArrives,
     EndpointFails, TimeoutFires
<1> QED
  BY <1>3, <1>5, <1>6, <1>7, <1>8, <1>9, <1>10, <1>11 DEF Next

-----------------------------------------------------------------------------
(* The theorems.                                                           *)

\* Every variable has its type (dashboard.js, electrs_status.js): in particular no list
\* waits for longer than its time, and the timer never exceeds the time between polls.
THEOREM TypeCorrect == Spec => []TypeOK
BY Invariance, PTL DEF Inductive

\* However pages change and whatever answers are late, one status request is open at a
\* time, and none while the next is scheduled (stop and refresh of dashboard.js).
THEOREM OneRequest == Spec => []OneStatusRequest
<1>1. Inductive => OneStatusRequest
  <2> SUFFICES ASSUME Inductive PROVE OneStatusRequest
    OBVIOUS
  <2> DEFINE open == {s \in InFlight : ~requests[s].aborted}
  <2>1. open \in SUBSET {controller}
    BY DEF Inductive, Loop
  <2>2. IsFiniteSet({controller}) /\ Cardinality({controller}) = 1
    BY FS_Singleton
  <2>3. Cardinality(open) <= 1
    BY <2>1, <2>2, FS_Subset
  <2>4. timer # None => \A s \in InFlight : requests[s].aborted
    BY DEF Inductive, Loop
  <2> QED
    BY <2>3, <2>4 DEF OneStatusRequest
<1> QED
  BY <1>1, Invariance, PTL

\* The badge says synchronized only on a fresh answer, also between answers (CoreStatus
\* and updateStatus of dashboard.js).
THEOREM SyncedFresh == Spec => []SyncedIsFresh
BY Invariance, PTL DEF Inductive

\* The Electrum notice outlives what it was made from by one unanswered poll at most
\* (updateElectrumNotice and the timers of dashboard.js).
THEOREM NoticeFresh == Spec => []NoticeIsFresh
<1>1. Inductive => NoticeIsFresh
  <2> SUFFICES ASSUME Inductive PROVE NoticeIsFresh
    OBVIOUS
  <2>1. electrum.details => electrum.endpoint.choice = electrum.choice
    BY DEF Inductive, Addressed
  <2>2. ASSUME page = "electrum", electrum.notice \in {"running", "inactive"}
        PROVE  /\ electrs.status.state = "READY" /\ ~electrs.coreIbd
               /\ electrs.status.age + skew <= Fresh + Poll + Abort
    <3>1. /\ electrs.status.state = "READY" /\ ~electrs.coreIbd
          /\ timer # None => electrs.status.age + skew + timer <= Fresh + Poll
          /\ \A s \in InFlight : requests[s].current =>
               electrs.status.age + skew + requests[s].left <= Fresh + Poll + Abort
      BY <2>2 DEF Inductive, Timely
    <3>2. timer # None \/ \E s \in InFlight : requests[s].current
      BY <2>2 DEF Inductive, Loop
    <3>3. /\ electrs.status.age \in Nat /\ skew \in Int
          /\ timer # None => timer \in Nat
          /\ \A s \in InFlight : requests[s].left \in Nat
      BY FreshTypes, ConstantsAssumption
         DEF Inductive, TypeOK, Statuses, InFlight, Requests
    <3>4. Poll \in Nat /\ Abort \in Nat /\ Fresh \in Nat
      BY ConstantsAssumption
    <3> QED
      BY <3>1, <3>2, <3>3, <3>4
  <2> QED
    BY <2>1, <2>2 DEF NoticeIsFresh
<1> QED
  BY <1>1, Invariance, PTL

\* Headers are shown by the first answer after their deadline, whatever other batches
\* came in between (RecentBlocks.update of dashboard.js).
THEOREM HeadersShown == Spec => []HeadersNotWithheld
BY Invariance, PTL DEF Inductive

\* Details of a block that were shown are not taken back on the same chain
\* (RecentBlocks.update of dashboard.js).
THEOREM DetailsKept == Spec => BlockDetailsKept
<1>1. Inductive /\ [Next]_vars =>
        [overview'.blocks.chain = overview.blocks.chain =>
           \A o \in overview.blocks.shown, b \in overview'.blocks.shown :
             o.hash = b.hash =>
               /\ o.size => b.size
               /\ o.miner = "resolved" => b.miner = "resolved"]_vars
  BY StepKeepsDetails
<1> QED
  BY <1>1, Invariance, PTL DEF Spec, BlockDetailsKept
=============================================================================
