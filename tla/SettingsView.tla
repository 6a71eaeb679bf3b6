---------------------------- MODULE SettingsView ----------------------------
(***************************************************************************)
(* The settings and version pages of the browser interface                 *)
(* (src/web/static/settings.js) over the two services they ask: a form, a  *)
(* review of what it would change, and the application of that review.     *)
(*                                                                         *)
(* Handlers run to their next await; replies come in any order, late or    *)
(* not at all.  `current` on what is awaited is the answer to              *)
(* g===generation, which stop() turns to FALSE for all of it.  Of the      *)
(* settings, the two whose values depend on each other are kept: networks  *)
(* to accept connections from (listen) and to make them to (onlynet); all  *)
(* others are edited, reviewed and saved the same way.                     *)
(***************************************************************************)
EXTENDS Naturals

CONSTANTS
  Selections,       \* version, network and wallet mode to choose from
  First,            \* the one the node was set up with
  MaxReviews,       \* bound: reviews the services issue
  RequiresOutgoing, \* e.i2p_incoming_requires_outgoing: Core 22
  Unset,            \* a setting left at its default
  None

Services == {"policy", "versions"}
Tokens   == 1..MaxReviews

Listen  == {{}, {"i2p"}, Unset}
OnlyNet == {{"tor"}, {"tor", "i2p"}, Unset}
Values  == [listen : Listen, onlynet : OnlyNet]

\* installation_default and implicit_default of the entries (policy.rs).
Installation == [listen |-> {}, onlynet |-> {"tor", "i2p"}]
Implicit     == [listen |-> {}, onlynet |-> {"tor"}]
Predating    == [listen |-> Unset, onlynet |-> Unset]

ASSUME ConstantsAssumption ==
  /\ MaxReviews \in Nat
  /\ RequiresOutgoing \in BOOLEAN
  /\ \A s \in SUBSET {"tor", "i2p"} : s # Unset
  /\ None \notin Selections \union Services \union {"ok", "error"}
  /\ First \in Selections

VARIABLES
  requested, \* service: the settings saved
  active,    \* service: the version selected
  installed, \* service: versions downloaded
  issued,    \* services: how many reviews they have issued
  pending,   \* services: those that may still be applied
  visible,   \* the settings view is shown
  kind,      \* which of its two pages was opened last
  content,   \* the page rendered, if its state has come
  known,     \* `state`: versions, active one and settings as the page knows them
  values,    \* the form
  tab,       \* its tab: the forms, or the text of bitcoin.conf
  editor,    \* that text, as the settings it stands for
  selection, \* the version chosen
  preview,   \* the review held, with its token
  box,       \* the review displayed
  busy,      \* an operation runs
  inert,     \* menu, page and review take no input
  op,        \* its request
  loads,     \* page states on their way
  polls,     \* watchDownload
  cancels,   \* cancellations on their way
  spent,     \* ghost: tokens of version reviews sent to be applied
  wrong      \* ghost: another change than the one displayed was sent, or one twice

services == <<requested, active, installed, issued, pending>>
form     == <<known, values, tab, editor, selection>>
review   == <<preview, box>>
ghosts   == <<spent, wrong>>
vars == <<requested, active, installed, issued, pending, visible, kind, content, known,
          values, tab, editor, selection, preview, box, busy, inert, op, loads, polls,
          cancels, spent, wrong>>

\* The combination Core 22 would not keep to: incoming without outgoing I2P.
InI2p(v)  == v.listen # Unset /\ "i2p" \in v.listen
OutI2p(v) == v.onlynet # Unset /\ "i2p" \in v.onlynet
Paired(v) == RequiresOutgoing => (InI2p(v) => OutI2p(v))

Unknown == [installed |-> {}, active |-> None, requested |-> Predating]

Init ==
  /\ requested = Installation
  /\ active = First
  /\ installed = {First}
  /\ issued = 0
  /\ pending = {}
  /\ visible = FALSE /\ kind = None /\ content = None
  /\ known = Unknown
  /\ values = Predating /\ tab = "forms" /\ editor = None /\ selection = None
  /\ preview = None /\ box = None
  /\ busy = FALSE /\ inert = FALSE /\ op = None
  /\ loads = {} /\ polls = {} /\ cancels = {}
  /\ spent = {} /\ wrong = FALSE

-----------------------------------------------------------------------------
(* clearReview, stop and open.                                             *)

\* clearReview: the review is withdrawn; that of a version is also cancelled.
ClearReview ==
  /\ preview' = None
  /\ box' = None
  /\ cancels' = IF kind = "versions" /\ preview # None
                  THEN cancels \union {preview.token} ELSE cancels

\* What is awaited belongs to no page any more: its answer will be dropped, but an
\* operation that awaits a page state ends with it all the same.
Outdated == {[l EXCEPT !.current = FALSE] : l \in {m \in loads : m.finishing}}

\* stop(): polls end here or, sent already, unheeded.  What the page kept is read
\* again only once another has replaced it: the model forgets it.
Stop ==
  /\ ClearReview
  /\ content' = None /\ known' = Unknown
  /\ values' = Predating /\ tab' = "forms" /\ editor' = None /\ selection' = None
  /\ polls' = {}

\* open(which), up to its await.
Open(which, finishing) ==
  /\ Stop
  /\ kind' = which
  /\ visible' = TRUE
  /\ loads' = Outdated \union
                {[kind |-> which, current |-> TRUE, finishing |-> finishing]}

\* showPage(2), showPage(3) from the menu.
OpenPage(which) ==
  /\ ~inert
  /\ Open(which, FALSE)
  /\ busy' = FALSE
  /\ UNCHANGED <<services, inert, op, ghosts>>

\* showPage or showAuth, for any other page: from the menu, or because a session
\* or the terminal ended, which no inert menu prevents.
Leave ==
  /\ Stop
  /\ visible' = FALSE
  /\ loads' = Outdated
  /\ UNCHANGED <<services, kind, busy, inert, op, ghosts>>

\* policy() and versions(): the page is built anew; choose() withdraws a review.
Rendered ==
  IF kind = "versions" THEN ClearReview ELSE UNCHANGED <<preview, box, cancels>>

VersionState == [Unknown EXCEPT !.installed = installed, !.active = active]

\* The await of open() inside an operation ends with it.
Finishing(l) ==
  IF l.finishing THEN op' = None /\ busy' = FALSE /\ inert' = FALSE
                 ELSE UNCHANGED <<op, busy, inert>>

\* The state of a page comes; an outdated one is dropped.
Loaded(l) ==
  /\ l \in loads
  /\ loads' = loads \ {l}
  /\ Finishing(l)
  /\ IF l.current
       THEN /\ content' = kind
            /\ Rendered
            /\ IF kind = "policy"
                 THEN /\ known' = [Unknown EXCEPT !.requested = requested]
                      /\ values' = requested
                      /\ UNCHANGED <<selection, polls>>
                 ELSE /\ known' = VersionState
                      /\ selection' = active
                      /\ polls' \in {polls, polls \union {"waiting"}}  \* a download runs
                      /\ UNCHANGED values
            /\ UNCHANGED <<tab, editor>>
       ELSE UNCHANGED <<content, form, review, cancels, polls>>
  /\ UNCHANGED <<services, visible, kind, ghosts>>

LoadFails(l) ==
  /\ l \in loads
  /\ loads' = loads \ {l}
  /\ Finishing(l)
  /\ UNCHANGED <<services, visible, kind, content, form, review, polls, cancels, ghosts>>

-----------------------------------------------------------------------------
(* The form.                                                               *)

Usable(page) == visible /\ content = page /\ ~inert

Display(dir) == IF values[dir] = Unset THEN Implicit[dir] ELSE values[dir]

\* Defect: outgoing I2P may be switched off under incoming I2P.
RefusedIncoming(dir, net, on) ==
  net = "i2p" /\ RequiresOutgoing /\ dir = "listen" /\ on /\ ~OutI2p(values)

\* What the toggles of an I2P direction refuse.
Refused(dir, net, on) ==
  /\ net = "i2p" /\ RequiresOutgoing
  /\ \/ dir = "listen" /\ on /\ ~OutI2p(values)
     \/ dir = "onlynet" /\ ~on /\ InI2p(values)

\* Defect: the review stays on display.
ChangedQuietly == UNCHANGED <<preview, box, cancels>>

\* changed(): an edit withdraws the review.
Changed == ClearReview

\* Toggles of listen and onlynet.
Toggle(dir, net) ==
  LET on == net \notin Display(dir)
      next == IF on THEN Display(dir) \union {net} ELSE Display(dir) \ {net}
  IN /\ Usable("policy") /\ tab = "forms"
     /\ ~Refused(dir, net, on)
     /\ dir = "onlynet" => next # {}
     /\ values' = [values EXCEPT ![dir] = next]
     /\ Changed
     /\ UNCHANGED <<services, visible, kind, content, known, tab, editor, selection, busy,
                    inert, op, loads, polls, ghosts>>

\* The button that returns a setting to its default.
SetDefault(dir) ==
  /\ Usable("policy") /\ tab = "forms"
  /\ values' = [values EXCEPT ![dir] = Installation[dir]]
  /\ Changed
  /\ UNCHANGED <<services, visible, kind, content, known, tab, editor, selection, busy,
                 inert, op, loads, polls, ghosts>>

\* rows() of another tab builds the editor from the saved text; a review stays.
SwitchTab ==
  /\ Usable("policy")
  /\ \/ tab = "forms" /\ tab' = "config" /\ editor' = known.requested
     \/ tab = "config" /\ tab' = "forms" /\ editor' = None
  /\ UNCHANGED <<services, visible, kind, content, known, values, selection, review, busy,
                 inert, op, loads, polls, cancels, ghosts>>

EditText(v) ==
  /\ Usable("policy") /\ tab = "config"
  /\ editor' = v
  /\ Changed
  /\ UNCHANGED <<services, visible, kind, content, known, values, tab, selection, busy,
                 inert, op, loads, polls, ghosts>>

\* A version, network or mode is chosen.
Choose(s) ==
  /\ Usable("versions")
  /\ selection' = s
  /\ ClearReview
  /\ UNCHANGED <<services, visible, kind, content, known, values, tab, editor, busy, inert,
                 op, loads, polls, ghosts>>

\* The cancel button of the review.
Withdraw ==
  /\ box # None /\ visible /\ ~inert
  /\ ClearReview
  /\ UNCHANGED <<services, visible, kind, content, form, busy, inert, op, loads, polls,
                 ghosts>>

-----------------------------------------------------------------------------
(* operation(): one request at a time, the page inert while it runs.        *)

\* busy, inert, and the request up to its await.
Operation(what, service, input) ==
  /\ ~busy
  /\ busy' = TRUE
  /\ inert' = TRUE
  /\ op' = [what |-> what, service |-> service, input |-> input, served |-> FALSE,
            result |-> None, token |-> None]

Form(source) == [service |-> "policy", source |-> source,
                 plan |-> IF source = "form" THEN values ELSE editor]

\* The review buttons of the two forms and of the versions.
AskReview ==
  /\ \/ /\ Usable("policy")
        /\ Operation("preview", "policy", Form(IF tab = "forms" THEN "form" ELSE "editor"))
     \/ /\ Usable("versions")
        /\ selection \in known.installed /\ selection # known.active
        /\ Operation("preview", "versions",
                     [service |-> "versions", source |-> "form", plan |-> selection])
  /\ UNCHANGED <<services, visible, kind, content, form, review, loads, polls, cancels,
                 ghosts>>

AskDownload ==
  /\ Usable("versions")
  /\ selection \notin known.installed
  /\ Operation("download", "versions", selection)
  /\ UNCHANGED <<services, visible, kind, content, form, review, loads, polls, cancels,
                 ghosts>>

\* The button offered while a change waits for its recovery.
AskRecovery ==
  /\ visible /\ content # None /\ ~inert
  /\ Operation("recover", kind, None)
  /\ UNCHANGED <<services, visible, kind, content, form, review, loads, polls, cancels,
                 ghosts>>

\* Ghosts of what is sent to a service.
Log(service) ==
  /\ wrong' = (wrong \/ preview.review # box \/ box.service # service
                     \/ preview.token \in spent)
  /\ spent' = IF service = "versions" THEN spent \union {preview.token} ELSE spent

\* "Save and apply" of a review of settings.
ApplyPolicy ==
  /\ box # None /\ box.service = "policy" /\ visible /\ ~inert /\ preview # None
  /\ Operation("apply", kind, preview)
  /\ Log(kind)
  /\ UNCHANGED <<services, visible, kind, content, form, review, loads, polls, cancels>>

\* Defect: the token is kept until the answer comes.
ApplyVersionKeeping ==
  /\ box # None /\ box.service = "versions" /\ visible /\ ~inert /\ preview # None
  /\ Operation("apply", "versions", preview)
  /\ Log("versions")
  /\ UNCHANGED <<services, visible, kind, content, form, review, loads, polls, cancels>>

\* That of a version lets go of the token before it sends it.
ApplyVersion ==
  /\ box # None /\ box.service = "versions" /\ visible /\ ~inert /\ preview # None
  /\ Operation("apply", "versions", preview)
  /\ Log("versions")
  /\ preview' = None
  /\ UNCHANGED <<services, visible, kind, content, form, box, loads, polls, cancels>>

-----------------------------------------------------------------------------
(* The services (policy_service.rs, version_service.rs), behind the API.   *)

Served(result, token) == op' = [op EXCEPT !.served = TRUE, !.result = result, !.token = token]

\* The service takes the request.  One that the page has given up on is not taken
\* any more, although a service may: what it saves then is seen by the next state that
\* is read, as when its reply is lost, and the properties are about what is sent.
Serve ==
  /\ op # None /\ ~op.served
  /\ \/ /\ op.what = "preview" /\ issued < MaxReviews
        /\ op.service = "policy" => Paired(op.input.plan)
        /\ issued' = issued + 1
        /\ pending' = pending \union {[token |-> issued', review |-> op.input]}
        /\ Served("ok", issued')
        /\ UNCHANGED <<requested, active, installed>>
     \/ /\ op.what = "apply"
        /\ op.input \in pending /\ op.input.review.service = op.service
        /\ pending' = pending \ {op.input}
        /\ \/ /\ op.service = "policy"
              /\ requested' = op.input.review.plan
              /\ UNCHANGED active
           \/ /\ op.service = "versions"
              /\ active' = op.input.review.plan
              /\ UNCHANGED requested
           \/ UNCHANGED <<requested, active>>       \* rolled back
        /\ \/ Served("ok", None)
           \/ Served("error", None)
        /\ UNCHANGED <<installed, issued>>
     \/ /\ op.what \in {"download", "recover"}
        /\ Served("ok", None)
        /\ UNCHANGED services
     \/ /\ Served("error", None)
        /\ UNCHANGED services
  /\ UNCHANGED <<visible, kind, content, form, review, busy, inert, loads, polls, cancels,
                 ghosts>>

\* A cancellation arrives; a download ends.
CancelArrives(t) ==
  /\ t \in cancels
  /\ cancels' = cancels \ {t}
  /\ pending' = {p \in pending : p.token # t}
  /\ UNCHANGED <<requested, active, installed, issued, visible, kind, content, form, review,
                 busy, inert, op, loads, polls, ghosts>>

Installs(s) ==
  /\ s \notin installed
  /\ installed' = installed \union {s}
  /\ UNCHANGED <<requested, active, issued, pending, visible, kind, content, form, review,
                 busy, inert, op, loads, polls, cancels, ghosts>>

-----------------------------------------------------------------------------
(* Replies.                                                                *)

Finally == op' = None /\ busy' = FALSE /\ inert' = FALSE

\* review() and versionReview(): shown whatever page is open by then.
ReviewArrives ==
  /\ op # None /\ op.what = "preview" /\ op.result = "ok"
  /\ preview' = [token |-> op.token, review |-> op.input]
  /\ box' = op.input
  /\ Finally
  /\ UNCHANGED <<services, visible, kind, content, form, loads, polls, cancels, ghosts>>

Reload == [what |-> "reload", service |-> None, input |-> None, served |-> TRUE,
           result |-> None, token |-> None]

\* What was applied or recovered is followed by open(kind), inside the operation.
OperationApplied ==
  /\ op # None /\ op.what \in {"apply", "recover"} /\ op.result = "ok"
  /\ Open(kind, TRUE)
  /\ busy' = FALSE
  /\ op' = Reload
  /\ UNCHANGED <<services, inert, ghosts>>

\* watchDownload belongs to the page open when it is called, also when another was
\* open when the download was asked for.
DownloadStarted ==
  /\ op # None /\ op.what = "download" /\ op.result = "ok"
  /\ polls' = polls \union {"waiting"}
  /\ Finally
  /\ UNCHANGED <<services, visible, kind, content, form, review, loads, cancels, ghosts>>

\* Defect: an operation that fails leaves the page inert.
OperationFailsInert ==
  /\ op # None /\ op.what # "reload"
  /\ op' = None /\ busy' = FALSE
  /\ UNCHANGED <<services, visible, kind, content, form, review, inert, loads, polls,
                 cancels, ghosts>>

\* An error is told, or the reply, or the request, is lost.
OperationFails ==
  /\ op # None /\ op.what # "reload"
  /\ Finally
  /\ UNCHANGED <<services, visible, kind, content, form, review, loads, polls, cancels,
                 ghosts>>

\* watchDownload, which several calls may have started: its timer fires, the answer
\* says that the version chosen is not there yet, or that it is, or none comes.
PollSends ==
  /\ "waiting" \in polls
  /\ polls' \in {{"sent"}, {"waiting", "sent"}}
  /\ UNCHANGED <<services, visible, kind, content, form, review, busy, inert, op, loads,
                 cancels, ghosts>>

\* The download is done: the page, shown or not, is rendered again, which withdraws a
\* review.  Until then its list is the one rendered before, whatever `known` says.
PollArrives ==
  /\ "sent" \in polls
  /\ known' = VersionState
  /\ IF selection \in installed
       THEN /\ polls' \in {polls, polls \ {"sent"}}
            /\ ClearReview
       ELSE /\ polls' \in {polls \union {"waiting"}, (polls \ {"sent"}) \union {"waiting"}}
            /\ UNCHANGED <<review, cancels>>
  /\ UNCHANGED <<services, visible, kind, content, values, tab, editor, selection, busy,
                 inert, op, loads, ghosts>>

PollFails ==
  /\ "sent" \in polls
  /\ polls' = polls \ {"sent"}
  /\ UNCHANGED <<services, visible, kind, content, form, review, busy, inert, op, loads,
                 cancels, ghosts>>

Next ==
  \/ \E which \in Services : OpenPage(which)
  \/ Leave
  \/ \E l \in loads : Loaded(l) \/ LoadFails(l)
  \/ \E dir \in {"listen", "onlynet"} :
       Toggle(dir, "i2p") \/ SetDefault(dir)
  \/ SwitchTab
  \/ \E v \in {Predating, [listen |-> {"i2p"}, onlynet |-> {"tor"}]} : EditText(v)
  \/ \E s \in Selections : Choose(s) \/ Installs(s)
  \/ Withdraw
  \/ AskReview \/ AskDownload \/ AskRecovery
  \/ ApplyPolicy \/ ApplyVersion
  \/ Serve \/ ReviewArrives \/ OperationApplied \/ DownloadStarted \/ OperationFails
  \/ \E t \in cancels : CancelArrives(t)
  \/ PollSends \/ PollArrives \/ PollFails

\* The services answer, or the connection to them fails.
Replies == Serve \/ ReviewArrives \/ OperationApplied \/ DownloadStarted \/ OperationFails
LoadReplies == \E l \in loads : l.finishing /\ (Loaded(l) \/ LoadFails(l))

Spec == Init /\ [][Next]_vars /\ WF_vars(Replies) /\ WF_vars(LoadReplies)

-----------------------------------------------------------------------------
(* Properties.                                                             *)

\* What is sent to a service is a review that service issued, of exactly the
\* change that was on display when its owner confirmed, however late the reply
\* that brought it and whatever page was left and opened since.  A review that
\* may delete the chain is sent once, also when its reply is lost.
AppliedAsReviewed == ~wrong

\* A review that can be confirmed is of what the form still says: edits, another
\* choice, a finished download and a change of page withdraw it.
ReviewMatchesForm ==
  (visible /\ ~inert /\ box # None /\ preview # None /\ box.source = "form") =>
    /\ content = box.service
    /\ box.plan = IF content = "policy" THEN values ELSE selection

\* "The interface and backend reject the unsupported combination" of Core 22
\* (SETTINGS.md:47): no sequence of toggles and defaults makes one.
I2pPaired == Paired(values)

\* The menu becomes usable again after every operation, also when its page was
\* left meanwhile.
ControlsReturn == inert ~> ~inert
=============================================================================
