------------------------- MODULE SettingsView_proofs -------------------------
(***************************************************************************)
(* Proofs about SettingsView, for every set of versions and every number   *)
(* of reviews.                                                             *)
(*                                                                         *)
(* The review on display is bound to the form by what cannot happen while  *)
(* its reply is awaited: the page is inert, and a page that has been       *)
(* rendered has no state of its own on the way any more.  That no review   *)
(* of a version is sent twice rests on tokens that are never reissued.     *)
(***************************************************************************)
EXTENDS SettingsView, TLAPS

-----------------------------------------------------------------------------
(* The inductive invariant.                                                *)

\* Requests have six fields, and the page is inert while there is one.
Inert ==
  op # None =>
    /\ inert
    /\ op = [what |-> op.what, service |-> op.service, input |-> op.input,
             served |-> op.served, result |-> op.result, token |-> op.token]

\* One state at most is awaited for the page that is open; a page that is rendered
\* awaits none, and is the page opened last.
PageShown ==
  /\ loads \subseteq [kind : Services \union {None}, current : BOOLEAN, finishing : BOOLEAN]
  /\ kind \in Services \union {None}
  /\ \A l, m \in loads : l.current /\ m.current => l = m
  /\ content \in Services => content = kind /\ \A l \in loads : ~l.current

\* What the page's form says now.
Chosen == IF content = "policy" THEN values ELSE selection

\* The review under way is of the form as it still is, if its page is still there.
Asked ==
  (op # None /\ op.what = "preview") =>
    /\ op.service \in Services /\ op.input.service = op.service
    /\ visible => /\ content = op.service
                  /\ op.input.source = "form" => op.input.plan = Chosen

\* So is the one on display, and it is the one held with its token.
Displayed ==
  (box # None /\ preview # None) =>
    /\ preview.review = box /\ box.service \in Services
    /\ visible => /\ content = box.service
                  /\ box.source = "form" => box.plan = Chosen

\* Tokens held or on their way have been issued and not been spent.
Tokened ==
  /\ issued \in Nat /\ spent \subseteq 1..issued /\ wrong \in BOOLEAN
  /\ preview # None => preview.token \in (1..issued) \ spent
  /\ (op # None /\ op.what = "preview" /\ op.result = "ok") =>
       op.token \in (1..issued) \ spent

\* Settings have their types, wherever they are.
Shaped ==
  /\ values \in Values /\ requested \in Values /\ known.requested \in Values
  /\ tab \in {"forms", "config"}
  /\ tab = "config" => editor \in Values

\* No combination that Core 22 would not keep to is saved, or waits for it.
PairedThroughout ==
  /\ Paired(values) /\ Paired(requested)
  /\ \A p \in pending :
       p.review.service = "policy" => p.review.plan \in Values /\ Paired(p.review.plan)
  /\ (op # None /\ op.what = "preview" /\ op.service = "policy") => op.input.plan \in Values

Inductive ==
  /\ Inert /\ PageShown /\ Asked /\ Displayed /\ Tokened /\ AppliedAsReviewed
  /\ Shaped /\ PairedThroughout

-----------------------------------------------------------------------------
(* The toggles.                                                            *)

LEMMA DefaultsArePaired ==
  /\ Installation \in Values /\ Predating \in Values
  /\ Paired(Installation) /\ Paired(Predating)
BY ConstantsAssumption DEF Installation, Predating, Values, Listen, OnlyNet, Paired, InI2p,
   OutI2p

\* What a toggle of I2P makes of a direction.
LEMMA DisplayTypes ==
  ASSUME values \in Values
  PROVE  /\ Display("listen") \in {{}, {"i2p"}}
         /\ Display("onlynet") \in {{"tor"}, {"tor", "i2p"}}
BY ConstantsAssumption DEF Display, Implicit, Values, Listen, OnlyNet

\* No toggle that the page accepts leaves incoming without outgoing I2P.
LEMMA ToggleKeepsPaired ==
  ASSUME values \in Values, Paired(values), NEW dir \in {"listen", "onlynet"},
         Toggle(dir, "i2p")
  PROVE  values' \in Values /\ Paired(values')
<1> USE ConstantsAssumption
<1> DEFINE on   == "i2p" \notin Display(dir)
           next == IF on THEN Display(dir) \union {"i2p"} ELSE Display(dir) \ {"i2p"}
<1>1. values' = [values EXCEPT ![dir] = next] /\ ~Refused(dir, "i2p", on)
  BY DEF Toggle
<1>2. dir = "listen" => next \in {{}, {"i2p"}}
  BY DisplayTypes
<1>3. dir = "onlynet" => next \in {{"tor"}, {"tor", "i2p"}}
  BY DisplayTypes
<1>4. values' \in Values
  BY <1>1, <1>2, <1>3 DEF Values, Listen, OnlyNet
<1>5. CASE dir = "listen"
  <2>1. values'.onlynet = values.onlynet /\ values'.listen = next
    BY <1>1, <1>5 DEF Values
  <2>2. CASE on
    <3>1. RequiresOutgoing => OutI2p(values)
      BY <1>1, <1>5, <2>2 DEF Refused
    <3> QED
      BY <1>4, <2>1, <3>1 DEF Paired, OutI2p
  <2>3. CASE ~on
    BY <1>4, <2>1, <2>3 DEF Paired, InI2p
  <2> QED
    BY <2>2, <2>3
<1>6. CASE dir = "onlynet"
  <2>1. values'.listen = values.listen /\ values'.onlynet = next
    BY <1>1, <1>6 DEF Values
  <2>2. CASE on
    <3>1. "i2p" \in next /\ next # Unset
      BY <1>3, <1>6, <2>2
    <3> QED
      BY <1>4, <2>1, <3>1 DEF Paired, OutI2p
  <2>3. CASE ~on
    <3>1. RequiresOutgoing => ~InI2p(values)
      BY <1>1, <1>6, <2>3 DEF Refused
    <3> QED
      BY <1>4, <2>1, <3>1 DEF Paired, InI2p
  <2> QED
    BY <2>2, <2>3
<1> QED
  BY <1>4, <1>5, <1>6

\* Nor does the return to a default.
LEMMA SetDefaultKeepsPaired ==
  ASSUME values \in Values, Paired(values), NEW dir \in {"listen", "onlynet"},
         SetDefault(dir)
  PROVE  values' \in Values /\ Paired(values')
<1> USE ConstantsAssumption
<1>1. values' = [values EXCEPT ![dir] = Installation[dir]]
  BY DEF SetDefault
<1>2. CASE dir = "listen"
  BY <1>1, <1>2 DEF Installation, Values, Listen, OnlyNet, Paired, InI2p, OutI2p
<1>3. CASE dir = "onlynet"
  BY <1>1, <1>3 DEF Installation, Values, Listen, OnlyNet, Paired, InI2p, OutI2p
<1> QED
  BY <1>2, <1>3

-----------------------------------------------------------------------------
(* The initial state, and the steps.                                       *)

LEMMA InitHolds == Init => Inductive
<1> SUFFICES ASSUME Init PROVE Inductive
  OBVIOUS
<1>1. Shaped /\ PairedThroughout
  BY DefaultsArePaired DEF Init, Shaped, PairedThroughout, Unknown
<1>2. PageShown
  BY ConstantsAssumption DEF Init, PageShown
<1>3. Inert /\ Asked /\ Displayed /\ Tokened /\ AppliedAsReviewed
  BY DEF Init, Inert, Asked, Displayed, Tokened, AppliedAsReviewed
<1> QED
  BY <1>1, <1>2, <1>3 DEF Inductive

\* States awaited for a page that is left are current no more.
LEMMA OutdatedTypes ==
  ASSUME PageShown
  PROVE  /\ Outdated \subseteq
              [kind : Services \union {None}, current : BOOLEAN, finishing : BOOLEAN]
         /\ \A l \in Outdated : ~l.current
BY DEF Outdated, PageShown

\* A page opens: what the other one showed, held or awaited is gone.
LEMMA OpenKeeps ==
  ASSUME Inductive, NEW which \in Services \union {None}, NEW finishing \in BOOLEAN,
         Open(which, finishing), UNCHANGED services, UNCHANGED ghosts, Inert',
         op' = None \/ op'.what # "preview"
  PROVE  Inductive'
<1>1. PageShown'
  <2>1. content' = None /\ kind' = which
    BY DEF Open, Stop
  <2>2. loads' = Outdated \union
                   {[kind |-> which, current |-> TRUE, finishing |-> finishing]}
    BY DEF Open
  <2>3. /\ Outdated \subseteq
             [kind : Services \union {None}, current : BOOLEAN, finishing : BOOLEAN]
        /\ \A l \in Outdated : ~l.current
    BY OutdatedTypes DEF Inductive
  <2>4. [kind |-> which, current |-> TRUE, finishing |-> finishing]
          \in [kind : Services \union {None}, current : BOOLEAN, finishing : BOOLEAN]
    OBVIOUS
  <2>5. loads' \subseteq
          [kind : Services \union {None}, current : BOOLEAN, finishing : BOOLEAN]
    BY <2>2, <2>3, <2>4
  <2>6. \A l, m \in loads' : l.current /\ m.current => l = m
    BY <2>2, <2>3
  <2>7. content' \notin Services
    BY <2>1, ConstantsAssumption
  <2> QED
    BY <2>1, <2>5, <2>6, <2>7 DEF PageShown
<1>2. Asked' /\ Displayed'
  BY DEF Open, Stop, ClearReview, Asked, Displayed
<1>3. Tokened' /\ AppliedAsReviewed'
  BY DEF Open, Stop, ClearReview, Inductive, Tokened, AppliedAsReviewed, services, ghosts
<1>4. Shaped' /\ PairedThroughout'
  BY DefaultsArePaired DEF Open, Stop, Unknown, Inductive, Shaped, PairedThroughout,
     services
<1> QED
  BY <1>1, <1>2, <1>3, <1>4 DEF Inductive

LEMMA LeaveKeeps == Inductive /\ Leave => Inductive'
<1> SUFFICES ASSUME Inductive, Leave PROVE Inductive'
  OBVIOUS
<1>1. PageShown'
  <2>1. content' = None /\ kind' = kind /\ loads' = Outdated
    BY DEF Leave, Stop
  <2>2. PageShown
    BY DEF Inductive
  <2> QED
    BY <2>1, <2>2, OutdatedTypes, ConstantsAssumption DEF PageShown
<1>2. Asked' /\ Displayed' /\ Inert'
  BY DEF Leave, Stop, ClearReview, Inductive, Asked, Displayed, Inert
<1>3. Tokened' /\ AppliedAsReviewed'
  BY DEF Leave, Stop, ClearReview, Inductive, Tokened, AppliedAsReviewed, services, ghosts
<1>4. Shaped' /\ PairedThroughout'
  BY DefaultsArePaired DEF Leave, Stop, Unknown, Inductive, Shaped, PairedThroughout,
     services
<1> QED
  BY <1>1, <1>2, <1>3, <1>4 DEF Inductive

\* The state of a page arrives.  No review is asked for or displayed on a page whose
\* state is still on its way.
LEMMA LoadedKeeps ==
  ASSUME Inductive, NEW l \in loads, Loaded(l)
  PROVE  Inductive'
<1>1. /\ loads' = loads \ {l} /\ UNCHANGED <<services, visible, kind, ghosts>>
      /\ (op' = op /\ inert' = inert) \/ op' = None
  BY DEF Loaded, Finishing
<1>2. Inert'
  BY <1>1 DEF Inductive, Inert
<1>3. CASE ~l.current
  <2>1. UNCHANGED <<content, form, review, cancels, polls>>
    BY <1>3 DEF Loaded
  <2>2. PageShown'
    BY <1>1, <2>1 DEF Inductive, PageShown
  <2>3. Asked' /\ Displayed'
    BY <1>1, <2>1 DEF Inductive, Asked, Displayed, Chosen, form, review
  <2>4. Tokened' /\ AppliedAsReviewed'
    BY <1>1, <2>1 DEF Inductive, Tokened, AppliedAsReviewed, review, services, ghosts
  <2>5. Shaped' /\ PairedThroughout'
    BY <1>1, <2>1 DEF Inductive, Shaped, PairedThroughout, services, form
  <2> QED
    BY <1>2, <2>2, <2>3, <2>4, <2>5 DEF Inductive
<1>4. CASE l.current
  <2>1. content' = kind /\ Rendered /\ UNCHANGED <<tab, editor>>
    BY <1>4 DEF Loaded
  <2>2. PageShown'
    BY <1>1, <1>4, <2>1 DEF Inductive, PageShown
  <2>3. content \notin Services
    BY <1>4 DEF Inductive, PageShown
  <2>4. Asked'
    BY <1>1, <2>3 DEF Inductive, Asked
  <2>5. (preview' = preview /\ box' = box) \/ (preview' = None /\ box' = None)
    BY <2>1 DEF Rendered, ClearReview
  <2>6. Displayed'
    BY <1>1, <2>3, <2>5 DEF Inductive, Displayed
  <2>7. Tokened' /\ AppliedAsReviewed'
    BY <1>1, <2>5 DEF Inductive, Tokened, AppliedAsReviewed, services, ghosts
  <2>8. Shaped' /\ PairedThroughout'
    <3>1. CASE kind = "policy"
      <4>1. values' = requested /\ known' = [Unknown EXCEPT !.requested = requested]
        BY <1>4, <3>1 DEF Loaded
      <4> QED
        BY <1>1, <2>1, <4>1 DEF Unknown, Inductive, Shaped, PairedThroughout, services
    <3>2. CASE kind # "policy"
      <4>1. values' = values /\ known' = VersionState
        BY <1>4, <3>2 DEF Loaded
      <4> QED
        BY <1>1, <2>1, <4>1, DefaultsArePaired DEF VersionState, Unknown, Inductive, Shaped,
           PairedThroughout, services
    <3> QED
      BY <3>1, <3>2
  <2> QED
    BY <1>2, <2>2, <2>4, <2>6, <2>7, <2>8 DEF Inductive
<1> QED
  BY <1>3, <1>4

LEMMA LoadFailsKeeps ==
  ASSUME Inductive, NEW l \in loads, LoadFails(l)
  PROVE  Inductive'
<1>1. /\ loads' = loads \ {l}
      /\ UNCHANGED <<services, visible, kind, content, form, review, ghosts>>
      /\ (op' = op /\ inert' = inert) \/ op' = None
  BY DEF LoadFails, Finishing
<1>2. Inert' /\ PageShown'
  BY <1>1 DEF Inductive, Inert, PageShown
<1>3. Asked' /\ Displayed'
  BY <1>1 DEF Inductive, Asked, Displayed, Chosen, form, review
<1>4. Tokened' /\ AppliedAsReviewed'
  BY <1>1 DEF Inductive, Tokened, AppliedAsReviewed, review, services, ghosts
<1>5. Shaped' /\ PairedThroughout'
  BY <1>1 DEF Inductive, Shaped, PairedThroughout, services, form
<1> QED
  BY <1>2, <1>3, <1>4, <1>5 DEF Inductive

\* An edit: the page takes input, so that nothing is asked, and the review goes.
LEMMA EditKeeps ==
  ASSUME Inductive, ~inert, ClearReview,
         UNCHANGED <<services, visible, kind, content, known, tab, inert, op, loads, ghosts>>,
         values' \in Values, Paired(values'), tab = "config" => editor' \in Values
  PROVE  Inductive'
<1>1. op' = None
  BY DEF Inductive, Inert
<1>2. Inert' /\ Asked' /\ Displayed'
  BY <1>1 DEF ClearReview, Inert, Asked, Displayed
<1>3. PageShown'
  BY DEF Inductive, PageShown
<1>4. Tokened' /\ AppliedAsReviewed'
  BY <1>1 DEF ClearReview, Inductive, Tokened, AppliedAsReviewed, services, ghosts
<1>5. Shaped' /\ PairedThroughout'
  BY <1>1 DEF Inductive, Shaped, PairedThroughout, services
<1> QED
  BY <1>2, <1>3, <1>4, <1>5 DEF Inductive

\* The form stays, the review stays or goes, and nothing new is asked to be reviewed.
LEMMA Aside ==
  ASSUME Inductive, Inert',
         UNCHANGED <<requested, issued, visible, kind, content, values, selection, tab,
                     editor, loads, ghosts>>,
         known'.requested \in Values, pending' \subseteq pending,
         UNCHANGED review \/ preview' = None,
         op' = op \/ op' = None \/ op'.what # "preview"
  PROVE  Inductive'
<1>1. PageShown'
  BY DEF Inductive, PageShown
<1>2. Asked' /\ Displayed'
  BY DEF Inductive, Asked, Displayed, Chosen, review
<1>3. Tokened' /\ AppliedAsReviewed'
  BY DEF Inductive, Tokened, AppliedAsReviewed, review, ghosts
<1>4. Shaped' /\ PairedThroughout'
  BY DEF Inductive, Shaped, PairedThroughout
<1> QED
  BY <1>1, <1>2, <1>3, <1>4 DEF Inductive

LEMMA AskReviewKeeps == Inductive /\ AskReview => Inductive'
<1> SUFFICES ASSUME Inductive, AskReview PROVE Inductive'
  OBVIOUS
<1>1. UNCHANGED <<services, visible, kind, content, form, review, loads, cancels, ghosts>>
  BY DEF AskReview
<1>2. PICK service \in Services :
        \E input : /\ Usable(service) /\ Operation("preview", service, input)
                   /\ input.service = service
                   /\ input.source = "form" => input.plan = Chosen
                   /\ service = "policy" => input.plan \in Values
  <2>1. CASE Usable("policy") /\ Operation("preview", "policy",
                  Form(IF tab = "forms" THEN "form" ELSE "editor"))
    <3>1. content = "policy" /\ Shaped
      BY <2>1 DEF Usable, Inductive
    <3>2. CASE tab = "forms"
      BY <2>1, <3>1, <3>2 DEF Form, Chosen, Services, Shaped
    <3>3. CASE tab = "config"
      BY <2>1, <3>1, <3>3 DEF Form, Chosen, Services, Shaped
    <3> QED
      BY <3>1, <3>2, <3>3 DEF Shaped
  <2>2. CASE Usable("versions") /\ Operation("preview", "versions",
                  [service |-> "versions", source |-> "form", plan |-> selection])
    BY <2>2 DEF Usable, Chosen, Services
  <2> QED
    BY <2>1, <2>2 DEF AskReview
<1>3. PICK input : /\ Usable(service) /\ Operation("preview", service, input)
                   /\ input.service = service
                   /\ input.source = "form" => input.plan = Chosen
                   /\ service = "policy" => input.plan \in Values
  BY <1>2
<1>4. /\ inert' /\ content = service
      /\ op' = [what |-> "preview", service |-> service, input |-> input, served |-> FALSE,
                result |-> None, token |-> None]
  BY <1>3 DEF Operation, Usable
<1>5. Inert' /\ PageShown'
  BY <1>1, <1>4 DEF Inductive, Inert, PageShown
<1>6. Asked'
  BY <1>1, <1>3, <1>4 DEF Asked, Chosen, form
<1>7. Displayed'
  BY <1>1 DEF Inductive, Displayed, Chosen, form, review
<1>8. Tokened' /\ AppliedAsReviewed'
  BY <1>1, <1>4, ConstantsAssumption DEF Inductive, Tokened, AppliedAsReviewed, review,
     services, ghosts
<1>9. Shaped' /\ PairedThroughout'
  BY <1>1, <1>3, <1>4 DEF Inductive, Shaped, PairedThroughout, services, form
<1> QED
  BY <1>5, <1>6, <1>7, <1>8, <1>9 DEF Inductive

\* What is confirmed is the review on display, it was issued by the service that it is
\* sent to, and its token has not been sent before.
LEMMA ApplyIsRight ==
  ASSUME Inductive, visible, box # None, preview # None
  PROVE  /\ preview.review = box /\ box.service \in Services /\ box.service = kind
         /\ preview.token \notin spent
BY DEF Inductive, Displayed, PageShown, Tokened

LEMMA ApplyPolicyKeeps == Inductive /\ ApplyPolicy => Inductive'
<1> SUFFICES ASSUME Inductive, ApplyPolicy PROVE Inductive'
  OBVIOUS
<1>1. /\ preview.review = box /\ box.service = kind /\ kind = "policy"
      /\ preview.token \notin spent
  BY ApplyIsRight DEF ApplyPolicy
<1>2. UNCHANGED ghosts
  <2>1. wrong' = (wrong \/ FALSE) /\ spent' = spent
    BY <1>1 DEF ApplyPolicy, Log
  <2> QED
    BY <2>1 DEF Inductive, Tokened, ghosts
<1>3. Inert' /\ op'.what # "preview"
  BY DEF ApplyPolicy, Operation, Inert
<1> QED
  BY <1>2, <1>3, Aside DEF ApplyPolicy, services, form, review, Inductive, Shaped

LEMMA ApplyVersionKeeps == Inductive /\ ApplyVersion => Inductive'
<1> SUFFICES ASSUME Inductive, ApplyVersion PROVE Inductive'
  OBVIOUS
<1>1. /\ preview.review = box /\ box.service = "versions" /\ preview.token \notin spent
      /\ preview.token \in 1..issued
  BY ApplyIsRight DEF ApplyVersion, Inductive, Tokened
<1>2. wrong' = FALSE /\ spent' = spent \union {preview.token}
  BY <1>1 DEF ApplyVersion, Log, Inductive, AppliedAsReviewed
<1>3. Inert' /\ op'.what # "preview" /\ preview' = None
  BY DEF ApplyVersion, Operation, Inert
<1>4. UNCHANGED <<services, visible, kind, content, form, loads>>
  BY DEF ApplyVersion
<1>5. PageShown' /\ Asked' /\ Displayed'
  BY <1>3, <1>4 DEF Inductive, PageShown, Asked, Displayed
<1>6. Tokened' /\ AppliedAsReviewed'
  BY <1>1, <1>2, <1>3, <1>4 DEF Inductive, Tokened, AppliedAsReviewed, services
<1>7. Shaped' /\ PairedThroughout'
  BY <1>3, <1>4 DEF Inductive, Shaped, PairedThroughout, services, form
<1> QED
  BY <1>3, <1>5, <1>6, <1>7 DEF Inductive

LEMMA ServeKeeps == Inductive /\ Serve => Inductive'
<1> SUFFICES ASSUME Inductive, Serve PROVE Inductive'
  OBVIOUS
<1>1. /\ op # None
      /\ UNCHANGED <<visible, kind, content, form, review, inert, loads, ghosts>>
  BY DEF Serve
<1>2. PICK result, token : Served(result, token)
  BY DEF Serve
<1>3. op' = [what |-> op.what, service |-> op.service, input |-> op.input, served |-> TRUE,
             result |-> result, token |-> token]
  BY <1>1, <1>2 DEF Served, Inductive, Inert
<1>4. Inert' /\ PageShown'
  BY <1>1, <1>3 DEF Inductive, Inert, PageShown
<1>5. Asked' /\ Displayed'
  BY <1>1, <1>3 DEF Inductive, Asked, Displayed, Chosen, form, review
<1>6. Shaped' /\ PairedThroughout' /\ Tokened'
  <2>1. CASE op.what = "preview" /\ issued' = issued + 1 /\ requested' = requested
               /\ (op.service = "policy" => Paired(op.input.plan))
               /\ pending' = pending \union {[token |-> issued', review |-> op.input]}
               /\ Served("ok", issued')
    <3>1. op'.token = issued'
      BY <2>1, <1>1 DEF Served, Inductive, Inert
    <3>2. Tokened'
      BY <1>1, <1>3, <2>1, <3>1 DEF Inductive, Tokened, review, ghosts
    <3>3. op.service = op.input.service
      BY <1>1, <2>1 DEF Inductive, Asked
    <3>4. Shaped' /\ PairedThroughout'
      BY <1>1, <1>3, <2>1, <3>3 DEF Inductive, Shaped, PairedThroughout, form
    <3> QED
      BY <3>2, <3>4
  <2>2. CASE op.what = "apply" /\ op.input \in pending
               /\ op.input.review.service = op.service /\ pending' \subseteq pending
               /\ issued' = issued
               /\ \/ op.service = "policy" /\ requested' = op.input.review.plan
                  \/ requested' = requested
    <3>1. Tokened'
      BY <1>1, <1>3, <2>2 DEF Inductive, Tokened, review, ghosts
    <3>2. requested' \in Values /\ Paired(requested')
      BY <2>2 DEF Inductive, Shaped, PairedThroughout
    <3> QED
      BY <1>1, <1>3, <2>2, <3>1, <3>2 DEF Inductive, Shaped, PairedThroughout, form
  <2>3. CASE UNCHANGED services /\ (op.what # "preview" \/ op'.result # "ok")
    BY <1>1, <1>3, <2>3 DEF Inductive, Shaped, PairedThroughout, Tokened, services, form,
       review, ghosts
  <2> QED
    <3>1. Served("error", None) => op'.result # "ok"
      BY <1>1 DEF Served, Inductive, Inert
    <3> QED
      BY <2>1, <2>2, <2>3, <3>1 DEF Serve
<1>7. AppliedAsReviewed'
  BY <1>1 DEF Inductive, AppliedAsReviewed, ghosts
<1> QED
  BY <1>4, <1>5, <1>6, <1>7 DEF Inductive

LEMMA ReviewArrivesKeeps == Inductive /\ ReviewArrives => Inductive'
<1> SUFFICES ASSUME Inductive, ReviewArrives PROVE Inductive'
  OBVIOUS
<1>1. /\ op # None /\ op.what = "preview" /\ op.result = "ok" /\ op' = None
      /\ preview' = [token |-> op.token, review |-> op.input] /\ box' = op.input
      /\ UNCHANGED <<services, visible, kind, content, form, loads, ghosts>>
  BY DEF ReviewArrives, Finally
<1>2. Inert' /\ Asked' /\ PageShown'
  BY <1>1 DEF Inductive, Inert, Asked, PageShown
<1>3. Displayed'
  BY <1>1 DEF Inductive, Asked, Displayed, Chosen, form
<1>4. Tokened' /\ AppliedAsReviewed'
  BY <1>1 DEF Inductive, Tokened, AppliedAsReviewed, services, ghosts
<1>5. Shaped' /\ PairedThroughout'
  BY <1>1 DEF Inductive, Shaped, PairedThroughout, services, form
<1> QED
  BY <1>2, <1>3, <1>4, <1>5 DEF Inductive

LEMMA StepKeeps == Inductive /\ [Next]_vars => Inductive'
<1> SUFFICES ASSUME Inductive, [Next]_vars PROVE Inductive'
  OBVIOUS
<1>1. Shaped /\ Inert /\ Paired(values) /\ known.requested \in Values
  BY DEF Inductive, PairedThroughout, Shaped
<1>2. ASSUME NEW which \in Services, OpenPage(which) PROVE Inductive'
  <2>1. op' = None
    BY <1>1, <1>2 DEF OpenPage, Inert
  <2>2. Inert'
    BY <2>1 DEF Inert
  <2> QED
    BY <1>2, <2>1, <2>2, OpenKeeps DEF OpenPage
<1>3. ASSUME NEW dir \in {"listen", "onlynet"}, Toggle(dir, "i2p") \/ SetDefault(dir)
      PROVE  Inductive'
  <2>1. values' \in Values /\ Paired(values')
    BY <1>1, <1>3, ToggleKeepsPaired, SetDefaultKeepsPaired DEF Shaped
  <2>2. /\ ~inert /\ ClearReview /\ tab = "forms"
        /\ UNCHANGED <<services, visible, kind, content, known, tab, inert, op, loads,
                       ghosts>>
    BY <1>3 DEF Toggle, SetDefault, Usable, Changed
  <2> QED
    BY <2>1, <2>2, EditKeeps
<1>4. CASE SwitchTab
  <2>1. /\ UNCHANGED <<services, visible, kind, content, known, values, selection, review,
                       inert, op, loads, ghosts>>
        /\ tab' \in {"forms", "config"} /\ (tab' = "config" => editor' \in Values)
    BY <1>1, <1>4 DEF SwitchTab
  <2>2. Inert' /\ PageShown' /\ Tokened' /\ AppliedAsReviewed'
    BY <2>1 DEF Inductive, Inert, PageShown, Tokened, AppliedAsReviewed, services, review,
       ghosts
  <2>3. Asked' /\ Displayed'
    BY <2>1 DEF Inductive, Asked, Displayed, Chosen, review
  <2>4. Shaped' /\ PairedThroughout'
    BY <2>1 DEF Inductive, Shaped, PairedThroughout, services
  <2> QED
    BY <2>2, <2>3, <2>4 DEF Inductive
<1>5. ASSUME NEW v \in {Predating, [listen |-> {"i2p"}, onlynet |-> {"tor"}]}, EditText(v)
      PROVE  Inductive'
  <2>1. v \in Values
    BY DefaultsArePaired DEF Values, Listen, OnlyNet
  <2> QED
    BY <1>1, <1>5, <2>1, EditKeeps DEF EditText, Usable, Changed, Shaped
<1>6. ASSUME NEW s \in Selections, Choose(s) PROVE Inductive'
  BY <1>1, <1>6, EditKeeps DEF Choose, Usable, Shaped
<1>7. CASE Withdraw
  BY <1>1, <1>7, EditKeeps DEF Withdraw, Shaped, form
<1>8. ASSUME \/ \E s \in Selections : Installs(s)
             \/ \E t \in cancels : CancelArrives(t)
             \/ PollSends \/ PollFails
      PROVE  Inductive'
  <2>1. /\ UNCHANGED <<requested, issued, visible, kind, content, form, review, inert, op,
                       loads, ghosts>>
        /\ pending' \subseteq pending
    BY <1>8 DEF Installs, CancelArrives, PollSends, PollFails, services
  <2>2. Inert'
    BY <1>1, <2>1 DEF Inert
  <2> QED
    BY <1>1, <2>1, <2>2, Aside DEF form
<1>9. CASE PollArrives
  <2>1. known'.requested \in Values
    BY <1>9, DefaultsArePaired DEF PollArrives, VersionState, Unknown
  <2>2. Inert'
    BY <1>1, <1>9 DEF PollArrives, Inert
  <2>3. UNCHANGED review \/ preview' = None
    BY <1>9 DEF PollArrives, ClearReview
  <2> QED
    BY <1>9, <2>1, <2>2, <2>3, Aside DEF PollArrives, services
<1>10. CASE AskDownload \/ AskRecovery
  <2>1. Inert' /\ op'.what # "preview"
    BY <1>10 DEF AskDownload, AskRecovery, Operation, Inert
  <2> QED
    BY <1>1, <1>10, <2>1, Aside DEF AskDownload, AskRecovery, services, form
<1>11. CASE DownloadStarted \/ OperationFails
  <2>1. op' = None /\ Inert'
    BY <1>11 DEF DownloadStarted, OperationFails, Finally, Inert
  <2> QED
    BY <1>1, <1>11, <2>1, Aside DEF DownloadStarted, OperationFails, services, form
<1>12. CASE OperationApplied
  <2>1. /\ Open(kind, TRUE) /\ UNCHANGED <<services, ghosts, inert>> /\ inert
        /\ op' = Reload
    BY <1>1, <1>12 DEF OperationApplied, Inert
  <2>2. Inert' /\ op'.what # "preview"
    BY <2>1 DEF Reload, Inert
  <2>3. kind \in Services \union {None}
    BY DEF Inductive, PageShown
  <2> QED
    BY <2>1, <2>2, <2>3, OpenKeeps
<1>13. CASE UNCHANGED vars
  <2>1. Inert'
    BY <1>1, <1>13 DEF vars, Inert
  <2> QED
    BY <1>1, <1>13, <2>1, Aside DEF vars, review, ghosts
<1> QED
  BY <1>2, <1>3, <1>4, <1>5, <1>6, <1>7, <1>8, <1>9, <1>10, <1>11, <1>12, <1>13,
     LeaveKeeps, LoadedKeeps, LoadFailsKeeps, AskReviewKeeps, ApplyPolicyKeeps,
     ApplyVersionKeeps, ServeKeeps, ReviewArrivesKeeps DEF Next

LEMMA Invariance == Spec => []Inductive
  BY InitHolds, StepKeeps, PTL DEF Spec

\* What is sent to be applied is the review on display, of the service that issued it,
\* and that of a version, which may delete the chain, is sent once.
THEOREM AppliesWhatWasReviewed == Spec => []AppliedAsReviewed
<1>1. Inductive => AppliedAsReviewed
  BY DEF Inductive
<1> QED
  BY Invariance, <1>1, PTL

\* A review that can be confirmed says what the form says.
THEOREM ReviewIsOfForm == Spec => []ReviewMatchesForm
<1>1. Inductive => ReviewMatchesForm
  BY DEF Inductive, Displayed, Chosen, ReviewMatchesForm
<1> QED
  BY Invariance, <1>1, PTL

\* No sequence of toggles, defaults and applied reviews puts incoming I2P without
\* outgoing into the form, where Core 22 would not keep to it.
THEOREM NeverUnpaired == Spec => []I2pPaired
<1>1. Inductive => I2pPaired
  BY DEF Inductive, PairedThroughout, I2pPaired
<1> QED
  BY Invariance, <1>1, PTL
==============================================================================
