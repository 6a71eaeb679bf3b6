-------------------------- MODULE Appearance_proofs --------------------------
(***************************************************************************)
(* Proofs about Appearance, for every set of looks, languages and texts.   *)
(*                                                                         *)
(* Three things are kept apart: the background (Moving), what is only a    *)
(* preview (PreviewEnds), and the texts (Faithful).  The first two need    *)
(* the types of preferences and sliders; the third needs what there is in  *)
(* `originals` of a text node, if anything.                                *)
(***************************************************************************)
EXTENDS Appearance, TLAPS

\* What may be written or shown; the page itself writes a translation, too.
Texts == Sources \union Values \union (Sources \X Languages)

\* Types, as far as a step needs them.
Typed ==
  /\ prefs \in Preferences
  /\ settings \in Backgrounds
  /\ draft \in Backgrounds \union {None}
  /\ drawable \in BOOLEAN /\ hidden \in BOOLEAN /\ frozen \in BOOLEAN /\ reduced \in BOOLEAN
  /\ browser \in Languages

\* The language is that of the preferences; what translate() left of a text is what the
\* page wrote and its translation into that language; and a text that it has not seen is
\* what the page wrote.
Faithful ==
  /\ language = Resolve(prefs.language, browser)
  /\ written \in Texts
  /\ mutated => cached = None /\ shown = written
  /\ ~mutated => /\ cached # None
                 /\ cached.source = written
                 /\ cached.rendered = Text(written, language)
                 /\ shown = cached.rendered

Inductive == Typed /\ AnimatesAsConfigured /\ PreviewEnds /\ Faithful

-----------------------------------------------------------------------------
(* The background.                                                         *)

\* A background stays what it is, anything else becomes the default.
LEMMA NormalizeTypes ==
  /\ \A value : Normalize(value) \in Backgrounds
  /\ \A value \in Backgrounds : Normalize(value) = value
  BY ConstantsAssumption DEF Normalize, Backgrounds, Defaults

\* A look is never None.
LEMMA BackgroundIsNotNone == None \notin Backgrounds
  BY ConstantsAssumption DEF Backgrounds

\* apply() puts the background in force, animated as it should be, whatever was in
\* force before.
LEMMA ApplyRainKeeps ==
  ASSUME Typed, AnimatesAsConfigured, NEW value, ApplyRain(value), UNCHANGED display
  PROVE  /\ settings' = Normalize(value) /\ settings' \in Backgrounds
         /\ AnimatesAsConfigured'
<1>1. settings' = Normalize(value) /\ settings' \in Backgrounds
  BY NormalizeTypes DEF ApplyRain
<1>2. CASE ~settings'.enabled
  BY <1>1, <1>2 DEF ApplyRain, AnimatesAsConfigured
<1>3. CASE settings'.enabled /\ ~drawable
  BY <1>1, <1>3 DEF ApplyRain, AnimatesAsConfigured, display
<1>4. CASE settings'.enabled /\ drawable
  <2>1. Resume /\ UNCHANGED <<drawable, hidden, frozen, reduced>>
    BY <1>4 DEF ApplyRain, display
  <2>2. columns' = settings'.look
    <3>1. columns' = IF ~settings.enabled \/ settings.look # settings'.look \/ columns = None
                       THEN settings'.look ELSE columns
      BY <1>4 DEF ApplyRain
    <3>2. settings.enabled => columns = settings.look
      BY <1>4 DEF AnimatesAsConfigured
    <3> QED
      BY <3>1, <3>2
  <2> QED
    BY <1>1, <2>1, <2>2 DEF Resume, AnimatesAsConfigured
<1> QED
  BY <1>1, <1>2, <1>3, <1>4 DEF Typed

\* The background in force is what it was, in a browser that shows what it showed.
LEMMA RainUnchanged ==
  ASSUME AnimatesAsConfigured, UNCHANGED rain, UNCHANGED display
  PROVE  AnimatesAsConfigured'
BY DEF AnimatesAsConfigured, rain, display

-----------------------------------------------------------------------------
(* The texts.                                                              *)

\* A translation is a text.
LEMMA TextTypes ==
  ASSUME NEW v \in Texts, NEW l \in Languages
  PROVE  Text(v, l) \in Texts
<1>1. CASE l = "ko" \/ v \notin Sources
  BY <1>1 DEF Text
<1>2. CASE l # "ko" /\ v \in Sources
  <2>1. Text(v, l) = <<v, l>>
    BY <1>2 DEF Text, Messages
  <2> QED
    BY <1>2, <2>1 DEF Texts
<1> QED
  BY <1>1, <1>2

LEMMA ResolveTypes ==
  ASSUME NEW value \in Languages \union {"auto"}, NEW locale \in Languages
  PROVE  Resolve(value, locale) \in Languages
BY DEF Resolve

\* What translate() takes for the source is what the page wrote.
LEMMA SourceFound == Faithful => SourceOf = written
  BY DEF Faithful, SourceOf

\* What translate() leaves for a text.
LEMMA Rendering ==
  ASSUME written' \in Texts,
         language' \in Languages, language' = Resolve(prefs.language, browser)',
         cached' = [source |-> written', rendered |-> Text(written', language')],
         shown' = cached'.rendered, mutated' = FALSE
  PROVE  Faithful'
<1>1. Text(written', language') \in Texts
  BY TextTypes
<1>2. cached' \in [source : Texts, rendered : Texts]
  BY <1>1
<1>3. cached' # None
  BY <1>2, ConstantsAssumption DEF Texts
<1> QED
  BY <1>3 DEF Faithful

\* translate() after a change of language, or of nothing, shows the language in force.
LEMMA TranslateKeeps ==
  ASSUME Faithful, Translate,
         language' \in Languages, language' = Resolve(prefs.language, browser)'
  PROVE  Faithful'
<1>1. SourceOf = written /\ written' = written
  BY SourceFound DEF Translate
<1>2. written' \in Texts
  BY <1>1 DEF Faithful
<1>3. cached' = [source |-> written', rendered |-> Text(written', language')]
  BY <1>1 DEF Translate
<1> QED
  BY <1>2, <1>3, Rendering DEF Translate

\* No text, language or preference changes.
LEMMA TextsUnchanged ==
  ASSUME Faithful, UNCHANGED <<prefs, browser, language, written, shown, cached, mutated>>
  PROVE  Faithful'
BY DEF Faithful, Resolve

-----------------------------------------------------------------------------
(* Preferences.                                                            *)

\* Preferences that are applied are in force, background and language.
LEMMA ApplyKeeps ==
  ASSUME Inductive, NEW value \in Preferences, Apply(value)
  PROVE  /\ prefs' \in Preferences /\ settings' = prefs'.background
         /\ settings' \in Backgrounds
         /\ AnimatesAsConfigured' /\ PreviewEnds' /\ Faithful'
         /\ UNCHANGED display /\ browser' = browser
<1>1. prefs' = value /\ UNCHANGED display /\ browser' = browser
  <2>1. Normalize(value.background) = value.background
    BY NormalizeTypes DEF Preferences
  <2> QED
    BY <2>1 DEF Apply, Preferences
<1>2. /\ settings' = prefs'.background /\ settings' \in Backgrounds
      /\ AnimatesAsConfigured'
  <2>1. ApplyRain(value.background)
    BY DEF Apply
  <2>2. settings' = Normalize(value.background) /\ AnimatesAsConfigured'
    BY <1>1, <2>1, ApplyRainKeeps DEF Inductive
  <2> QED
    BY <1>1, <2>2, NormalizeTypes DEF Preferences
<1>3. Faithful'
  <2>1. language' = Resolve(value.language, browser') /\ Translate
    BY DEF Apply, SetLanguage
  <2>2. language' = Resolve(prefs.language, browser)'
    BY <1>1, <2>1 DEF Resolve
  <2>3. language' \in Languages
    BY <1>1, <2>1, ResolveTypes DEF Preferences, Inductive, Typed
  <2> QED
    BY <2>1, <2>2, <2>3, TranslateKeeps DEF Inductive
<1> QED
  BY <1>1, <1>2, <1>3 DEF PreviewEnds

\* The sliders of a page that is rendered are those of the preferences.
LEMMA RenderedTypes ==
  ASSUME prefs' \in Preferences, Rendered
  PROVE  draft' \in Backgrounds \union {None}
BY DEF Preferences, Rendered

-----------------------------------------------------------------------------
(* The initial state and the steps.                                        *)

LEMMA InitHolds == Init => Inductive
<1> SUFFICES ASSUME Init PROVE Inductive
  OBVIOUS
<1>1. PICK b \in Backgrounds \union {None}, l \in Languages \union {"auto"} :
        Initial([background |-> Normalize(b), language |-> l])
  BY DEF Init
<1>2. /\ prefs \in Preferences /\ prefs.language = l
      /\ settings = prefs.background /\ settings \in Backgrounds
  BY <1>1, NormalizeTypes DEF Initial, Preferences
<1>3. Typed
  BY <1>2 DEF Init, Typed
<1>4. AnimatesAsConfigured
  BY <1>1, <1>2 DEF Init, Initial, AnimatesAsConfigured
<1>5. Faithful
  <2>1. language = Resolve(prefs.language, browser) /\ language \in Languages
    BY <1>1, <1>2, ResolveTypes DEF Init, Initial
  <2>2. written \in Texts /\ Text(written, language) \in Texts
    BY <2>1, TextTypes DEF Init, Texts
  <2>3. cached \in [source : Texts, rendered : Texts]
    BY <2>2 DEF Init
  <2>4. cached # None
    BY <2>3, ConstantsAssumption DEF Texts
  <2> QED
    BY <2>1, <2>2, <2>3, <2>4 DEF Init, Faithful
<1> QED
  BY <1>2, <1>3, <1>4, <1>5 DEF Inductive, PreviewEnds

\* A step that touches neither the background, nor the preferences, nor the texts, and
\* leaves the settings page no more than it was left.
LEMMA Aside ==
  ASSUME Inductive, UNCHANGED <<prefs, rain, display, browser, language, texts>>,
         draft' \in Backgrounds \union {None}, page' \in {page, "settings"}
  PROVE  Inductive'
<1>1. AnimatesAsConfigured' /\ Faithful'
  BY RainUnchanged, TextsUnchanged DEF Inductive, texts
<1>2. Typed' /\ PreviewEnds'
  BY DEF Inductive, Typed, PreviewEnds, rain, display
<1> QED
  BY <1>1, <1>2 DEF Inductive

\* A step of the animation, or of what it depends on in the browser.
LEMMA MotionKeeps ==
  ASSUME Inductive, UNCHANGED <<prefs, page, draft, settings, browser, language, texts>>,
         hidden' \in BOOLEAN, frozen' \in BOOLEAN, reduced' \in BOOLEAN,
         UNCHANGED drawable, AnimatesAsConfigured'
  PROVE  Inductive'
<1>1. Faithful'
  BY TextsUnchanged DEF Inductive, texts
<1>2. Typed' /\ PreviewEnds'
  BY DEF Inductive, Typed, PreviewEnds
<1> QED
  BY <1>1, <1>2 DEF Inductive

LEMMA AnimateKeeps == Inductive /\ Animate => Inductive'
<1> SUFFICES ASSUME Inductive, Animate PROVE Inductive'
  OBVIOUS
<1>1. frames = 1 /\ settings.enabled /\ drawable /\ ~hidden /\ ~frozen /\ ~reduced
  BY DEF Animate, Inductive, AnimatesAsConfigured
<1>2. frames' = 1 /\ UNCHANGED <<settings, columns, display>>
  BY <1>1 DEF Animate
<1>3. AnimatesAsConfigured'
  BY <1>1, <1>2 DEF Inductive, AnimatesAsConfigured, display
<1>4. Typed
  BY DEF Inductive
<1> QED
  BY <1>2, <1>3, <1>4, MotionKeeps DEF Animate, display, Typed

LEMMA ResizedKeeps == Inductive /\ Resized => Inductive'
<1> SUFFICES ASSUME Inductive, Resized PROVE Inductive'
  OBVIOUS
<1>1. CASE settings.enabled /\ drawable
  <2>1. Resume /\ columns' = settings.look /\ UNCHANGED <<settings, display>>
    BY <1>1 DEF Resized
  <2>2. AnimatesAsConfigured'
    BY <2>1 DEF Resume, AnimatesAsConfigured, display
  <2> QED
    BY <2>1, <2>2, MotionKeeps DEF Resized, display, Inductive, Typed
<1>2. CASE ~(settings.enabled /\ drawable)
  BY <1>2, Aside DEF Resized, Inductive, Typed
<1> QED
  BY <1>1, <1>2

LEMMA DisplayChangesKeeps == Inductive /\ DisplayChanges => Inductive'
<1> SUFFICES ASSUME Inductive, DisplayChanges PROVE Inductive'
  OBVIOUS
<1>1. hidden' \in BOOLEAN /\ frozen' \in BOOLEAN /\ reduced' \in BOOLEAN
  BY DEF DisplayChanges, Inductive, Typed
<1>2. UNCHANGED <<settings, columns, drawable>>
  BY DEF DisplayChanges
<1>3. AnimatesAsConfigured'
  <2>1. CASE frozen' /\ ~frozen
    BY <2>1, <1>2 DEF DisplayChanges, Inductive, AnimatesAsConfigured
  <2>2. CASE ~(frozen' /\ ~frozen)
    BY <2>2, <1>2 DEF DisplayChanges, Resume, Inductive, AnimatesAsConfigured
  <2> QED
    BY <2>1, <2>2
<1> QED
  BY <1>1, <1>2, <1>3, MotionKeeps DEF DisplayChanges

LEMMA PageMovesKeeps == Inductive /\ PageMoves => Inductive'
<1> SUFFICES ASSUME Inductive, PageMoves PROVE Inductive'
  OBVIOUS
<1>1. /\ UNCHANGED <<settings, columns, drawable, frozen, reduced>>
      /\ hidden' \in BOOLEAN
  BY DEF PageMoves, Inductive, Typed
<1>2. AnimatesAsConfigured'
  <2>1. CASE hidden' = TRUE /\ frames' = 0
    BY <2>1, <1>1 DEF Inductive, AnimatesAsConfigured
  <2>2. CASE Resume
    BY <2>2, <1>1 DEF Resume, Inductive, AnimatesAsConfigured
  <2> QED
    BY <2>1, <2>2 DEF PageMoves
<1> QED
  BY <1>1, <1>2, MotionKeeps DEF PageMoves, Inductive, Typed

\* The page writes, or the observer translates what it wrote.
LEMMA TextsKeep ==
  ASSUME Inductive, UNCHANGED <<prefs, page, draft, rain, display, browser>>, Faithful'
  PROVE  Inductive'
<1>1. AnimatesAsConfigured'
  BY RainUnchanged DEF Inductive
<1>2. Typed' /\ PreviewEnds'
  BY DEF Inductive, Typed, PreviewEnds, rain, display
<1> QED
  BY <1>1, <1>2 DEF Inductive

LEMMA PutKeeps ==
  ASSUME Inductive, NEW v \in Texts, Put(v)
  PROVE  Inductive'
<1>1. Faithful'
  BY DEF Put, Inductive, Faithful, Resolve
<1> QED
  BY <1>1, TextsKeep DEF Put

\* Also when it tells of a new password, in translation.
LEMMA WriteKeeps ==
  ASSUME Inductive,
         \/ \E v \in Sources \union Values : Write(v)
         \/ \E m \in Sources : TellChange(m)
  PROVE  Inductive'
<1>1. ASSUME NEW v \in Sources \union Values, Write(v) PROVE Inductive'
  BY <1>1, PutKeeps DEF Write, Texts
<1>2. ASSUME NEW m \in Sources, TellChange(m) PROVE Inductive'
  <2>1. language \in Languages
    BY ResolveTypes DEF Inductive, Typed, Faithful, Preferences
  <2>2. Text(m, language) \in Texts
    BY <2>1, TextTypes DEF Texts
  <2> QED
    BY <1>2, <2>2, PutKeeps DEF TellChange
<1> QED
  BY <1>1, <1>2

LEMMA ObserveKeeps == Inductive /\ Observe => Inductive'
<1> SUFFICES ASSUME Inductive, Observe PROVE Inductive'
  OBVIOUS
<1>1. language' = Resolve(prefs.language, browser)'
  BY DEF Observe, Inductive, Faithful, Resolve
<1>2. language' \in Languages
  BY ResolveTypes DEF Observe, Inductive, Typed, Faithful, Preferences
<1>3. Faithful'
  BY <1>1, <1>2, TranslateKeeps DEF Observe, Inductive
<1> QED
  BY <1>3, TextsKeep DEF Observe

LEMMA LanguageChangeKeeps ==
  ASSUME Inductive, NEW locale \in Languages, LanguageChange(locale)
  PROVE  Inductive'
<1>1. prefs' = prefs /\ browser' = locale /\ UNCHANGED <<page, draft, display>>
  BY DEF LanguageChange
<1>2. CASE prefs.language = "auto"
  <2>1. ApplyRain(prefs.background) /\ SetLanguage("auto")
    BY <1>2 DEF LanguageChange
  <2>2. Normalize(prefs.background) = prefs.background
    BY NormalizeTypes DEF Inductive, Typed, Preferences
  <2>3. settings' = prefs.background /\ settings' \in Backgrounds /\ AnimatesAsConfigured'
    BY <1>1, <2>1, <2>2, ApplyRainKeeps DEF Inductive
  <2>4. Faithful'
    <3>1. language' = Resolve(prefs.language, browser)' /\ Translate
      BY <1>1, <1>2, <2>1 DEF SetLanguage, Resolve
    <3>2. language' \in Languages
      BY <1>1, <3>1, ResolveTypes DEF Inductive, Typed, Preferences
    <3> QED
      BY <3>1, <3>2, TranslateKeeps DEF Inductive
  <2>5. Typed' /\ PreviewEnds'
    BY <1>1, <2>3 DEF Inductive, Typed, PreviewEnds, display
  <2> QED
    BY <2>3, <2>4, <2>5 DEF Inductive
<1>3. CASE prefs.language # "auto"
  <2>1. UNCHANGED <<rain, language, texts>>
    BY <1>3 DEF LanguageChange
  <2>2. Resolve(prefs.language, browser)' = Resolve(prefs.language, browser)
    BY <1>1, <1>3 DEF Resolve
  <2>3. Faithful'
    BY <2>1, <2>2 DEF Inductive, Faithful, texts
  <2>4. AnimatesAsConfigured'
    BY <1>1, <2>1, RainUnchanged DEF Inductive
  <2>5. Typed' /\ PreviewEnds'
    BY <1>1, <2>1 DEF Inductive, Typed, PreviewEnds, display, rain
  <2> QED
    BY <2>3, <2>4, <2>5 DEF Inductive
<1> QED
  BY <1>2, <1>3

\* The settings page opens, or is left: the background in force is the one saved.
LEMMA StopKeeps ==
  ASSUME Inductive, Stop, UNCHANGED <<prefs, browser, language, texts>>
  PROVE  Inductive'
<1>1. ApplyRain(prefs.background) /\ draft' = None /\ UNCHANGED display
  BY DEF Stop
<1>2. Normalize(prefs.background) = prefs.background
  BY NormalizeTypes DEF Inductive, Typed, Preferences
<1>3. settings' = prefs'.background /\ settings' \in Backgrounds /\ AnimatesAsConfigured'
  BY <1>1, <1>2, ApplyRainKeeps DEF Inductive
<1>4. Faithful'
  BY TextsUnchanged DEF Inductive, texts
<1>5. Typed' /\ PreviewEnds'
  BY <1>1, <1>3 DEF Inductive, Typed, PreviewEnds, display
<1> QED
  BY <1>3, <1>4, <1>5 DEF Inductive

\* The preview of a slider, or the end of one; the settings page is open.
LEMMA PreviewKeeps ==
  ASSUME Inductive, NEW value, ApplyRain(value), page' = "settings",
         draft' \in Backgrounds \union {None},
         UNCHANGED <<prefs, display, browser, language, texts>>
  PROVE  Inductive'
<1>1. settings' \in Backgrounds /\ AnimatesAsConfigured'
  BY ApplyRainKeeps DEF Inductive
<1>2. Faithful'
  BY TextsUnchanged DEF Inductive, texts
<1>3. Typed' /\ PreviewEnds'
  BY <1>1 DEF Inductive, Typed, PreviewEnds, display
<1> QED
  BY <1>1, <1>2, <1>3 DEF Inductive

\* Preferences that arrive are applied.
LEMMA AnswerKeeps ==
  ASSUME Inductive, NEW answer \in Preferences, Apply(answer), Rendered \/ UNCHANGED draft
  PROVE  Inductive'
<1>1. /\ prefs' \in Preferences /\ settings' \in Backgrounds
      /\ AnimatesAsConfigured' /\ PreviewEnds' /\ Faithful'
      /\ UNCHANGED display /\ browser' = browser
  BY ApplyKeeps
<1>2. draft' \in Backgrounds \union {None}
  BY <1>1, RenderedTypes DEF Inductive, Typed
<1>3. Typed'
  BY <1>1, <1>2 DEF Inductive, Typed, display
<1> QED
  BY <1>1, <1>3 DEF Inductive

LEMMA ReloadKeeps == Inductive /\ Reload => Inductive'
<1> SUFFICES ASSUME Inductive, Reload PROVE Inductive'
  OBVIOUS
<1>1. /\ prefs' \in Preferences /\ settings' = prefs'.background
      /\ columns' = IF settings'.enabled /\ drawable THEN settings'.look ELSE None
      /\ Resume
  <2>1. PICK p \in Preferences :
          /\ prefs' = p
          /\ settings' = p.background
          /\ columns' = IF p.background.enabled /\ drawable THEN p.background.look ELSE None
          /\ Resume
    BY DEF Reload
  <2> QED
    BY <2>1
<1>2. language' = Resolve(prefs.language, browser)'
  BY DEF Reload, Resolve
<1>3. UNCHANGED <<browser, drawable, reduced>> /\ hidden' \in BOOLEAN /\ frozen' = FALSE
  BY DEF Reload, Inductive, Typed
<1>4. Typed'
  BY <1>1, <1>3 DEF Reload, Inductive, Typed, Preferences
<1>5. AnimatesAsConfigured'
  BY <1>1, <1>3 DEF Resume, AnimatesAsConfigured
<1>6. Faithful'
  <2>1. language' \in Languages
    BY <1>1, <1>2, <1>3, ResolveTypes DEF Inductive, Typed, Preferences
  <2>2. written' \in Texts
    BY DEF Reload, Texts
  <2> QED
    BY <1>2, <2>1, <2>2, Rendering DEF Reload
<1> QED
  BY <1>1, <1>4, <1>5, <1>6 DEF Inductive, PreviewEnds

LEMMA StepKeeps == Inductive /\ [Next]_vars => Inductive'
<1> SUFFICES ASSUME Inductive, [Next]_vars PROVE Inductive'
  OBVIOUS
<1>1. draft \in Backgrounds \union {None} /\ None \in Backgrounds \union {None}
  BY DEF Inductive, Typed
<1>2. CASE AfterLogin
  BY <1>2, AnswerKeeps DEF AfterLogin
<1>3. CASE Open \/ Leave \/ PasswordChanged
  BY <1>3, StopKeeps DEF Open, Leave, PasswordChanged
<1>4. CASE LoadArrives
  BY <1>4, AnswerKeeps DEF LoadArrives
<1>5. ASSUME NEW kind \in {"open", "dialog"}, CallFails(kind) PROVE Inductive'
  <2>1. draft' \in Backgrounds \union {None}
    BY <1>1, <1>5 DEF CallFails
  <2> QED
    BY <1>5, <2>1, Aside DEF CallFails
<1>6. ASSUME NEW k \in Looks, Slide(k) PROVE Inductive'
  <2>1. draft' \in Backgrounds
    BY <1>1, <1>6 DEF Slide, Usable, Backgrounds
  <2> QED
    BY <1>6, <2>1, PreviewKeeps DEF Slide, Usable
<1>7. CASE Cancel
  <2>1. draft' \in Backgrounds \union {None}
    BY <1>7, RenderedTypes DEF Cancel, Inductive, Typed
  <2> QED
    BY <1>7, <2>1, PreviewKeeps DEF Cancel, Usable, Rendered
<1>8. ASSUME \/ SaveToggle \/ SaveDraft \/ \E l \in Languages \union {"auto"} : SaveLanguage(l)
             \/ Ask
      PROVE  Inductive'
  <2>1. UNCHANGED <<prefs, page, draft, rain, display, browser, language, texts>>
    BY <1>8 DEF SaveToggle, SaveDraft, SaveLanguage, Run, Ask
  <2> QED
    BY <1>1, <2>1, Aside
<1>9. CASE SaveArrives
  BY <1>9, AnswerKeeps DEF SaveArrives
<1>10. CASE SaveFails
  BY <1>1, <1>10, Aside DEF SaveFails
<1>11. CASE TorApplied
  <2>1. draft' \in Backgrounds \union {None}
    BY <1>11, RenderedTypes DEF TorApplied, Inductive, Typed
  <2> QED
    BY <1>11, <2>1, Aside DEF TorApplied, Rendered
<1>12. CASE UNCHANGED vars
  BY <1>1, <1>12, Aside DEF vars, rain, display, texts
<1> QED
  BY <1>2, <1>3, <1>4, <1>5, <1>6, <1>7, <1>8, <1>9, <1>10, <1>11, <1>12, AnimateKeeps,
     ResizedKeeps, DisplayChangesKeeps, PageMovesKeeps, WriteKeeps, ObserveKeeps,
     LanguageChangeKeeps, ReloadKeeps DEF Next

LEMMA Invariance == Spec => []Inductive
  BY InitHolds, StepKeeps, PTL DEF Spec

\* One chain of frames while the background moves and none otherwise, whatever saves,
\* previews, answers and events of the browser come in whatever order.
THEOREM OneAnimation == Spec => []AnimatesAsConfigured
<1>1. Inductive => AnimatesAsConfigured
  BY DEF Inductive
<1> QED
  BY Invariance, <1>1, PTL

\* Away from the settings page the background is the one of the preferences.
THEOREM NoLastingPreview == Spec => []PreviewEnds
<1>1. Inductive => PreviewEnds
  BY DEF Inductive
<1> QED
  BY Invariance, <1>1, PTL

\* A text that the observer has seen is what text() makes of what the page wrote last, in
\* the language in force: after any sequence of translations the source is still found.
\* Nothing is assumed of the table.
THEOREM OneLanguage == Spec => []TextsFollowLanguage
<1>1. Inductive => TextsFollowLanguage
  BY DEF Inductive, Faithful, TextsFollowLanguage
<1> QED
  BY Invariance, <1>1, PTL
=============================================================================
