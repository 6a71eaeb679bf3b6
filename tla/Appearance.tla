----------------------------- MODULE Appearance -----------------------------
(***************************************************************************)
(* The appearance of the browser interface: the preferences and the        *)
(* settings page of src/web/static/device.js, the animated background of   *)
(* genesis-rain.js, and the language of its texts in i18n.js.              *)
(*                                                                         *)
(* Handlers run to their next await; answers come late, or not at all.     *)
(* Other browsers save at any time, so that a read may answer any          *)
(* preferences.  Of a background, whether it is on and its look            *)
(* (brightness, speed, density) are kept; theme and name are saved like    *)
(* the language.  One text stands for every text and label of the page,    *)
(* which are all translated at once.  Of the requests, what was sent since *)
(* the tab was loaded is kept: a page can be opened, or a dialog sent, any *)
(* number of times, so that an answer may leave another one under way.     *)
(***************************************************************************)
EXTENDS Naturals

CONSTANTS
  Looks,        \* looks of the background
  DefaultLook,
  Languages,    \* languages of the texts, with "ko", that of the sources
  Sources,      \* texts the table translates
  Values,       \* texts it does not: numbers, hashes, addresses
  None

ASSUME ConstantsAssumption ==
  /\ DefaultLook \in Looks
  /\ "ko" \in Languages /\ "auto" \notin Languages
  /\ Sources \intersect Values = {}
  /\ None \notin [enabled : BOOLEAN, look : Looks]
  /\ LET Texts == Sources \union Values \union (Sources \X Languages)
       IN None \notin [source : Texts, rendered : Texts]

Backgrounds == [enabled : BOOLEAN, look : Looks]
Defaults    == [enabled |-> FALSE, look |-> DefaultLook]
Preferences == [background : Backgrounds, language : Languages \union {"auto"}]

VARIABLES
  prefs,    \* the preferences of the tab
  page,     \* the settings page, troubleshooting in the same place, or another
  draft,    \* the sliders of the settings page, once it is rendered
  op,       \* the save under way; the page is inert meanwhile
  calls,    \* the kinds of other requests sent: "open", "dialog" and "login"
  settings, \* the background as configured
  columns,  \* the look its columns of digits were laid out for
  frames,   \* animation frames requested
  drawable, \* there is a canvas to draw on
  hidden, frozen, reduced, \* the page's visibility and lifecycle; reduced motion
  browser,  \* the browser's language
  language, \* the language of the texts
  written,  \* ghost: the text that the page wrote last
  shown,    \* the text on display
  cached,   \* its source and its translation, as translate() left it
  mutated   \* the observer has mutations to tell of

rain    == <<settings, columns, frames>>
display == <<drawable, hidden, frozen, reduced>>
texts   == <<written, shown, cached, mutated>>
vars == <<prefs, page, draft, op, calls, settings, columns, frames, drawable, hidden,
          frozen, reduced, browser, language, written, shown, cached, mutated>>

-----------------------------------------------------------------------------
(* genesis-rain.js.                                                        *)

\* Defect: the frame requested before is not cancelled.
ResumeTwice ==
  frames' = IF settings'.enabled /\ drawable /\ ~hidden' /\ ~frozen' /\ ~reduced'
              THEN frames + 1 ELSE frames

\* What a browser kept of an earlier version, or of none, is not a background.
Normalize(value) == IF value \in Backgrounds THEN value ELSE Defaults

\* resume(): it cancels the frame requested and, where the background moves, draws and
\* requests the next one.
Resume ==
  frames' = IF settings'.enabled /\ drawable /\ ~hidden' /\ ~frozen' /\ ~reduced'
              THEN 1 ELSE 0

\* apply(value): columns are laid out when there are none, or none for this density.
ApplyRain(value) ==
  /\ settings' = Normalize(value)
  /\ IF ~settings'.enabled THEN columns' = None /\ frames' = 0
     ELSE IF ~drawable     THEN UNCHANGED <<columns, frames>>
     ELSE /\ columns' = IF ~settings.enabled \/ settings.look # settings'.look \/ columns = None
                         THEN settings'.look ELSE columns
          /\ Resume

\* animate(now): one frame, and the request of the next.
Animate ==
  /\ frames > 0
  /\ frames' = frames - 1 +
                 (IF settings.enabled /\ ~hidden /\ ~frozen /\ ~reduced THEN 1 ELSE 0)
  /\ UNCHANGED <<prefs, page, draft, op, calls, settings, columns, display, browser,
                 language, texts>>

\* The window is resized.
Resized ==
  /\ IF settings.enabled /\ drawable
       THEN /\ columns' = settings.look
            /\ UNCHANGED <<settings, display>>
            /\ Resume
       ELSE UNCHANGED <<rain, display>>
  /\ UNCHANGED <<prefs, page, draft, op, calls, browser, language, texts>>

\* visibilitychange, a change of prefers-reduced-motion, freeze and resume; a frozen
\* page is hidden and resumes before it is shown.
DisplayChanges ==
  /\ \/ ~frozen /\ hidden' = ~hidden /\ UNCHANGED <<frozen, reduced>>
     \/ reduced' = ~reduced /\ UNCHANGED <<hidden, frozen>>
     \/ hidden /\ frozen' = ~frozen /\ UNCHANGED <<hidden, reduced>>
  /\ UNCHANGED <<settings, columns, drawable>>
  /\ IF frozen' /\ ~frozen THEN frames' = 0 ELSE Resume
  /\ UNCHANGED <<prefs, page, draft, op, calls, browser, language, texts>>

\* pagehide, which may come first but is of one task with the page becoming hidden, and
\* pageshow.
PageMoves ==
  /\ UNCHANGED <<settings, columns, drawable, frozen, reduced>>
  /\ \/ hidden' = TRUE /\ frames' = 0
     \/ UNCHANGED hidden /\ Resume
  /\ UNCHANGED <<prefs, page, draft, op, calls, browser, language, texts>>

-----------------------------------------------------------------------------
(* i18n.js.                                                                *)

\* messages: every source in every other language.
Messages == [s \in Sources |-> [l \in Languages \ {"ko"} |-> <<s, l>>]]

\* text(value).
Text(value, lang) == IF lang = "ko" \/ value \notin Sources THEN value ELSE Messages[value][lang]

\* Defect: what is on display is taken for a source.
SourceShown == shown

\* resolve(value).
Resolve(value, locale) == IF value = "auto" THEN locale ELSE value

\* What is on display is the source, unless translate() put it there.
SourceOf == IF cached # None /\ shown = cached.rendered THEN cached.source ELSE shown

\* translate(), with the observer disconnected meanwhile.
Translate ==
  /\ cached' = [source |-> SourceOf, rendered |-> Text(SourceOf, language')]
  /\ shown' = cached'.rendered
  /\ mutated' = FALSE
  /\ UNCHANGED written

\* set(value).
SetLanguage(value) == language' = Resolve(value, browser') /\ Translate

\* A page writes a text: in a new node, as textContent and new elements do.
Put(value) ==
  /\ written' = value /\ shown' = value
  /\ mutated' = TRUE
  /\ cached' = None
  /\ UNCHANGED <<prefs, page, draft, op, rain, display, browser, language>>

Write(value) == Put(value) /\ UNCHANGED calls

Observe ==
  /\ mutated
  /\ UNCHANGED <<browser, language>>
  /\ Translate
  /\ UNCHANGED <<prefs, page, draft, op, calls, rain, display>>

-----------------------------------------------------------------------------
(* device.js: preferences.                                                 *)

\* apply(value).
Apply(value) ==
  /\ prefs' = [value EXCEPT !.background = Normalize(@)]
  /\ UNCHANGED <<display, browser>>
  /\ ApplyRain(value.background)
  /\ SetLanguage(value.language)

\* The script is loaded: what localStorage kept is applied, or the defaults are.
Initial(p) ==
  /\ prefs = p
  /\ settings = p.background
  /\ columns = IF p.background.enabled /\ drawable THEN p.background.look ELSE None
  /\ frames = IF p.background.enabled /\ drawable /\ ~hidden /\ ~reduced THEN 1 ELSE 0
  /\ language = Resolve(p.language, browser)

Init ==
  /\ page = "other" /\ draft = None
  /\ op = None /\ calls = {}
  /\ drawable \in BOOLEAN /\ hidden \in BOOLEAN /\ frozen = FALSE /\ reduced \in BOOLEAN
  /\ browser \in Languages
  /\ \E b \in Backgrounds \union {None}, l \in Languages \union {"auto"} :
       Initial([background |-> Normalize(b), language |-> l])
  /\ written \in Sources
  /\ cached = [source |-> written, rendered |-> Text(written, language)]
  /\ shown = cached.rendered
  /\ mutated = FALSE

\* The browser's language changes.
LanguageChange(locale) ==
  /\ browser' = locale
  /\ IF prefs.language = "auto"
       THEN /\ UNCHANGED display
            /\ prefs' = prefs
            /\ ApplyRain(prefs.background)
            /\ SetLanguage("auto")
       ELSE UNCHANGED <<prefs, rain, display, language, texts>>
  /\ UNCHANGED <<page, draft, op, calls>>

\* Defect: a preview stays when its page is left.
StopKeeping == draft' = None /\ UNCHANGED <<rain, display>>

\* An answer comes.
Answered(kind) == kind \in calls /\ UNCHANGED calls

\* loadPreferences() after a login.  A tab may log in at any time and wait for the answer
\* for as long as it takes: the answer may come at any time.
AfterLogin ==
  /\ \E answer \in Preferences : Apply(answer)
  /\ UNCHANGED <<page, draft, op, calls>>

\* stop(): what was only a preview is given up.  The pages that follow it replace the
\* controls, or hide them until open() does.
Stop ==
  /\ draft' = None
  /\ UNCHANGED display
  /\ ApplyRain(prefs.background)

Open ==
  /\ page' = "settings"
  /\ Stop
  /\ calls' = calls \union {"open"}
  /\ UNCHANGED <<prefs, op, browser, language, texts>>

\* Another page, or the login, also while a save or a read is under way.
Leave ==
  /\ page' \in {"troubleshooting", "other"}
  /\ Stop
  /\ UNCHANGED <<prefs, op, calls, browser, language, texts>>

\* render(): the controls are those of the preferences.  They replace what the settings
\* page or troubleshooting had there.
Rendered ==
  /\ draft' = prefs'.background
  /\ page' = IF page = "troubleshooting" THEN "settings" ELSE page

\* The answer is applied, whichever page is open by then; a page that is not gets the
\* controls all the same.  An answer to a new account name does the same.
LoadArrives ==
  /\ Answered("open")
  /\ \E answer \in Preferences : Apply(answer)
  /\ Rendered
  /\ UNCHANGED op

\* Refused or lost; a page that was to be rendered has only the message then.
CallFails(kind) ==
  /\ Answered(kind)
  /\ draft' = IF kind = "open" THEN None ELSE draft
  /\ UNCHANGED <<prefs, page, op, rain, display, browser, language, texts>>

-----------------------------------------------------------------------------
(* device.js: the settings page.                                           *)

\* The controls are there and take input.
Usable == page = "settings" /\ draft # None /\ op = None

\* A slider, which there is for a background that is on: the preview is on display at
\* once.
Slide(look) ==
  /\ Usable /\ draft.enabled
  /\ draft' = [draft EXCEPT !.look = look]
  /\ UNCHANGED display
  /\ ApplyRain(draft')
  /\ UNCHANGED <<prefs, page, op, calls, browser, language, texts>>

Cancel ==
  /\ Usable /\ draft.enabled
  /\ UNCHANGED <<prefs, display>>
  /\ ApplyRain(prefs.background)
  /\ Rendered
  /\ UNCHANGED <<op, calls, browser, language, texts>>

\* run(): a save, during which the page takes no input.
Run(change) ==
  /\ Usable
  /\ op' = change
  /\ UNCHANGED <<prefs, page, draft, calls, rain, display, browser, language, texts>>

\* The switch of the background saves it as the tab knows it; the form saves the sliders.
SaveToggle == Run([background |-> [prefs.background EXCEPT !.enabled = ~@]])

SaveDraft == Usable /\ draft.enabled /\ Run([background |-> draft])

SaveLanguage(l) == Run([language |-> l])

\* The answer has all preferences, with those saved.
SaveArrives ==
  /\ op # None
  /\ op' = None
  /\ \E answer \in Preferences :
       /\ \A k \in DOMAIN op : answer[k] = op[k]
       /\ Apply(answer)
  /\ Rendered
  /\ UNCHANGED calls

\* Refused, or lost before or after it was done.
SaveFails ==
  /\ op # None
  /\ op' = None
  /\ UNCHANGED <<prefs, page, draft, calls, rain, display, browser, language, texts>>

-----------------------------------------------------------------------------
(* device.js: the dialogs of the settings page.                            *)

\* The form of the Tor switch or of a new password is sent, both of one kind here.  Its
\* dialog can be closed and the page used or left while the answer is awaited.
Ask ==
  /\ Usable
  /\ calls' = calls \union {"dialog"}
  /\ UNCHANGED <<prefs, page, draft, op, rain, display, browser, language, texts>>

\* The Tor switch was applied: the page is rendered again, and nothing else.
TorApplied ==
  /\ Answered("dialog")
  /\ UNCHANGED prefs /\ Rendered
  /\ UNCHANGED <<op, rain, display, browser, language, texts>>

\* The password was changed: the login takes the place of the page and asks whether the
\* node is set up.
PasswordChanged ==
  /\ "dialog" \in calls
  /\ calls' = calls \union {"login"}
  /\ page' = "other"
  /\ Stop
  /\ UNCHANGED <<prefs, op, browser, language, texts>>

\* Once it knows, or has failed to, the change is told: in translation, unlike anything
\* else a page writes.
TellChange(message) ==
  /\ Answered("login")
  /\ Put(Text(message, language))

\* The tab is loaded again, in the background if it is there, with the preferences that a
\* tab of this browser kept in localStorage, or the defaults.
Reload ==
  /\ page' = "other" /\ draft' = None /\ op' = None /\ calls' = {}
  /\ frozen' = FALSE
  /\ UNCHANGED <<browser, drawable, hidden, reduced>>
  /\ \E p \in Preferences :
       /\ prefs' = p
       /\ settings' = p.background
       /\ columns' = IF p.background.enabled /\ drawable THEN p.background.look ELSE None
       /\ Resume
       /\ language' = Resolve(p.language, browser)
  /\ written' \in Sources
  /\ cached' = [source |-> written', rendered |-> Text(written', language')]
  /\ shown' = cached'.rendered
  /\ mutated' = FALSE

Next ==
  \/ Animate \/ Resized \/ DisplayChanges \/ PageMoves
  \/ \E v \in Sources \union Values : Write(v)
  \/ Observe
  \/ \E l \in Languages : LanguageChange(l)
  \/ AfterLogin \/ Open \/ Leave
  \/ LoadArrives \/ \E kind \in {"open", "dialog"} : CallFails(kind)
  \/ \E k \in Looks : Slide(k)
  \/ Cancel \/ SaveToggle \/ SaveDraft
  \/ \E l \in Languages \union {"auto"} : SaveLanguage(l)
  \/ SaveArrives \/ SaveFails
  \/ Ask \/ TorApplied \/ PasswordChanged
  \/ \E m \in Sources : TellChange(m)
  \/ Reload

Spec == Init /\ [][Next]_vars

-----------------------------------------------------------------------------
(* Properties.                                                             *)

\* The background moves, by one chain of frames, exactly while it is on and the tab is
\* visible, not frozen, and motion is not reduced; its columns are those of its density
\* (docs/DEVICE_SETTINGS.md).  resume() runs from saves, previews, answers and five
\* events of the browser, each of which could leave a second chain, or none.
AnimatesAsConfigured ==
  /\ frames = IF settings.enabled /\ drawable /\ ~hidden /\ ~frozen /\ ~reduced THEN 1 ELSE 0
  /\ settings.enabled /\ drawable => columns = settings.look

\* A preview that was not saved ends with its page, whatever answers come late
\* (docs/DEVICE_SETTINGS.md).
PreviewEnds == page # "settings" => settings = prefs.background

\* Once the observer has run, a text is what text() makes of what the page wrote last, in
\* the language of the preferences or of the browser, however often language, preferences
\* and text changed meanwhile: what translate() itself put on display is not taken for a
\* source (i18n.js:1175).  One text is written in translation by the page itself
\* (TellChange): of that, text() makes the same text again, in whatever language, and it
\* stays in the one it was written in.
TextsFollowLanguage ==
  ~mutated => shown = Text(written, Resolve(prefs.language, browser))
=============================================================================
