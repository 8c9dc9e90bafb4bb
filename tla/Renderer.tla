------------------------------- MODULE Renderer -------------------------------
(***************************************************************************)
(* The renderer (src/native/frontend/src): the port that numbers requests  *)
(* and matches their answers, the start-up and the presentation of views   *)
(* (main.ts), and the text field with its input-method compositions        *)
(* (foundation.ts).                                                        *)
(*                                                                         *)
(* A text is a sequence of pieces: Typed stands for a character typed      *)
(* directly, a positive number for the text of the composition with that   *)
(* number.  The browser puts a composition's text at the end of the field  *)
(* and inserts nothing after the field lost the focus.  The host executes  *)
(* requests in any order, and its answers arrive in any order.             *)
(***************************************************************************)
EXTENDS Integers, Sequences, SequencesExt

CONSTANTS
  MaxText,          \* MAX_COMMITTED_TEXT_BYTES, 2048 in the code, in pieces
  MaxCalls,         \* bound: requests a person causes, start-up included
  MaxCompositions,  \* bound: compositions
  MaxGestures       \* bound: focus gains and changes of the text outside of compositions

ASSUME RendererAssumption ==
  /\ {MaxText, MaxCalls, MaxCompositions, MaxGestures} \subseteq Nat
  /\ MaxText > 0

VARIABLES
  calls,      \* the port's requests, in the order of their sequence numbers
  host,       \* the host's surface and committed text
  screen,     \* what is rendered: nothing, "dead" after a failed start-up, or a kind of view
  field,      \* the text field in the document
  closures,   \* what each rendering of the canvas closed over; the last one handles the events
  deferred,   \* the commits that compositionend scheduled
  fates,      \* history: what became of each composition
  exposed,    \* history: those a view was presented upon, see Uncommitted
  gestures    \* how much of MaxGestures is used

rendererVars == <<calls, host, screen, field, closures, deferred, fates, exposed, gestures>>

Typed == 0

Bounded(text) == SubSeq(text, 1, IF Len(text) < MaxText THEN Len(text) ELSE MaxText)

\* A view; only the canvas carries text.
Shown(surface, text) == [kind |-> surface, text |-> IF surface = "canvas" THEN text ELSE <<>>]

Unavailable == Shown("welcome", <<>>)

\* ime is the composition the browser is in; edited says that the field no
\* longer follows its default value; since is the rendering that mounted it.
Field(text, since) == [value |-> text, edited |-> FALSE, focused |-> FALSE, ime |-> 0, since |-> since]

Rendering(committed, composing, generation) ==
  [committed |-> committed, composing |-> composing, generation |-> generation]

Mounted(committed) == Rendering(Bounded(committed), FALSE, 0)

RendererInit ==
  /\ calls = <<>>
  /\ host \in [surface : {"welcome", "canvas"}, text : {<<>>}]
  /\ screen = "nothing"
  /\ field = Field(<<>>, 1)
  /\ closures = <<>>
  /\ deferred = {}
  /\ fates = <<>>
  /\ exposed = {}
  /\ gestures = 0

-----------------------------------------------------------------------------
(* The port.                                                               *)

PortRequest(op, text) == [op |-> op, text |-> text, state |-> "sent", view |-> Unavailable]

Send(op, text) == calls' = Append(calls, PortRequest(op, text))

MayCall == Len(calls) < MaxCalls

Startup == <<"application-health", "application-health", "foundation-load">>

\* The authority was set before, or its event arrives within a second.
AuthorityArrives ==
  /\ screen = "nothing" /\ calls = <<>>
  /\ Send(Startup[1], <<>>)
  /\ UNCHANGED <<host, screen, field, closures, deferred, fates, exposed, gestures>>

AuthorityMissing ==
  /\ screen = "nothing" /\ calls = <<>>
  /\ screen' = "dead"
  /\ UNCHANGED <<calls, host, field, closures, deferred, fates, exposed, gestures>>

Effect(call) ==
  CASE call.op \in {"dismiss-welcome", "show-canvas"} -> [host EXCEPT !.surface = "canvas"]
    [] call.op = "show-about" -> [host EXCEPT !.surface = "about"]
    [] call.op = "show-internal-update" -> [host EXCEPT !.surface = "internal-update"]
    [] call.op = "commit-canvas-text" -> [surface |-> "canvas", text |-> call.text]
    [] OTHER -> host

\* The host carries a request out, or refuses it; links open on the about
\* surface only.
Execute(i) ==
  /\ calls[i].state = "sent"
  /\ \/ /\ calls[i].op = "open-foundation-link" => host.surface = "about"
        /\ host' = Effect(calls[i])
        /\ calls' = [calls EXCEPT ![i].state = "answered", ![i].view = Shown(host'.surface, host'.text)]
     \/ /\ calls' = [calls EXCEPT ![i].state = "failed"]
        /\ UNCHANGED host
  /\ UNCHANGED <<screen, field, closures, deferred, fates, exposed, gestures>>

-----------------------------------------------------------------------------
(* Presenting a view.                                                      *)

Current == Last(closures)

\* Compositions that were neither committed nor cleared from the field: those that
\* are under way, also before their text is in the field, or wait for their deferred
\* commit, and those that were given up while their text is still in the field.
Uncommitted ==
  {n \in DOMAIN fates : fates[n] = "pending" \/ (fates[n] = "abandoned" /\ n \in ToSet(field.value))}

\* The canvas is rendered with a new model; its field stays in the document as
\* long as the canvas does, and shows what was put into it.
Present(view) ==
  /\ screen' = view.kind
  /\ exposed' = exposed \cup Uncommitted
  /\ closures' = IF view.kind = "canvas" THEN Append(closures, Mounted(view.text)) ELSE closures
  /\ field' = IF view.kind = screen /\ field.edited THEN field
              ELSE IF view.kind = "canvas" /\ screen = "canvas" THEN [field EXCEPT !.value = Bounded(view.text)]
              ELSE Field(Bounded(view.text), Len(closures) + 1)

\* An answer that was used is forgotten.
Settled(i) == [calls EXCEPT ![i].state = "done", ![i].view = Unavailable]

\* Health twice, then the first view; any failure ends in a view whose buttons
\* do nothing.
Start(i) ==
  /\ i <= Len(Startup)
  /\ calls[i].state \in {"answered", "failed"}
  /\ LET done == Settled(i) IN
     IF calls[i].state = "failed"
     THEN screen' = "dead" /\ calls' = done /\ UNCHANGED <<field, closures, exposed>>
     ELSE IF i < Len(Startup)
     THEN /\ calls' = Append(done, PortRequest(Startup[i + 1], <<>>))
          /\ UNCHANGED <<screen, field, closures, exposed>>
     ELSE calls' = done /\ Present(calls[i].view)
  /\ UNCHANGED <<host, deferred, fates, gestures>>

\* recover: whatever answer arrives is presented, and a failure as unavailable.
RecoverView(i) ==
  /\ i > Len(Startup)
  /\ calls[i].state \in {"answered", "failed"}
  /\ Present(IF calls[i].state = "failed" THEN Unavailable ELSE calls[i].view)
  /\ calls' = Settled(i)
  /\ UNCHANGED <<host, deferred, fates, gestures>>

Buttons ==
  {"show-canvas", "show-about", "show-internal-update", "quit-application"}
    \cup (IF screen = "welcome" THEN {"dismiss-welcome"} ELSE {})
    \cup (IF screen = "about" THEN {"open-foundation-link"} ELSE {})

\* A button has the focus when it is pressed.
Press ==
  /\ screen \notin {"nothing", "dead"} /\ ~field.focused /\ MayCall
  /\ \E op \in Buttons : Send(op, <<>>)
  /\ UNCHANGED <<host, screen, field, closures, deferred, fates, exposed, gestures>>

-----------------------------------------------------------------------------
(* The text field.                                                         *)

\* onChange: outside of a composition the whole field is committed.
Changed(text, composing) ==
  IF composing THEN UNCHANGED <<calls, closures>>
  ELSE /\ MayCall
       /\ closures' = [closures EXCEPT ![Len(closures)] =
                          Rendering(Bounded(text), FALSE, Current.generation)]
       /\ Send("commit-canvas-text", Bounded(text))

Focus ==
  /\ screen = "canvas" /\ ~field.focused /\ field.ime = 0 /\ gestures < MaxGestures
  /\ gestures' = gestures + 1
  /\ field' = [field EXCEPT !.focused = TRUE]
  /\ UNCHANGED <<calls, host, screen, closures, deferred, fates, exposed>>

\* A character is typed, or the field is emptied.
Type ==
  /\ field.focused /\ field.ime = 0 /\ gestures < MaxGestures
  /\ gestures' = gestures + 1
  /\ \E text \in {Append(field.value, Typed), <<>>} :
       /\ field' = [field EXCEPT !.value = Bounded(text), !.edited = TRUE]
       /\ Changed(text, Current.composing)
  /\ UNCHANGED <<host, screen, deferred, fates, exposed>>

Abandoned == [n \in DOMAIN fates |-> IF fates[n] = "pending" THEN "abandoned" ELSE fates[n]]

\* onCompositionStart: what the composition before it still wanted to commit is
\* given up.
CompositionStart ==
  /\ field.focused /\ field.ime = 0 /\ Len(fates) < MaxCompositions
  /\ fates' = Append(Abandoned, "pending")
  /\ field' = [field EXCEPT !.ime = Len(fates) + 1]
  /\ closures' = [closures EXCEPT ![Len(closures)] =
                     Rendering(Current.committed, TRUE, Current.generation + 1)]
  /\ UNCHANGED <<calls, host, screen, deferred, exposed, gestures>>

\* The field with the text of the composition, and without it: that text is the
\* end of the field as long as the composition goes on.
Composed == IF field.ime \in ToSet(field.value) THEN field.value ELSE Append(field.value, field.ime)
Withdrawn == IF field.ime \in ToSet(field.value) THEN Front(field.value) ELSE field.value

\* onCompositionUpdate and the change of the field that follows it.
CompositionUpdate ==
  /\ field.focused /\ field.ime # 0
  /\ field' = [field EXCEPT !.value = Bounded(Composed), !.edited = TRUE]
  /\ Changed(Composed, Current.composing)
  /\ UNCHANGED <<host, screen, deferred, fates, exposed, gestures>>

\* compositionend, of a composition that was accepted, cancelled or whose field
\* lost the focus; a change of the field goes with it, unless the browser made
\* it before.
CompositionEnd(accepted) ==
  /\ field.ime # 0
  /\ deferred' = deferred \cup
       {[closure |-> Len(closures), generation |-> Current.generation,
         data |-> IF accepted THEN <<field.ime>> ELSE <<>>]}
  /\ fates' = IF accepted \/ fates[field.ime] # "pending" THEN fates
              ELSE [fates EXCEPT ![field.ime] = "abandoned"]
  /\ LET text == IF accepted THEN Composed ELSE Withdrawn IN
     \/ field.focused /\ field' = [field EXCEPT !.ime = 0, !.value = Bounded(text), !.edited = TRUE]
          /\ Changed(text, Current.composing)
     \/ (accepted \/ ~field.focused) /\ field' = [field EXCEPT !.ime = 0] /\ UNCHANGED <<calls, closures>>
  /\ UNCHANGED <<host, screen, exposed, gestures>>

CompositionEnds == CompositionEnd(TRUE) \/ CompositionEnd(FALSE)

\* Mutant: a newer composition does not invalidate the deferred commit.
WantedWhileComposing(d) == closures[d.closure].composing

\* Neither a focus loss nor a newer composition came in between.
Wanted(d) == closures[d.closure].composing /\ closures[d.closure].generation = d.generation

\* The deferred commit runs in the closure it was scheduled from.
RunDeferred(d) ==
  /\ deferred' = deferred \ {d}
  /\ IF ~Wanted(d) THEN UNCHANGED <<calls, field, closures, fates>>
     ELSE LET text == Bounded(closures[d.closure].committed \o d.data) IN
          /\ closures' = [closures EXCEPT ![d.closure] = Rendering(text, FALSE, d.generation)]
          /\ field' = IF screen = "canvas" /\ d.closure >= field.since
                      THEN [field EXCEPT !.value = text, !.edited = TRUE] ELSE field
          /\ fates' = [n \in DOMAIN fates |->
                         IF n \in ToSet(d.data) /\ fates[n] = "pending" THEN "committed" ELSE fates[n]]
          /\ Send("commit-canvas-text", text)
  /\ UNCHANGED <<host, screen, exposed, gestures>>

\* onBlur: what was not committed is given up, and the field shows what was.
Blur ==
  /\ field.focused
  /\ fates' = Abandoned
  /\ field' = [field EXCEPT !.focused = FALSE, !.value = Current.committed, !.edited = TRUE]
  /\ closures' = [closures EXCEPT ![Len(closures)] =
                     Rendering(Current.committed, FALSE, Current.generation + 1)]
  /\ UNCHANGED <<calls, host, screen, deferred, exposed, gestures>>

-----------------------------------------------------------------------------

RendererNext ==
  \/ AuthorityArrives \/ AuthorityMissing
  \/ \E i \in DOMAIN calls : Execute(i) \/ Start(i) \/ RecoverView(i)
  \/ Press \/ Focus \/ Type \/ CompositionStart \/ CompositionUpdate \/ CompositionEnds \/ Blur
  \/ \E d \in deferred : RunDeferred(d)

RendererSpec == RendererInit /\ [][RendererNext]_rendererVars

\* The text of a composition that was cancelled, lost the focus or was followed
\* by another one before its commit ran never leaves the renderer, as long as
\* no view was presented while the composition was under way, waited for its
\* commit or had its text in the field (foundation.ts, canvasSurface): the tests
\* of foundation.test.ts discard it in each case.  A reply that is presented in
\* the middle of a composition is the case it leaves out.
AbandonedTextStaysLocal ==
  \A i \in DOMAIN calls : \A n \in ToSet(calls[i].text) :
    n # Typed /\ fates[n] = "abandoned" => n \in exposed
=============================================================================
