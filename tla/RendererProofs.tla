--------------------------- MODULE RendererProofs ---------------------------
(***************************************************************************)
(* That text which was given up stays in the renderer, for any number of   *)
(* requests, compositions and gestures, and texts of any length.  The      *)
(* argument: whatever is committed, sent, executed and presented is made   *)
(* of clean pieces, which were typed, committed or exposed; a field whose  *)
(* rendering is in no composition is clean too; and a deferred commit that *)
(* is still wanted has the text of the last composition, or was scheduled  *)
(* from a rendering that was replaced, which exposed what it wants.        *)
(***************************************************************************)
EXTENDS Renderer, SequenceTheorems, TLAPS

(* The pieces a text may be made of: those of compositions that were       *)
(* committed or exposed, and those that may still be committed.            *)
Clean == {Typed} \cup {n \in DOMAIN fates : fates[n] = "committed" \/ n \in exposed}
Hopeful == Clean \cup {n \in DOMAIN fates : fates[n] # "abandoned"}
Piece == {Typed} \cup DOMAIN fates

Kinds == {"welcome", "canvas", "about", "internal-update"}
Ops == {"application-health", "foundation-load", "show-canvas", "show-about", "show-internal-update",
        "quit-application", "dismiss-welcome", "open-foundation-link", "commit-canvas-text"}
States == {"sent", "answered", "failed", "done"}
Fates == {"pending", "committed", "abandoned"}

Views(S) == [kind : Kinds, text : Seq(S)]
Calls(S) == [op : Ops, text : Seq(S), state : States, view : Views(S)]
Hosts(S) == [surface : Kinds, text : Seq(S)]
Closures(S) == [committed : Seq(S), composing : BOOLEAN, generation : Nat]
Fields(S) == [value : Seq(S), edited : BOOLEAN, focused : BOOLEAN, ime : S, since : Nat]
Deferreds(S) == [closure : Nat, generation : Nat, data : Seq(S)]

(* The texts: all but the field and the deferred commits are clean.        *)
TextInv ==
  /\ fates \in Seq(Fates)
  /\ calls \in Seq(Calls(Clean))
  /\ host \in Hosts(Clean)
  /\ closures \in Seq(Closures(Clean))
  /\ field \in Fields(Piece)
  /\ deferred \subseteq Deferreds(Piece)
  /\ \A d \in deferred :
       d.closure \in 1 .. Len(closures) /\ d.generation <= closures[d.closure].generation

(* The start-up is over once a view is presented.                          *)
Alive == screen \notin {"nothing", "dead"}

StartInv ==
  /\ \A i \in 1 .. Len(calls) : i <= 3 /\ (i < Len(calls) \/ Alive) => calls[i].state = "done"
  /\ Alive => Len(calls) >= 3
  /\ closures # <<>> => Alive
  /\ screen = "canvas" => closures # <<>>

(* The field of the canvas: clean outside of compositions.  One that goes  *)
(* on when another view is presented is exposed.                           *)
FieldInv ==
  /\ field.focused \/ field.ime # 0 => screen = "canvas"
  /\ screen = "canvas" =>
       /\ field.since <= Len(closures)
       /\ ~Current.composing => field.value \in Seq(Clean)
       /\ field.ime # 0 /\ Current.composing => field.focused
       /\ field.focused /\ field.ime # 0 =>
            /\ fates[field.ime] # "abandoned"
            /\ ~Current.composing => field.ime \in Clean

(* The commits that were scheduled and are still wanted.                   *)
DeferredInv ==
  \A d \in deferred : Wanted(d) =>
    /\ d.closure = Len(closures) => field.ime = 0 /\ d.data \in Seq(Hopeful)
    /\ d.closure # Len(closures) => d.data \in Seq(Clean)

RendererInv == TextInv /\ StartInv /\ FieldInv /\ DeferredInv

-----------------------------------------------------------------------------
(* Texts.                                                                  *)

LEMMA SeqIn ==
  ASSUME NEW S, NEW T, NEW s \in Seq(S), \A i \in 1 .. Len(s) : s[i] \in T
  PROVE  s \in Seq(T)
<1>1. Len(s) \in Nat /\ s \in [1 .. Len(s) -> S]
  BY LenProperties
<1>2. s \in [1 .. Len(s) -> T]
  BY <1>1
<1> QED
  BY <1>1, <1>2, SeqDef

LEMMA SeqGrows ==
  ASSUME NEW S, NEW T, S \subseteq T
  PROVE  Seq(S) \subseteq Seq(T)
<1> SUFFICES ASSUME NEW s \in Seq(S) PROVE s \in Seq(T)
  OBVIOUS
<1>1. \A i \in 1 .. Len(s) : s[i] \in S
  BY ElementOfSeq
<1> QED
  BY <1>1, SeqIn

LEMMA BoundedKeeps ==
  ASSUME NEW S, NEW text \in Seq(S)
  PROVE  Bounded(text) \in Seq(S)
<1> DEFINE n == IF Len(text) < MaxText THEN Len(text) ELSE MaxText
<1>1. Len(text) \in Nat /\ MaxText \in Nat
  BY LenProperties, RendererAssumption
<1>2. n \in Int /\ \A i \in 1 .. n : text[i] \in S
  BY <1>1, ElementOfSeq
<1> QED
  BY <1>2, SubSeqProperties DEF Bounded

LEMMA FrontKeeps ==
  ASSUME NEW S, NEW text \in Seq(S), text # <<>>
  PROVE  Front(text) \in Seq(S)
<1>1. Len(text) \in Nat \ {0}
  BY EmptySeq
<1>2. \A i \in 1 .. Len(text) - 1 : text[i] \in S
  BY <1>1, ElementOfSeq
<1> QED
  BY <1>1, <1>2, SubSeqProperties DEF Front

LEMMA EmptyIn ==
  ASSUME NEW S
  PROVE  <<>> \in Seq(S)
  BY EmptySeq

(* What is clean stays clean: a composition that was committed or exposed  *)
(* remains so.                                                             *)
LEMMA Grows ==
  ASSUME NEW S, NEW T, S \subseteq T
  PROVE  /\ Views(S) \subseteq Views(T)
         /\ Seq(Calls(S)) \subseteq Seq(Calls(T))
         /\ Hosts(S) \subseteq Hosts(T)
         /\ Seq(Closures(S)) \subseteq Seq(Closures(T))
         /\ Fields(S) \subseteq Fields(T)
         /\ Deferreds(S) \subseteq Deferreds(T)
<1>1. Seq(S) \subseteq Seq(T)
  BY SeqGrows
<1>2. Views(S) \subseteq Views(T)
  BY <1>1 DEF Views
<1>3. Calls(S) \subseteq Calls(T)
  BY <1>1, <1>2 DEF Calls
<1>4. Hosts(S) \subseteq Hosts(T)
  BY <1>1 DEF Hosts
<1>5. Closures(S) \subseteq Closures(T)
  BY <1>1 DEF Closures
<1>6. Fields(S) \subseteq Fields(T)
  BY <1>1 DEF Fields
<1>7. Deferreds(S) \subseteq Deferreds(T)
  BY <1>1 DEF Deferreds
<1> QED
  BY <1>2, <1>3, <1>4, <1>5, <1>6, <1>7, SeqGrows

LEMMA SendEffect ==
  ASSUME NEW S, calls \in Seq(Calls(S)), NEW op \in Ops, NEW text \in Seq(S), Send(op, text)
  PROVE  /\ calls' \in Seq(Calls(S))
         /\ Len(calls') = Len(calls) + 1
         /\ \A i \in 1 .. Len(calls) : calls'[i] = calls[i]
<1>1. Unavailable \in Views(S)
  BY EmptyIn DEF Unavailable, Shown, Views, Kinds
<1>2. PortRequest(op, text) \in Calls(S)
  BY <1>1 DEF PortRequest, Calls, States
<1> QED
  BY <1>2, AppendProperties DEF Send

LEMMA SettledEffect ==
  ASSUME NEW S, calls \in Seq(Calls(S)), NEW i \in 1 .. Len(calls)
  PROVE  /\ Settled(i) \in Seq(Calls(S))
         /\ Len(Settled(i)) = Len(calls)
         /\ Settled(i)[i].state = "done"
         /\ \A j \in 1 .. Len(calls) : j # i => Settled(i)[j] = calls[j]
<1> DEFINE call == [calls[i] EXCEPT !.state = "done", !.view = Unavailable]
<1>1. Unavailable \in Views(S)
  BY EmptyIn DEF Unavailable, Shown, Views, Kinds
<1>2. calls[i] \in Calls(S)
  BY ElementOfSeq
<1>3. call \in Calls(S) /\ call.state = "done"
  BY <1>1, <1>2 DEF Calls, States
<1>4. Settled(i) = [calls EXCEPT ![i] = call]
  BY DEF Settled
<1> HIDE DEF call
<1> QED
  BY <1>3, <1>4, ExceptSeq

(* The steps that only make, execute or answer requests. *)
LEMMA CallsMove ==
  ASSUME RendererInv, UNCHANGED <<screen, field, closures, deferred, fates, exposed>>,
         calls' \in Seq(Calls(Clean)), host' \in Hosts(Clean), StartInv'
  PROVE  RendererInv'
<1>1. Clean' = Clean /\ Piece' = Piece /\ Hopeful' = Hopeful
  BY DEF Clean, Piece, Hopeful
<1>2. TextInv'
  BY <1>1 DEF RendererInv, TextInv
<1>3. FieldInv' /\ DeferredInv'
  BY <1>1 DEF RendererInv, FieldInv, DeferredInv, Current, Wanted, Last
<1> QED
  BY <1>2, <1>3 DEF RendererInv

(* While a view is presented every request after the start-up may be made. *)
LEMMA SendKeepsStart ==
  ASSUME RendererInv, Alive, screen' = screen, Len(calls') = Len(calls) + 1,
         \A i \in 1 .. Len(calls) : calls'[i] = calls[i],
         closures' # <<>> => closures # <<>>, closures # <<>> => closures' # <<>>
  PROVE  StartInv'
<1>1. Len(calls) \in Nat
  BY LenProperties DEF RendererInv, TextInv
<1>2. \A i \in 1 .. Len(calls') : i <= 3 => i \in 1 .. Len(calls)
  BY <1>1 DEF RendererInv, StartInv
<1> QED
  BY <1>1, <1>2 DEF RendererInv, StartInv, Alive

LEMMA AuthorityArrivesKeeps ==
  ASSUME RendererInv, AuthorityArrives
  PROVE  RendererInv'
<1>1. /\ UNCHANGED <<host, screen, field, closures, deferred, fates, exposed>>
      /\ screen = "nothing" /\ calls = <<>> /\ Send("application-health", <<>>)
  BY DEF AuthorityArrives, Startup
<1>2. calls \in Seq(Calls(Clean)) /\ host \in Hosts(Clean) /\ Len(calls) = 0
  BY <1>1, EmptySeq DEF RendererInv, TextInv
<1>3. calls' \in Seq(Calls(Clean)) /\ Len(calls') = 1
  <2>1. "application-health" \in Ops /\ <<>> \in Seq(Clean)
    BY EmptyIn DEF Ops
  <2>2. Send("application-health", <<>>)
    BY <1>1
  <2>3. calls' \in Seq(Calls(Clean)) /\ Len(calls') = Len(calls) + 1
    BY <1>2, <2>1, <2>2, SendEffect
  <2> QED
    BY <1>2, <2>3
<1>4. StartInv'
  BY <1>1, <1>3 DEF RendererInv, StartInv, Alive
<1> QED
  BY <1>1, <1>2, <1>3, <1>4, CallsMove

LEMMA AuthorityMissingKeeps ==
  ASSUME RendererInv, AuthorityMissing
  PROVE  RendererInv'
<1>1. /\ UNCHANGED <<calls, host, field, closures, deferred, fates, exposed>>
      /\ screen = "nothing" /\ screen' = "dead"
  BY DEF AuthorityMissing
<1>2. Clean' = Clean /\ Piece' = Piece /\ Hopeful' = Hopeful
  BY <1>1 DEF Clean, Piece, Hopeful
<1>3. TextInv'
  BY <1>1, <1>2 DEF RendererInv, TextInv
<1>4. StartInv'
  BY <1>1 DEF RendererInv, StartInv, Alive
<1>5. FieldInv' /\ DeferredInv'
  BY <1>1, <1>2 DEF RendererInv, FieldInv, DeferredInv, Current, Wanted, Last
<1> QED
  BY <1>3, <1>4, <1>5 DEF RendererInv

LEMMA ExecuteKeeps ==
  ASSUME RendererInv, NEW i \in DOMAIN calls, Execute(i)
  PROVE  RendererInv'
<1>1. calls \in Seq(Calls(Clean)) /\ host \in Hosts(Clean)
  BY DEF RendererInv, TextInv
<1>2. i \in 1 .. Len(calls) /\ Len(calls) \in Nat /\ calls[i] \in Calls(Clean)
  BY <1>1, LenProperties, ElementOfSeq
<1>3. calls[i].state = "sent" /\ UNCHANGED <<screen, field, closures, deferred, fates, exposed>>
  BY DEF Execute
<1>4. PICK call : /\ calls' = [calls EXCEPT ![i] = call] /\ call \in Calls(Clean)
                  /\ host' \in Hosts(Clean)
  <2>1. CASE host' = host /\ calls' = [calls EXCEPT ![i].state = "failed"]
    <3> DEFINE call == [calls[i] EXCEPT !.state = "failed"]
    <3>1. call \in Calls(Clean)
      BY <1>2 DEF Calls, States
    <3>2. calls' = [calls EXCEPT ![i] = call]
      BY <2>1
    <3> QED
      BY <1>1, <2>1, <3>1, <3>2
  <2>2. CASE /\ host' = Effect(calls[i])
             /\ calls' = [calls EXCEPT ![i].state = "answered",
                                       ![i].view = Shown(host'.surface, host'.text)]
    <3> DEFINE view == Shown(host'.surface, host'.text)
               call == [calls[i] EXCEPT !.state = "answered", !.view = view]
    <3>1. host' \in Hosts(Clean)
      BY <1>1, <1>2, <2>2 DEF Effect, Hosts, Calls, Kinds
    <3>2. view \in Views(Clean)
      BY <3>1, EmptyIn DEF Shown, Views, Hosts
    <3>3. calls' = [calls EXCEPT ![i] = call]
      BY <2>2
    <3> HIDE DEF view
    <3>4. call \in Calls(Clean)
      BY <1>2, <3>2 DEF Calls, States
    <3> QED
      BY <3>1, <3>3, <3>4
  <2> QED
    BY <2>1, <2>2 DEF Execute
<1>5. /\ calls' \in Seq(Calls(Clean)) /\ Len(calls') = Len(calls)
      /\ \A j \in 1 .. Len(calls) : j # i => calls'[j] = calls[j]
  BY <1>1, <1>2, <1>4, ExceptSeq
<1>6. StartInv'
  BY <1>2, <1>3, <1>5 DEF RendererInv, StartInv, Alive
<1> QED
  BY <1>3, <1>4, <1>5, <1>6, CallsMove

LEMMA PressKeeps ==
  ASSUME RendererInv, Press
  PROVE  RendererInv'
<1>1. /\ UNCHANGED <<host, screen, field, closures, deferred, fates, exposed>> /\ Alive
      /\ \E op \in Buttons : Send(op, <<>>)
  BY DEF Press, Alive
<1>2. PICK op \in Ops : Send(op, <<>>)
  BY <1>1 DEF Buttons, Ops
<1>3. calls \in Seq(Calls(Clean)) /\ host \in Hosts(Clean)
  BY DEF RendererInv, TextInv
<1>4. /\ calls' \in Seq(Calls(Clean)) /\ Len(calls') = Len(calls) + 1
      /\ \A i \in 1 .. Len(calls) : calls'[i] = calls[i]
  BY <1>2, <1>3, SendEffect, EmptyIn
<1>5. StartInv'
  BY <1>1, <1>4, SendKeepsStart
<1> QED
  BY <1>1, <1>3, <1>4, <1>5, CallsMove


-----------------------------------------------------------------------------
(* Presenting a view.                                                      *)

LEMMA CleanArePieces == Clean \subseteq Piece /\ Clean \subseteq Hopeful /\ 0 \in Clean
  BY DEF Clean, Piece, Hopeful, Typed

(* Everything uncommitted that may still be seen is exposed. *)
LEMMA PresentExposes ==
  ASSUME RendererInv, NEW view, Present(view), fates' = fates
  PROVE  /\ Piece' = Piece /\ Clean \subseteq Clean' /\ Hopeful \subseteq Clean'
         /\ field.value \in Seq(Clean')
<1>1. fates \in Seq(Fates) /\ field.value \in Seq(Piece)
  BY DEF RendererInv, TextInv, Fields
<1>2. DOMAIN fates = 1 .. Len(fates) /\ \A n \in DOMAIN fates : fates[n] \in Fates
  BY <1>1, LenProperties, ElementOfSeq
<1>3. exposed' = exposed \cup Uncommitted
  BY DEF Present
<1>4. Piece' = Piece /\ Clean \subseteq Clean'
  BY <1>3 DEF Piece, Clean
<1>5. Hopeful \subseteq Clean'
  <2> SUFFICES ASSUME NEW n \in DOMAIN fates, fates[n] # "abandoned" PROVE n \in Clean'
    BY <1>4 DEF Hopeful
  <2>1. CASE fates[n] = "committed"
    BY <2>1 DEF Clean
  <2>2. CASE fates[n] = "pending"
    BY <1>3, <2>2 DEF Clean, Uncommitted
  <2> QED
    BY <1>2, <2>1, <2>2 DEF Fates
<1>6. ASSUME NEW k \in 1 .. Len(field.value) PROVE field.value[k] \in Clean'
  <2> DEFINE n == field.value[k]
  <2>1. n \in Piece /\ n \in ToSet(field.value)
    <3>1. DOMAIN field.value = 1 .. Len(field.value)
      BY <1>1, LenProperties
    <3> QED
      BY <1>1, <3>1, ElementOfSeq DEF ToSet
  <2>2. CASE n = Typed
    BY <2>2 DEF Clean
  <2>3. CASE n \in DOMAIN fates /\ fates[n] # "abandoned"
    BY <1>5, <2>3 DEF Hopeful
  <2>4. CASE n \in DOMAIN fates /\ fates[n] = "abandoned"
    BY <1>3, <2>1, <2>4 DEF Clean, Uncommitted
  <2> QED
    BY <2>1, <2>2, <2>3, <2>4 DEF Piece
<1> QED
  BY <1>1, <1>4, <1>5, <1>6, SeqIn

LEMMA PresentKeeps ==
  ASSUME RendererInv, NEW view \in Views(Clean), Present(view),
         UNCHANGED <<host, deferred, fates>>,
         calls' \in Seq(Calls(Clean)), Len(calls') >= 3,
         \A i \in 1 .. Len(calls') : i <= 3 => calls'[i].state = "done"
  PROVE  RendererInv'
<1>1. /\ Piece' = Piece /\ Clean \subseteq Clean' /\ Hopeful \subseteq Clean'
      /\ field.value \in Seq(Clean')
  BY PresentExposes
<1>2. /\ closures \in Seq(Closures(Clean)) /\ field \in Fields(Piece)
      /\ Len(closures) \in Nat /\ fates' = fates /\ deferred' = deferred
  BY LenProperties DEF RendererInv, TextInv
<1>3. view.kind \in Kinds /\ view.text \in Seq(Clean) /\ Bounded(view.text) \in Seq(Clean)
  BY BoundedKeeps DEF Views
<1>4. view.kind # "nothing" /\ view.kind # "dead" /\ screen' = view.kind
  BY <1>3 DEF Kinds, Present
<1>5. /\ Bounded(view.text) \in Seq(Clean') /\ Bounded(view.text) \in Seq(Piece)
      /\ closures \in Seq(Closures(Clean'))
  BY <1>1, <1>2, <1>3, SeqGrows, Grows, CleanArePieces
<1>6. CASE view.kind = "canvas"
  <2> DEFINE mounted == Mounted(view.text)
  <2>1. closures' = Append(closures, mounted)
    BY <1>6 DEF Present
  <2>2. mounted \in Closures(Clean') /\ mounted.composing = FALSE
    BY <1>5 DEF Mounted, Rendering, Closures
  <2> HIDE DEF mounted
  <2>3. /\ closures' \in Seq(Closures(Clean')) /\ Len(closures') = Len(closures) + 1
        /\ \A k \in 1 .. Len(closures) : closures'[k] = closures[k]
        /\ closures'[Len(closures')] = mounted /\ closures' # <<>>
    BY <1>2, <1>5, <2>1, <2>2, AppendProperties
  <2>4. ~Current.composing'
    BY <2>2, <2>3 DEF Current, Last
  <2>5. /\ field' \in Fields(Piece) /\ field'.value \in Seq(Clean')
        /\ field'.since <= Len(closures) + 1
        /\ field'.focused /\ field'.ime # 0 => field.focused /\ field'.ime = field.ime
    <3>1. CASE view.kind = screen /\ field.edited
      <4>1. field' = field
        BY <3>1 DEF Present
      <4>2. field.since <= Len(closures) /\ field.since \in Nat
        BY <1>2, <1>6, <3>1 DEF RendererInv, FieldInv, Fields
      <4> QED
        BY <1>1, <1>2, <4>1, <4>2
    <3>2. CASE ~(view.kind = screen /\ field.edited) /\ screen = "canvas"
      <4> DEFINE shown == Bounded(view.text)
      <4>1. field' = [field EXCEPT !.value = shown]
        BY <1>6, <3>2 DEF Present
      <4>2. field.since <= Len(closures) /\ field.since \in Nat
        BY <1>2, <3>2 DEF RendererInv, FieldInv, Fields
      <4>3. shown \in Seq(Clean') /\ shown \in Seq(Piece)
        BY <1>5
      <4> HIDE DEF shown
      <4>4. /\ field' \in Fields(Piece) /\ field'.value = shown /\ field'.since = field.since
            /\ field'.focused = field.focused /\ field'.ime = field.ime
        BY <1>2, <4>1, <4>3 DEF Fields
      <4> QED
        BY <1>2, <4>2, <4>3, <4>4
    <3>3. CASE screen # "canvas"
      <4> DEFINE shown == Bounded(view.text)
                 since == Len(closures) + 1
      <4>1. field' = Field(shown, since)
        BY <1>6, <3>3 DEF Present
      <4>2. shown \in Seq(Clean') /\ shown \in Seq(Piece) /\ since \in Nat /\ 0 \in Piece
        BY <1>2, <1>5, CleanArePieces
      <4> HIDE DEF shown
      <4>3. field' \in Fields(Piece) /\ field'.value = shown
        BY <4>1, <4>2 DEF Field, Fields
      <4>4. ~field'.focused /\ field'.since = Len(closures) + 1
        BY <4>1 DEF Field
      <4> QED
        BY <1>2, <4>2, <4>3, <4>4
    <3> QED
      BY <3>1, <3>2, <3>3
  <2>6. TextInv'
    <3>1. fates' \in Seq(Fates) /\ host' \in Hosts(Clean') /\ calls' \in Seq(Calls(Clean'))
      BY <1>1, Grows DEF RendererInv, TextInv
    <3>2. ASSUME NEW d \in deferred
          PROVE  d.closure \in 1 .. Len(closures') /\ d.generation <= closures'[d.closure].generation
      <4>1. d.closure \in 1 .. Len(closures) /\ d.generation <= closures[d.closure].generation
        BY DEF RendererInv, TextInv
      <4> QED
        BY <1>2, <2>3, <4>1
    <3>3. deferred \subseteq Deferreds(Piece)
      BY DEF RendererInv, TextInv
    <3> QED
      BY <1>1, <1>2, <2>3, <2>5, <3>1, <3>2, <3>3 DEF TextInv
  <2>7. StartInv'
    BY <1>4, <2>3 DEF StartInv, Alive
  <2>8. FieldInv'
    <3>1. ASSUME field'.focused, field'.ime # 0
          PROVE  fates'[field'.ime] # "abandoned" /\ field'.ime \in Clean'
      <4>1. field.focused /\ field'.ime = field.ime /\ field.ime \in Piece
        BY <1>2, <2>5, <3>1 DEF Fields
      <4>2. screen = "canvas" /\ fates[field.ime] # "abandoned"
        BY <3>1, <4>1 DEF RendererInv, FieldInv
      <4>3. field.ime \in Hopeful
        BY <3>1, <4>1, <4>2 DEF Hopeful, Piece, Typed
      <4> QED
        BY <1>1, <1>2, <4>1, <4>2, <4>3
    <3> QED
      BY <1>4, <1>6, <2>3, <2>4, <2>5, <3>1 DEF FieldInv
  <2>9. DeferredInv'
    <3> SUFFICES ASSUME NEW d \in deferred, Wanted(d)'
                 PROVE  d.closure # Len(closures') /\ d.data \in Seq(Clean')
      BY <1>2 DEF DeferredInv
    <3>1. d.closure \in 1 .. Len(closures)
      BY DEF RendererInv, TextInv
    <3>2. Wanted(d)
      BY <2>3, <3>1 DEF Wanted
    <3>3. d.data \in Seq(Hopeful) \/ d.data \in Seq(Clean)
      BY <3>2 DEF RendererInv, DeferredInv
    <3> QED
      BY <1>1, <1>2, <2>3, <3>1, <3>3, SeqGrows
  <2> QED
    BY <2>6, <2>7, <2>8, <2>9 DEF RendererInv
<1>7. CASE view.kind # "canvas"
  <2>1. closures' = closures
    BY <1>7 DEF Present
  <2>2. field' \in Fields(Piece) /\ ~field'.focused /\ field'.ime = 0
    <3>1. CASE view.kind = screen /\ field.edited
      BY <1>2, <1>7, <3>1 DEF RendererInv, FieldInv, Present, Fields
    <3>2. CASE ~(view.kind = screen /\ field.edited)
      <4>1. field' = Field(Bounded(view.text), Len(closures) + 1)
        BY <1>7, <3>2 DEF Present
      <4> QED
        BY <1>2, <1>5, <4>1, CleanArePieces DEF Field, Fields
    <3> QED
      BY <3>1, <3>2
  <2>3. TextInv'
    <3>1. fates' \in Seq(Fates) /\ host' \in Hosts(Clean') /\ calls' \in Seq(Calls(Clean'))
      BY <1>1, Grows DEF RendererInv, TextInv
    <3> QED
      BY <1>1, <1>2, <1>5, <2>1, <2>2, <3>1 DEF RendererInv, TextInv
  <2>4. StartInv'
    BY <1>4, <1>7 DEF StartInv, Alive
  <2>5. FieldInv'
    BY <1>4, <1>7, <2>2 DEF FieldInv
  <2>6. DeferredInv'
    <3> SUFFICES ASSUME NEW d \in deferred, Wanted(d)'
                 PROVE  /\ d.data \in Seq(Hopeful') /\ d.data \in Seq(Clean')
      BY <1>2, <2>2 DEF DeferredInv
    <3>1. Wanted(d)
      BY <2>1 DEF Wanted
    <3>2. d.data \in Seq(Hopeful) \/ d.data \in Seq(Clean)
      BY <3>1 DEF RendererInv, DeferredInv
    <3>3. Clean' \subseteq Hopeful'
      BY DEF Hopeful
    <3> QED
      BY <1>1, <3>2, <3>3, SeqGrows
  <2> QED
    BY <2>3, <2>4, <2>5, <2>6 DEF RendererInv
<1> QED
  BY <1>6, <1>7


LEMMA StartKeeps ==
  ASSUME RendererInv, NEW i \in DOMAIN calls, Start(i)
  PROVE  RendererInv'
<1>1. /\ calls \in Seq(Calls(Clean)) /\ DOMAIN calls = 1 .. Len(calls) /\ Len(calls) \in Nat
      /\ calls[i] \in Calls(Clean) /\ host \in Hosts(Clean)
  BY LenProperties, ElementOfSeq DEF RendererInv, TextInv
<1>2. i <= 3 /\ calls[i].state # "done" /\ UNCHANGED <<host, deferred, fates>>
  BY DEF Start, Startup
<1>3. ~Alive /\ i = Len(calls) /\ \A j \in 1 .. Len(calls) : j # i => calls[j].state = "done"
  BY <1>1, <1>2 DEF RendererInv, StartInv
<1>4. /\ Settled(i) \in Seq(Calls(Clean)) /\ Len(Settled(i)) = Len(calls)
      /\ \A j \in 1 .. Len(calls) : Settled(i)[j].state = "done"
  BY <1>1, <1>3, SettledEffect
<1>5. CASE calls[i].state = "failed"
  <2>1. /\ screen' = "dead" /\ calls' = Settled(i)
        /\ UNCHANGED <<field, closures, exposed>>
    BY <1>5 DEF Start
  <2>2. Clean' = Clean /\ Piece' = Piece /\ Hopeful' = Hopeful
    BY <1>2, <2>1 DEF Clean, Piece, Hopeful
  <2>3. TextInv'
    BY <1>2, <1>4, <2>1, <2>2 DEF RendererInv, TextInv
  <2>4. StartInv'
    BY <1>3, <1>4, <2>1 DEF RendererInv, StartInv, Alive
  <2>5. FieldInv' /\ DeferredInv'
    <3>1. ~field.focused /\ field.ime = 0
      BY <1>3 DEF RendererInv, FieldInv, Alive
    <3>2. FieldInv'
      BY <2>1, <3>1 DEF FieldInv
    <3>3. DeferredInv'
      BY <1>2, <2>1, <2>2 DEF RendererInv, DeferredInv, Wanted
    <3> QED
      BY <3>2, <3>3
  <2> QED
    BY <2>3, <2>4, <2>5 DEF RendererInv
<1>6. CASE calls[i].state # "failed" /\ i < Len(Startup)
  <2> DEFINE request == PortRequest(Startup[i + 1], <<>>)
  <2>1. calls' = Append(Settled(i), request) /\ UNCHANGED <<screen, field, closures, exposed>>
    BY <1>6 DEF Start
  <2>2. request \in Calls(Clean)
    <3>1. Startup[i + 1] \in Ops
      BY <1>1, <1>6 DEF Startup, Ops
    <3>2. Unavailable \in Views(Clean) /\ <<>> \in Seq(Clean)
      BY EmptyIn DEF Unavailable, Shown, Views, Kinds
    <3> QED
      BY <3>1, <3>2 DEF PortRequest, Calls, States
  <2> HIDE DEF request
  <2>3. /\ calls' \in Seq(Calls(Clean)) /\ Len(calls') = Len(calls) + 1
        /\ \A j \in 1 .. Len(calls) : calls'[j].state = "done"
    BY <1>4, <2>1, <2>2, AppendProperties
  <2>4. StartInv'
    <3>1. ~Alive' /\ closures' = <<>> /\ screen' # "canvas"
      BY <1>3, <2>1 DEF RendererInv, StartInv, Alive
    <3>2. \A j \in 1 .. Len(calls') : j < Len(calls') => j \in 1 .. Len(calls)
      BY <1>1, <2>3
    <3> QED
      BY <2>3, <3>1, <3>2 DEF StartInv
  <2> QED
    BY <1>1, <1>2, <2>1, <2>3, <2>4, CallsMove
<1>7. CASE calls[i].state # "failed" /\ ~(i < Len(Startup))
  <2>1. calls' = Settled(i) /\ Present(calls[i].view)
    BY <1>7 DEF Start
  <2>2. i = 3 /\ calls[i].view \in Views(Clean)
    BY <1>1, <1>2, <1>7 DEF Startup, Calls
  <2>3. Len(calls') >= 3 /\ \A j \in 1 .. Len(calls') : j <= 3 => calls'[j].state = "done"
    BY <1>1, <1>3, <1>4, <2>1, <2>2
  <2> QED
    BY <1>2, <1>4, <2>1, <2>2, <2>3, PresentKeeps
<1> QED
  BY <1>5, <1>6, <1>7

LEMMA RecoverViewKeeps ==
  ASSUME RendererInv, NEW i \in DOMAIN calls, RecoverView(i)
  PROVE  RendererInv'
<1>1. /\ calls \in Seq(Calls(Clean)) /\ DOMAIN calls = 1 .. Len(calls) /\ Len(calls) \in Nat
      /\ calls[i] \in Calls(Clean)
  BY LenProperties, ElementOfSeq DEF RendererInv, TextInv
<1>2. i > 3 /\ i \in 1 .. Len(calls) /\ calls' = Settled(i) /\ UNCHANGED <<host, deferred, fates>>
  BY <1>1 DEF RecoverView, Startup
<1>3. /\ Settled(i) \in Seq(Calls(Clean)) /\ Len(Settled(i)) = Len(calls)
      /\ \A j \in 1 .. Len(calls) : j # i => Settled(i)[j] = calls[j]
  BY <1>1, <1>2, SettledEffect
<1>4. Len(calls') >= 3 /\ \A j \in 1 .. Len(calls') : j <= 3 => calls'[j].state = "done"
  BY <1>1, <1>2, <1>3 DEF RendererInv, StartInv
<1>5. PICK view \in Views(Clean) : Present(view)
  <2>1. Unavailable \in Views(Clean) /\ calls[i].view \in Views(Clean)
    BY <1>1, EmptyIn DEF Unavailable, Shown, Views, Kinds, Calls
  <2> QED
    BY <2>1 DEF RecoverView
<1> QED
  BY <1>2, <1>3, <1>4, <1>5, PresentKeeps


-----------------------------------------------------------------------------
(* The text field.                                                         *)

(* A gesture that commits the field, or finds the rendering in a           *)
(* composition.                                                            *)
LEMMA ChangedEffect ==
  ASSUME RendererInv, screen = "canvas", NEW text \in Seq(Piece),
         ~Current.composing => text \in Seq(Clean), Changed(text, Current.composing)
  PROVE  /\ calls' \in Seq(Calls(Clean)) /\ closures' \in Seq(Closures(Clean))
         /\ Len(closures') = Len(closures)
         /\ \A k \in 1 .. Len(closures) :
              /\ closures'[k].composing = closures[k].composing
              /\ closures'[k].generation = closures[k].generation
         /\ \/ UNCHANGED calls
            \/ /\ Len(calls') = Len(calls) + 1
               /\ \A i \in 1 .. Len(calls) : calls'[i] = calls[i]
<1>1. calls \in Seq(Calls(Clean)) /\ closures \in Seq(Closures(Clean)) /\ closures # <<>>
  BY DEF RendererInv, TextInv, StartInv
<1>2. Len(closures) \in Nat \ {0}
  BY <1>1, EmptySeq
<1>3. CASE Current.composing
  BY <1>1, <1>3 DEF Changed
<1>4. CASE ~Current.composing
  <2> DEFINE sent == Bounded(text)
             next == Rendering(sent, FALSE, Current.generation)
  <2>1. closures' = [closures EXCEPT ![Len(closures)] = next] /\ Send("commit-canvas-text", sent)
    BY <1>4 DEF Changed
  <2>2. sent \in Seq(Clean)
    BY <1>4, BoundedKeeps
  <2> HIDE DEF sent
  <2>3. Current = closures[Len(closures)] /\ Current \in Closures(Clean)
    BY <1>1, <1>2, ElementOfSeq DEF Current, Last
  <2>4. /\ next \in Closures(Clean) /\ next.composing = Current.composing
        /\ next.generation = Current.generation
    BY <1>4, <2>2, <2>3 DEF Rendering, Closures
  <2> HIDE DEF next
  <2>5. /\ closures' \in Seq(Closures(Clean)) /\ Len(closures') = Len(closures)
        /\ \A k \in 1 .. Len(closures) : closures'[k] = IF k = Len(closures) THEN next ELSE closures[k]
    BY <1>1, <1>2, <2>1, <2>4, ExceptSeq
  <2>6. "commit-canvas-text" \in Ops
    BY DEF Ops
  <2>7. /\ calls' \in Seq(Calls(Clean)) /\ Len(calls') = Len(calls) + 1
        /\ \A i \in 1 .. Len(calls) : calls'[i] = calls[i]
    BY <1>1, <2>1, <2>2, <2>6, SendEffect
  <2> QED
    BY <2>3, <2>4, <2>5, <2>7
<1> QED
  BY <1>3, <1>4

(* Requests and renderings that moved, as a gesture of the canvas may.     *)
LEMMA GestureStart ==
  ASSUME RendererInv, screen = "canvas", screen' = screen, Len(closures') = Len(closures),
         closures' \in Seq(Closures(Clean)),
         \/ UNCHANGED calls
         \/ /\ Len(calls') = Len(calls) + 1
            /\ \A i \in 1 .. Len(calls) : calls'[i] = calls[i]
  PROVE  StartInv'
<1>1. closures # <<>> /\ closures \in Seq(Closures(Clean)) /\ Alive
  BY DEF RendererInv, StartInv, TextInv, Alive
<1>2. closures' # <<>>
  BY <1>1, EmptySeq
<1>3. CASE UNCHANGED calls
  BY <1>1, <1>2, <1>3 DEF RendererInv, StartInv, Alive
<1>4. CASE Len(calls') = Len(calls) + 1 /\ \A i \in 1 .. Len(calls) : calls'[i] = calls[i]
  BY <1>1, <1>2, <1>4, SendKeepsStart
<1> QED
  BY <1>3, <1>4

LEMMA FocusKeeps ==
  ASSUME RendererInv, Focus
  PROVE  RendererInv'
<1>1. /\ UNCHANGED <<calls, host, screen, closures, deferred, fates, exposed>>
      /\ screen = "canvas" /\ field.ime = 0 /\ field' = [field EXCEPT !.focused = TRUE]
  BY DEF Focus
<1>2. Clean' = Clean /\ Piece' = Piece /\ Hopeful' = Hopeful
  BY <1>1 DEF Clean, Piece, Hopeful
<1>3. field \in Fields(Piece)
  BY DEF RendererInv, TextInv
<1>4. /\ field' \in Fields(Piece) /\ field'.ime = 0
      /\ field'.value = field.value /\ field'.since = field.since
  BY <1>1, <1>3 DEF Fields
<1>5. TextInv'
  BY <1>1, <1>2, <1>4 DEF RendererInv, TextInv
<1>6. StartInv'
  BY <1>1 DEF RendererInv, StartInv, Alive
<1>7. FieldInv'
  BY <1>1, <1>2, <1>4 DEF RendererInv, FieldInv, Current, Last
<1>8. DeferredInv'
  BY <1>1, <1>2, <1>4 DEF RendererInv, DeferredInv, Wanted
<1> QED
  BY <1>5, <1>6, <1>7, <1>8 DEF RendererInv

(* A change of the field while its composition, if any, goes on. *)
LEMMA EditKeeps ==
  ASSUME RendererInv, screen = "canvas", NEW text \in Seq(Piece), NEW shown \in Seq(Piece),
         ~Current.composing => text \in Seq(Clean) /\ shown \in Seq(Clean),
         Changed(text, Current.composing),
         field' = [field EXCEPT !.value = shown, !.edited = TRUE],
         UNCHANGED <<host, screen, deferred, fates, exposed>>
  PROVE  RendererInv'
<1>1. /\ calls' \in Seq(Calls(Clean)) /\ closures' \in Seq(Closures(Clean))
      /\ Len(closures') = Len(closures)
      /\ \A k \in 1 .. Len(closures) :
           /\ closures'[k].composing = closures[k].composing
           /\ closures'[k].generation = closures[k].generation
      /\ \/ UNCHANGED calls
         \/ /\ Len(calls') = Len(calls) + 1
            /\ \A i \in 1 .. Len(calls) : calls'[i] = calls[i]
  BY ChangedEffect
<1>2. Clean' = Clean /\ Piece' = Piece /\ Hopeful' = Hopeful
  BY DEF Clean, Piece, Hopeful
<1>3. /\ field \in Fields(Piece) /\ closures # <<>> /\ closures \in Seq(Closures(Clean))
  BY DEF RendererInv, TextInv, StartInv
<1>4. /\ field' \in Fields(Piece) /\ field'.value = shown /\ field'.since = field.since
      /\ field'.ime = field.ime /\ field'.focused = field.focused
  BY <1>3 DEF Fields
<1>5. Len(closures) \in 1 .. Len(closures) /\ Current'.composing = Current.composing
  <2>1. Len(closures) \in Nat \ {0}
    BY <1>3, EmptySeq
  <2> QED
    BY <1>1, <2>1 DEF Current, Last
<1>6. TextInv'
  BY <1>1, <1>2, <1>4 DEF RendererInv, TextInv
<1>7. StartInv'
  BY <1>1, GestureStart
<1>8. FieldInv'
  BY <1>1, <1>2, <1>4, <1>5 DEF RendererInv, FieldInv
<1>9. DeferredInv'
  <2> SUFFICES ASSUME NEW d \in deferred, Wanted(d)'
               PROVE  /\ d.closure = Len(closures') => field'.ime = 0 /\ d.data \in Seq(Hopeful')
                      /\ d.closure # Len(closures') => d.data \in Seq(Clean')
    BY DEF DeferredInv
  <2>1. Wanted(d)
    BY <1>1 DEF RendererInv, TextInv, Wanted
  <2> QED
    BY <1>1, <1>2, <1>4, <2>1 DEF RendererInv, DeferredInv
<1> QED
  BY <1>6, <1>7, <1>8, <1>9 DEF RendererInv


LEMMA TypeKeeps ==
  ASSUME RendererInv, Type
  PROVE  RendererInv'
<1>1. field.focused /\ screen = "canvas" /\ UNCHANGED <<host, screen, deferred, fates, exposed>>
  BY DEF Type, RendererInv, FieldInv
<1>2. PICK text \in {Append(field.value, Typed), <<>>} :
        /\ field' = [field EXCEPT !.value = Bounded(text), !.edited = TRUE]
        /\ Changed(text, Current.composing)
  BY DEF Type
<1>3. field.value \in Seq(Piece) /\ (~Current.composing => field.value \in Seq(Clean))
  BY <1>1 DEF RendererInv, TextInv, Fields, FieldInv
<1>4. text \in Seq(Piece) /\ (~Current.composing => text \in Seq(Clean))
  <2>1. ASSUME NEW S, field.value \in Seq(S), Typed \in S PROVE text \in Seq(S)
    <3>1. Append(field.value, Typed) \in Seq(S)
      BY <2>1, AppendProperties
    <3>2. <<>> \in Seq(S)
      BY EmptyIn
    <3> QED
      BY <1>2, <3>1, <3>2
  <2>2. Typed \in Piece /\ Typed \in Clean
    BY DEF Piece, Clean
  <2> QED
    BY <1>3, <2>1, <2>2
<1>5. Bounded(text) \in Seq(Piece) /\ (~Current.composing => Bounded(text) \in Seq(Clean))
  BY <1>4, BoundedKeeps
<1> QED
  BY <1>1, <1>2, <1>4, <1>5, EditKeeps

(* The field with and without the text of the composition. *)
LEMMA ComposedIn ==
  ASSUME RendererInv, screen = "canvas", field.focused, field.ime # 0
  PROVE  /\ Composed \in Seq(Piece) /\ Withdrawn \in Seq(Piece)
         /\ ~Current.composing => Composed \in Seq(Clean) /\ Withdrawn \in Seq(Clean)
<1>1. /\ field.value \in Seq(Piece) /\ field.ime \in Piece
      /\ ~Current.composing => field.value \in Seq(Clean) /\ field.ime \in Clean
  BY DEF RendererInv, TextInv, Fields, FieldInv
<1>2. ASSUME NEW S, field.value \in Seq(S), field.ime \in S
      PROVE  Composed \in Seq(S) /\ Withdrawn \in Seq(S)
  <2>1. Append(field.value, field.ime) \in Seq(S)
    BY <1>2, AppendProperties
  <2>2. field.ime \in ToSet(field.value) => Front(field.value) \in Seq(S)
    <3>1. field.ime \in ToSet(field.value) => field.value # <<>>
      BY DEF ToSet
    <3> QED
      BY <1>2, <3>1, FrontKeeps
  <2> QED
    BY <1>2, <2>1, <2>2 DEF Composed, Withdrawn
<1> QED
  BY <1>1, <1>2

LEMMA CompositionUpdateKeeps ==
  ASSUME RendererInv, CompositionUpdate
  PROVE  RendererInv'
<1>1. /\ field.focused /\ field.ime # 0 /\ screen = "canvas"
      /\ field' = [field EXCEPT !.value = Bounded(Composed), !.edited = TRUE]
      /\ Changed(Composed, Current.composing)
      /\ UNCHANGED <<host, screen, deferred, fates, exposed>>
  BY DEF CompositionUpdate, RendererInv, FieldInv
<1>2. Composed \in Seq(Piece) /\ (~Current.composing => Composed \in Seq(Clean))
  BY <1>1, ComposedIn
<1>3. /\ Bounded(Composed) \in Seq(Piece)
      /\ ~Current.composing => Bounded(Composed) \in Seq(Clean)
  BY <1>2, BoundedKeeps
<1> QED
  BY <1>1, <1>2, <1>3, EditKeeps

(* What a composition start and a focus loss do to the other compositions. *)
LEMMA AbandonedEffect ==
  ASSUME fates \in Seq(Fates)
  PROVE  /\ Abandoned \in Seq(Fates) /\ Len(Abandoned) = Len(fates)
         /\ \A n \in 1 .. Len(fates) : fates[n] = "committed" <=> Abandoned[n] = "committed"
<1>1. DOMAIN fates = 1 .. Len(fates) /\ Len(fates) \in Nat
      /\ \A n \in 1 .. Len(fates) : fates[n] \in Fates
  BY LenProperties, ElementOfSeq
<1>2. Abandoned = [n \in 1 .. Len(fates) |-> IF fates[n] = "pending" THEN "abandoned" ELSE fates[n]]
  BY <1>1 DEF Abandoned
<1>3. Abandoned \in [1 .. Len(fates) -> Fates]
  BY <1>1, <1>2 DEF Fates
<1>4. Abandoned \in Seq(Fates)
  BY <1>1, <1>3, SeqDef
<1>5. Len(Abandoned) = Len(fates)
  BY <1>1, <1>3, <1>4, LenProperties
<1> QED
  BY <1>1, <1>2, <1>4, <1>5 DEF Fates

(* The rendering that handles the events moves to its next generation: its *)
(* deferred commits are no longer wanted, those of older ones are as they  *)
(* were.                                                                   *)
LEMMA NextGeneration ==
  ASSUME RendererInv, closures # <<>>, NEW composing \in BOOLEAN,
         closures' = [closures EXCEPT ![Len(closures)] =
                        Rendering(Current.committed, composing, Current.generation + 1)]
  PROVE  /\ closures' \in Seq(Closures(Clean)) /\ Len(closures') = Len(closures)
         /\ closures' # <<>> /\ Current' = Rendering(Current.committed, composing, Current.generation + 1)
         /\ Current.committed \in Seq(Clean)
         /\ \A d \in deferred :
              /\ d.closure \in 1 .. Len(closures')
              /\ d.generation <= closures'[d.closure].generation
              /\ Wanted(d)' => d.closure # Len(closures') /\ d.data \in Seq(Clean)
<1> DEFINE next == Rendering(Current.committed, composing, Current.generation + 1)
<1>1. closures \in Seq(Closures(Clean)) /\ Len(closures) \in Nat \ {0}
  BY EmptySeq DEF RendererInv, TextInv
<1>2. Current = closures[Len(closures)] /\ Current \in Closures(Clean)
  BY <1>1, ElementOfSeq DEF Current, Last
<1>3. /\ next \in Closures(Clean) /\ next.generation = Current.generation + 1
      /\ Current.generation \in Nat /\ Current.committed \in Seq(Clean)
  BY <1>2 DEF Rendering, Closures
<1>0. closures' = [closures EXCEPT ![Len(closures)] = next]
  OBVIOUS
<1> HIDE DEF next
<1>4. /\ closures' \in Seq(Closures(Clean)) /\ Len(closures') = Len(closures)
      /\ \A k \in 1 .. Len(closures) : closures'[k] = IF k = Len(closures) THEN next ELSE closures[k]
  BY <1>1, <1>3, <1>0, ExceptSeq
<1>5. closures' # <<>> /\ Current' = next
  <2>1. Len(closures) \in 1 .. Len(closures) /\ Current' = closures'[Len(closures')]
    BY <1>1 DEF Current, Last
  <2>2. closures' # <<>>
    BY <1>1, <1>4, EmptySeq
  <2> QED
    BY <1>4, <2>1, <2>2
<1>6. ASSUME NEW d \in deferred
      PROVE  /\ d.closure \in 1 .. Len(closures')
             /\ d.generation <= closures'[d.closure].generation
             /\ Wanted(d)' => d.closure # Len(closures') /\ d.data \in Seq(Clean)
  <2>1. /\ d.closure \in 1 .. Len(closures) /\ d.generation \in Nat
        /\ d.generation <= closures[d.closure].generation
    BY DEF RendererInv, TextInv, Deferreds
  <2>2. CASE d.closure = Len(closures)
    <3>1. closures'[d.closure].generation = closures[d.closure].generation + 1
      BY <1>2, <1>3, <1>4, <2>1, <2>2
    <3>2. closures'[d.closure].generation # d.generation /\ closures[d.closure].generation \in Nat
      BY <1>2, <1>3, <2>1, <2>2, <3>1
    <3>3. ~Wanted(d)'
      BY <3>2 DEF Wanted
    <3>4. d.generation <= closures'[d.closure].generation
      BY <2>1, <3>1, <3>2
    <3> QED
      BY <1>4, <2>1, <3>3, <3>4
  <2>3. CASE d.closure # Len(closures)
    <3>1. closures'[d.closure] = closures[d.closure]
      BY <1>4, <2>1, <2>3
    <3>2. Wanted(d)' => Wanted(d)
      BY <3>1 DEF Wanted
    <3> QED
      BY <1>4, <2>1, <2>3, <3>1, <3>2 DEF RendererInv, DeferredInv
  <2> QED
    BY <2>2, <2>3
<1> QED
  BY <1>3, <1>4, <1>5, <1>6 DEF next


LEMMA CompositionStartKeeps ==
  ASSUME RendererInv, CompositionStart
  PROVE  RendererInv'
<1>1. /\ field.focused /\ field.ime = 0 /\ screen = "canvas" /\ closures # <<>>
      /\ fates' = Append(Abandoned, "pending")
      /\ field' = [field EXCEPT !.ime = Len(fates) + 1]
      /\ closures' = [closures EXCEPT ![Len(closures)] =
                        Rendering(Current.committed, TRUE, Current.generation + 1)]
      /\ UNCHANGED <<calls, host, screen, deferred, exposed>>
  BY DEF CompositionStart, RendererInv, FieldInv, StartInv
<1>2. fates \in Seq(Fates) /\ field \in Fields(Piece) /\ closures \in Seq(Closures(Clean))
  BY DEF RendererInv, TextInv
<1>3. /\ Abandoned \in Seq(Fates) /\ Len(Abandoned) = Len(fates) /\ Len(fates) \in Nat
      /\ \A n \in 1 .. Len(fates) : fates[n] = "committed" <=> Abandoned[n] = "committed"
      /\ DOMAIN fates = 1 .. Len(fates)
  BY <1>2, AbandonedEffect, LenProperties
<1>4. /\ fates' \in Seq(Fates) /\ Len(fates') = Len(fates) + 1
      /\ DOMAIN fates' = 1 .. Len(fates')
      /\ \A n \in 1 .. Len(fates) : fates[n] = "committed" => fates'[n] = "committed"
      /\ fates'[Len(fates) + 1] = "pending"
  <2>1. "pending" \in Fates
    BY DEF Fates
  <2>2. /\ fates' \in Seq(Fates) /\ Len(fates') = Len(fates) + 1
        /\ \A n \in 1 .. Len(fates) : fates'[n] = Abandoned[n]
        /\ fates'[Len(fates) + 1] = "pending"
    BY <1>1, <1>3, <2>1, AppendProperties
  <2> QED
    BY <1>3, <2>2, LenProperties
<1>5. Clean \subseteq Clean' /\ Piece \subseteq Piece' /\ Len(fates) + 1 \in Piece'
  BY <1>1, <1>3, <1>4 DEF Clean, Piece
<1>6. /\ closures' \in Seq(Closures(Clean)) /\ Len(closures') = Len(closures)
      /\ closures' # <<>> /\ Current'.composing
      /\ \A d \in deferred :
           /\ d.closure \in 1 .. Len(closures')
           /\ d.generation <= closures'[d.closure].generation
           /\ Wanted(d)' => d.closure # Len(closures') /\ d.data \in Seq(Clean)
  <2>1. \A committed, generation : Rendering(committed, TRUE, generation).composing = TRUE
    BY DEF Rendering
  <2>2. TRUE \in BOOLEAN
    OBVIOUS
  <2>3. /\ closures' \in Seq(Closures(Clean)) /\ Len(closures') = Len(closures)
        /\ closures' # <<>> /\ Current' = Rendering(Current.committed, TRUE, Current.generation + 1)
        /\ Current.committed \in Seq(Clean)
        /\ \A d \in deferred :
             /\ d.closure \in 1 .. Len(closures')
             /\ d.generation <= closures'[d.closure].generation
             /\ Wanted(d)' => d.closure # Len(closures') /\ d.data \in Seq(Clean)
    BY <1>1, <2>2, NextGeneration
  <2> QED
    BY <2>1, <2>3
<1>7. /\ field' \in Fields(Piece') /\ field'.focused /\ field'.ime = Len(fates) + 1
      /\ field'.since = field.since
  <2>1. field \in Fields(Piece')
    BY <1>2, <1>5, Grows
  <2> QED
    BY <1>1, <1>5, <2>1 DEF Fields
<1>8. TextInv'
  <2>1. /\ calls' \in Seq(Calls(Clean')) /\ host' \in Hosts(Clean')
        /\ closures' \in Seq(Closures(Clean'))
    <3>1. calls \in Seq(Calls(Clean)) /\ host \in Hosts(Clean)
      BY DEF RendererInv, TextInv
    <3>2. /\ Seq(Calls(Clean)) \subseteq Seq(Calls(Clean'))
          /\ Hosts(Clean) \subseteq Hosts(Clean')
          /\ Seq(Closures(Clean)) \subseteq Seq(Closures(Clean'))
      BY <1>5, Grows
    <3> QED
      BY <1>1, <1>6, <3>1, <3>2
  <2>2. deferred' \subseteq Deferreds(Piece')
    BY <1>1, <1>5, Grows DEF RendererInv, TextInv
  <2> QED
    BY <1>1, <1>4, <1>6, <1>7, <2>1, <2>2 DEF TextInv
<1>9. StartInv'
  BY <1>1, <1>6 DEF RendererInv, StartInv, Alive
<1>10. FieldInv'
  BY <1>1, <1>4, <1>6, <1>7 DEF RendererInv, FieldInv
<1>11. DeferredInv'
  BY <1>1, <1>5, <1>6, SeqGrows DEF DeferredInv
<1> QED
  BY <1>8, <1>9, <1>10, <1>11 DEF RendererInv

LEMMA BlurKeeps ==
  ASSUME RendererInv, Blur
  PROVE  RendererInv'
<1>1. /\ field.focused /\ screen = "canvas" /\ closures # <<>>
      /\ fates' = Abandoned
      /\ field' = [field EXCEPT !.focused = FALSE, !.value = Current.committed, !.edited = TRUE]
      /\ closures' = [closures EXCEPT ![Len(closures)] =
                        Rendering(Current.committed, FALSE, Current.generation + 1)]
      /\ UNCHANGED <<calls, host, screen, deferred, exposed>>
  BY DEF Blur, RendererInv, FieldInv, StartInv
<1>2. fates \in Seq(Fates) /\ field \in Fields(Piece)
  BY DEF RendererInv, TextInv
<1>3. /\ fates' \in Seq(Fates) /\ Len(fates') = Len(fates)
      /\ \A n \in 1 .. Len(fates) : fates[n] = "committed" <=> fates'[n] = "committed"
      /\ DOMAIN fates = 1 .. Len(fates) /\ DOMAIN fates' = 1 .. Len(fates)
  BY <1>1, <1>2, AbandonedEffect, LenProperties
<1>4. Clean' = Clean /\ Piece' = Piece
  BY <1>1, <1>3 DEF Clean, Piece
<1>5. /\ closures' \in Seq(Closures(Clean)) /\ Len(closures') = Len(closures)
      /\ closures' # <<>> /\ ~Current'.composing /\ Current.committed \in Seq(Clean)
      /\ \A d \in deferred :
           /\ d.closure \in 1 .. Len(closures')
           /\ d.generation <= closures'[d.closure].generation
           /\ Wanted(d)' => d.closure # Len(closures') /\ d.data \in Seq(Clean)
  <2>1. \A committed, generation : Rendering(committed, FALSE, generation).composing = FALSE
    BY DEF Rendering
  <2>2. FALSE \in BOOLEAN
    OBVIOUS
  <2>3. /\ closures' \in Seq(Closures(Clean)) /\ Len(closures') = Len(closures)
        /\ closures' # <<>> /\ Current' = Rendering(Current.committed, FALSE, Current.generation + 1)
        /\ Current.committed \in Seq(Clean)
        /\ \A d \in deferred :
             /\ d.closure \in 1 .. Len(closures')
             /\ d.generation <= closures'[d.closure].generation
             /\ Wanted(d)' => d.closure # Len(closures') /\ d.data \in Seq(Clean)
    BY <1>1, <2>2, NextGeneration
  <2> QED
    BY <2>1, <2>3
<1>6. /\ field' \in Fields(Piece) /\ ~field'.focused /\ field'.value = Current.committed
      /\ field'.since = field.since
  <2> DEFINE committed == Current.committed
  <2>1. committed \in Seq(Piece)
    BY <1>5, CleanArePieces, SeqGrows
  <2>2. field' = [field EXCEPT !.focused = FALSE, !.value = committed, !.edited = TRUE]
    BY <1>1
  <2> HIDE DEF committed
  <2>3. /\ field' \in Fields(Piece) /\ ~field'.focused /\ field'.value = committed
        /\ field'.since = field.since
    BY <1>2, <2>1, <2>2 DEF Fields
  <2> QED
    BY <2>3 DEF committed
<1>7. TextInv'
  BY <1>1, <1>3, <1>4, <1>5, <1>6 DEF RendererInv, TextInv
<1>8. StartInv'
  BY <1>1, <1>5 DEF RendererInv, StartInv, Alive
<1>9. FieldInv'
  BY <1>1, <1>4, <1>5, <1>6 DEF RendererInv, FieldInv
<1>10. DeferredInv'
  BY <1>1, <1>4, <1>5 DEF DeferredInv
<1> QED
  BY <1>7, <1>8, <1>9, <1>10 DEF RendererInv


(* The end of a composition schedules its commit; it is in the field no    *)
(* longer only if it was not accepted.                                     *)
LEMMA CompositionEndKeeps ==
  ASSUME RendererInv, NEW accepted \in BOOLEAN, CompositionEnd(accepted)
  PROVE  RendererInv'
<1> DEFINE data == IF accepted THEN <<field.ime>> ELSE <<>>
           new == [closure |-> Len(closures), generation |-> Current.generation, data |-> data]
           text == IF accepted THEN Composed ELSE Withdrawn
<1>1. /\ field.ime # 0 /\ screen = "canvas" /\ closures # <<>>
      /\ deferred' = deferred \cup {new}
      /\ UNCHANGED <<host, screen, exposed>>
  BY DEF CompositionEnd, RendererInv, FieldInv, StartInv
<1>2. /\ fates \in Seq(Fates) /\ field \in Fields(Piece) /\ closures \in Seq(Closures(Clean))
      /\ field.ime \in Piece /\ field.value \in Seq(Piece)
      /\ DOMAIN fates = 1 .. Len(fates) /\ \A n \in 1 .. Len(fates) : fates[n] \in Fates
  BY LenProperties, ElementOfSeq DEF RendererInv, TextInv, Fields
<1>3. Len(closures) \in 1 .. Len(closures) /\ Current \in Closures(Clean) /\ Current = closures[Len(closures)]
  <2>1. Len(closures) \in Nat \ {0}
    BY <1>1, <1>2, EmptySeq
  <2> QED
    BY <1>2, <2>1, ElementOfSeq DEF Current, Last
<1>4. field.ime \in DOMAIN fates
  BY <1>1, <1>2 DEF Piece, Typed
<1>5. /\ fates' \in Seq(Fates) /\ DOMAIN fates' = DOMAIN fates
      /\ \A n \in DOMAIN fates : fates'[n] = "committed" <=> fates[n] = "committed"
      /\ accepted => fates' = fates
  <2>1. CASE accepted \/ fates[field.ime] # "pending"
    <3>1. fates' = fates
      BY <2>1 DEF CompositionEnd
    <3> QED
      BY <1>2, <3>1
  <2>2. CASE ~(accepted \/ fates[field.ime] # "pending")
    <3>1. fates' = [fates EXCEPT ![field.ime] = "abandoned"]
      BY <2>2 DEF CompositionEnd
    <3>2. "abandoned" \in Fates
      BY DEF Fates
    <3>3. fates' \in Seq(Fates) /\ Len(fates') = Len(fates)
      BY <1>2, <1>4, <3>1, <3>2, ExceptSeq
    <3>4. DOMAIN fates' = DOMAIN fates
      BY <3>1
    <3> QED
      BY <1>4, <2>2, <3>1, <3>3, <3>4
  <2> QED
    BY <2>1, <2>2
<1>6. Clean' = Clean /\ Piece' = Piece
  BY <1>1, <1>5 DEF Clean, Piece
<1>7. /\ field' \in Fields(Piece) /\ field'.ime = 0 /\ field'.focused = field.focused
      /\ field'.since = field.since
      /\ ~Current.composing => field'.value \in Seq(Clean)
      /\ calls' \in Seq(Calls(Clean)) /\ closures' \in Seq(Closures(Clean))
      /\ Len(closures') = Len(closures)
      /\ \A k \in 1 .. Len(closures) :
           /\ closures'[k].composing = closures[k].composing
           /\ closures'[k].generation = closures[k].generation
      /\ \/ UNCHANGED calls
         \/ /\ Len(calls') = Len(calls) + 1
            /\ \A i \in 1 .. Len(calls) : calls'[i] = calls[i]
  <2>1. CASE /\ field.focused
             /\ field' = [field EXCEPT !.ime = 0, !.value = Bounded(text), !.edited = TRUE]
             /\ Changed(text, Current.composing)
    <3>1. text \in Seq(Piece) /\ (~Current.composing => text \in Seq(Clean))
      BY <1>1, <2>1, ComposedIn
    <3> DEFINE shown == Bounded(text)
    <3>2. shown \in Seq(Piece) /\ (~Current.composing => shown \in Seq(Clean))
      BY <3>1, BoundedKeeps
    <3>3. field' = [field EXCEPT !.ime = 0, !.value = shown, !.edited = TRUE]
      BY <2>1
    <3> HIDE DEF text, shown
    <3>4. 0 \in Piece
      BY DEF Piece, Typed
    <3>5. /\ field' \in Fields(Piece) /\ field'.ime = 0 /\ field'.focused = field.focused
          /\ field'.since = field.since /\ field'.value = shown
      BY <1>2, <3>2, <3>3, <3>4 DEF Fields
    <3>6. Changed(text, Current.composing)
      BY <2>1
    <3> QED
      BY <1>1, <3>1, <3>2, <3>5, <3>6, ChangedEffect
  <2>2. CASE field' = [field EXCEPT !.ime = 0] /\ UNCHANGED <<calls, closures>>
    <3>1. 0 \in Piece
      BY DEF Piece, Typed
    <3>2. /\ field' \in Fields(Piece) /\ field'.ime = 0 /\ field'.focused = field.focused
          /\ field'.since = field.since /\ field'.value = field.value
      BY <1>2, <2>2, <3>1 DEF Fields
    <3> QED
      BY <1>1, <2>2, <3>2 DEF RendererInv, FieldInv, TextInv
  <2> QED
    BY <2>1, <2>2 DEF CompositionEnd
<1>8. data \in Seq(Piece) /\ (Current.composing => data \in Seq(Hopeful'))
  <2>1. CASE accepted
    <3>1. Current.composing => field.ime \in Hopeful'
      BY <1>1, <1>4, <1>5, <2>1 DEF RendererInv, FieldInv, Hopeful
    <3>2. \A S : field.ime \in S => <<field.ime>> \in Seq(S)
      OBVIOUS
    <3> QED
      BY <1>2, <2>1, <3>1, <3>2
  <2>2. CASE ~accepted
    BY <2>2, EmptyIn
  <2> QED
    BY <2>1, <2>2
<1>9. new \in Deferreds(Piece) /\ new.closure = Len(closures) /\ new.generation = Current.generation
      /\ new.data = data
  BY <1>3, <1>8 DEF Deferreds, Closures
<1> HIDE DEF new, data, text
<1>10. TextInv'
  <2>1. ASSUME NEW d \in deferred'
        PROVE  /\ d \in Deferreds(Piece) /\ d.closure \in 1 .. Len(closures')
               /\ d.generation <= closures'[d.closure].generation
    <3>1. CASE d = new
      BY <1>3, <1>7, <1>9, <3>1 DEF Closures
    <3>2. CASE d \in deferred
      <4>1. /\ d \in Deferreds(Piece) /\ d.closure \in 1 .. Len(closures)
            /\ d.generation <= closures[d.closure].generation
        BY <3>2 DEF RendererInv, TextInv
      <4> QED
        BY <1>7, <4>1
    <3> QED
      BY <1>1, <2>1, <3>1, <3>2
  <2>2. host' \in Hosts(Clean')
    BY <1>1, <1>6 DEF RendererInv, TextInv
  <2> QED
    BY <1>5, <1>6, <1>7, <2>1, <2>2 DEF TextInv
<1>11. StartInv'
  BY <1>1, <1>7, GestureStart
<1>12. FieldInv'
  <2>1. Current'.composing = Current.composing
    BY <1>3, <1>7 DEF Current, Last
  <2> QED
    BY <1>1, <1>6, <1>7, <2>1 DEF RendererInv, FieldInv
<1>13. DeferredInv'
  <2> SUFFICES ASSUME NEW d \in deferred', Wanted(d)'
               PROVE  /\ d.closure = Len(closures') => d.data \in Seq(Hopeful')
                      /\ d.closure # Len(closures') => d.data \in Seq(Clean')
    BY <1>7 DEF DeferredInv
  <2>1. CASE d = new
    BY <1>3, <1>7, <1>8, <1>9, <2>1 DEF Wanted
  <2>2. CASE d \in deferred
    <3>1. d.closure \in 1 .. Len(closures)
      BY <2>2 DEF RendererInv, TextInv
    <3>2. Wanted(d)
      BY <1>7, <3>1 DEF Wanted
    <3> QED
      BY <1>1, <1>6, <1>7, <2>2, <3>2 DEF RendererInv, DeferredInv
  <2> QED
    BY <1>1, <2>1, <2>2
<1> QED
  BY <1>10, <1>11, <1>12, <1>13 DEF RendererInv


LEMMA RunDeferredKeeps ==
  ASSUME RendererInv, NEW d \in deferred, RunDeferred(d)
  PROVE  RendererInv'
<1>1. /\ deferred' = deferred \ {d} /\ UNCHANGED <<host, screen, exposed>>
  BY DEF RunDeferred
<1>2. /\ fates \in Seq(Fates) /\ field \in Fields(Piece) /\ closures \in Seq(Closures(Clean))
      /\ calls \in Seq(Calls(Clean)) /\ host \in Hosts(Clean) /\ deferred \subseteq Deferreds(Piece)
      /\ DOMAIN fates = 1 .. Len(fates) /\ \A n \in 1 .. Len(fates) : fates[n] \in Fates
  BY LenProperties, ElementOfSeq DEF RendererInv, TextInv
<1>3. /\ d.closure \in 1 .. Len(closures) /\ Len(closures) \in Nat
      /\ d.data \in Seq(Piece) /\ closures[d.closure] \in Closures(Clean)
  BY <1>2, LenProperties, ElementOfSeq DEF RendererInv, TextInv, Deferreds
<1>4. CASE ~Wanted(d)
  <2>1. UNCHANGED <<calls, field, closures, fates>>
    BY <1>4 DEF RunDeferred
  <2>2. Clean' = Clean /\ Piece' = Piece /\ Hopeful' = Hopeful
    BY <1>1, <2>1 DEF Clean, Piece, Hopeful
  <2>3. TextInv'
    BY <1>1, <2>1, <2>2 DEF RendererInv, TextInv
  <2>4. StartInv'
    BY <1>1, <2>1 DEF RendererInv, StartInv, Alive
  <2>5. FieldInv'
    BY <1>1, <2>1, <2>2 DEF RendererInv, FieldInv, Current, Last
  <2>6. DeferredInv'
    BY <1>1, <2>1, <2>2 DEF RendererInv, DeferredInv, Wanted
  <2> QED
    BY <2>3, <2>4, <2>5, <2>6 DEF RendererInv
<1>5. CASE Wanted(d)
  <2> DEFINE text == Bounded(closures[d.closure].committed \o d.data)
             next == Rendering(text, FALSE, d.generation)
  <2>1. /\ closures' = [closures EXCEPT ![d.closure] = next]
        /\ field' = IF screen = "canvas" /\ d.closure >= field.since
                    THEN [field EXCEPT !.value = text, !.edited = TRUE] ELSE field
        /\ fates' = [n \in DOMAIN fates |->
                       IF n \in ToSet(d.data) /\ fates[n] = "pending" THEN "committed" ELSE fates[n]]
        /\ Send("commit-canvas-text", text)
    BY <1>5 DEF RunDeferred
  <2>2. /\ fates' \in Seq(Fates) /\ DOMAIN fates' = DOMAIN fates
        /\ \A n \in DOMAIN fates :
             /\ fates[n] # "pending" => fates'[n] = fates[n]
             /\ n \in ToSet(d.data) /\ fates[n] = "pending" => fates'[n] = "committed"
             /\ fates[n] # "abandoned" => fates'[n] # "abandoned"
    <3>1. fates' \in [1 .. Len(fates) -> Fates]
      BY <1>2, <2>1 DEF Fates
    <3>2. Len(fates) \in Nat
      BY <1>2, LenProperties
    <3> QED
      BY <1>2, <2>1, <3>1, <3>2, SeqDef
  <2>3. Clean \subseteq Clean' /\ Piece' = Piece /\ Hopeful \subseteq Hopeful'
    BY <1>1, <2>2 DEF Clean, Piece, Hopeful
  <2>4. d.data \in Seq(Clean')
    <3>1. CASE d.data \in Seq(Clean)
      BY <2>3, <3>1, SeqGrows
    <3>2. CASE d.data \in Seq(Hopeful)
      <4>1. ASSUME NEW k \in 1 .. Len(d.data) PROVE d.data[k] \in Clean'
        <5> DEFINE n == d.data[k]
        <5>1. n \in Hopeful /\ n \in ToSet(d.data)
          BY <3>2, LenProperties, ElementOfSeq DEF ToSet
        <5>2. CASE n \in Clean
          BY <2>3, <5>2
        <5>3. CASE n \in DOMAIN fates /\ fates[n] # "abandoned"
          <6>1. fates[n] \in {"pending", "committed"}
            BY <1>2, <5>3 DEF Fates
          <6>2. fates'[n] = "committed"
            BY <2>2, <5>1, <5>3, <6>1
          <6> QED
            BY <2>2, <5>3, <6>2 DEF Clean
        <5> QED
          BY <5>1, <5>2, <5>3 DEF Hopeful
      <4> QED
        BY <3>2, <4>1, SeqIn
    <3> QED
      BY <1>5, <3>1, <3>2 DEF RendererInv, DeferredInv
  <2>5. text \in Seq(Clean')
    <3>1. closures[d.closure].committed \in Seq(Clean')
      BY <1>3, <2>3, SeqGrows DEF Closures
    <3>2. closures[d.closure].committed \o d.data \in Seq(Clean')
      BY <2>4, <3>1, ConcatProperties
    <3> QED
      BY <3>2, BoundedKeeps
  <2>6. d.generation \in Nat
    BY <1>2 DEF Deferreds
  <2>7. /\ closures[d.closure].generation = d.generation
        /\ next.generation = d.generation /\ next.composing = FALSE /\ next \in Closures(Clean')
    BY <1>5, <2>5, <2>6 DEF Wanted, Rendering, Closures
  <2> HIDE DEF text, next
  <2>8. /\ closures' \in Seq(Closures(Clean')) /\ Len(closures') = Len(closures)
        /\ \A k \in 1 .. Len(closures) : closures'[k] = IF k = d.closure THEN next ELSE closures[k]
        /\ closures' # <<>> /\ closures # <<>>
    <3>1. closures \in Seq(Closures(Clean'))
      BY <1>2, <2>3, Grows
    <3>2. /\ closures' \in Seq(Closures(Clean')) /\ Len(closures') = Len(closures)
          /\ \A k \in 1 .. Len(closures) : closures'[k] = IF k = d.closure THEN next ELSE closures[k]
      BY <1>3, <2>1, <2>7, <3>1, ExceptSeq
    <3>3. Len(closures) # 0
      BY <1>3
    <3> QED
      BY <3>1, <3>2, <3>3, EmptySeq
  <2>9. /\ calls' \in Seq(Calls(Clean')) /\ Len(calls') = Len(calls) + 1
        /\ \A i \in 1 .. Len(calls) : calls'[i] = calls[i]
    <3>1. calls \in Seq(Calls(Clean'))
      BY <1>2, <2>3, Grows
    <3>2. "commit-canvas-text" \in Ops
      BY DEF Ops
    <3> QED
      BY <2>1, <2>5, <3>1, <3>2, SendEffect
  <2>10. /\ field' \in Fields(Piece) /\ field'.since = field.since
         /\ field'.ime = field.ime /\ field'.focused = field.focused
         /\ \/ field'.value = text
            \/ field'.value = field.value /\ ~(screen = "canvas" /\ d.closure >= field.since)
    <3>1. text \in Seq(Piece)
      <4>1. Clean' \subseteq Piece
        BY <2>2 DEF Clean, Piece
      <4> QED
        BY <2>5, <4>1, SeqGrows
    <3>2. CASE screen = "canvas" /\ d.closure >= field.since
      BY <1>2, <2>1, <3>1, <3>2 DEF Fields
    <3>3. CASE ~(screen = "canvas" /\ d.closure >= field.since)
      BY <1>2, <2>1, <3>3
    <3> QED
      BY <3>2, <3>3
  <2>11. /\ Current'.composing => Current.composing /\ d.closure # Len(closures)
         /\ d.closure # Len(closures) => Current' = Current
    BY <1>3, <2>7, <2>8 DEF Current, Last
  <2>12. TextInv'
    <3>1. host' \in Hosts(Clean')
      BY <1>1, <1>2, <2>3, Grows
    <3>2. ASSUME NEW e \in deferred
          PROVE  e.closure \in 1 .. Len(closures') /\ e.generation <= closures'[e.closure].generation
      <4>1. e.closure \in 1 .. Len(closures) /\ e.generation <= closures[e.closure].generation
        BY DEF RendererInv, TextInv
      <4>2. closures'[e.closure].generation = closures[e.closure].generation
        BY <2>7, <2>8, <4>1
      <4> QED
        BY <2>8, <4>1, <4>2
    <3> QED
      BY <1>1, <1>2, <2>2, <2>3, <2>8, <2>9, <2>10, <3>1, <3>2 DEF TextInv
  <2>13. StartInv'
    <3>1. Alive
      BY <2>8 DEF RendererInv, StartInv
    <3> QED
      BY <1>1, <2>8, <2>9, <3>1, SendKeepsStart
  <2>14. FieldInv'
    <3> SUFFICES ASSUME screen = "canvas"
                 PROVE  /\ field.since <= Len(closures)
                        /\ ~Current'.composing => field'.value \in Seq(Clean')
                        /\ field.ime # 0 /\ Current'.composing => field.focused
                        /\ field.focused /\ field.ime # 0 =>
                             /\ fates'[field.ime] # "abandoned"
                             /\ ~Current'.composing => field.ime \in Clean'
      BY <1>1, <2>8, <2>10 DEF RendererInv, FieldInv
    <3>1. field.since <= Len(closures) /\ field.since \in Nat
      BY <1>2 DEF RendererInv, FieldInv, Fields
    <3>2. ASSUME ~Current'.composing PROVE field'.value \in Seq(Clean')
      <4>1. CASE field'.value = text
        BY <2>5, <4>1
      <4>2. CASE field'.value = field.value /\ d.closure < field.since
        <5>1. d.closure # Len(closures)
          BY <1>3, <3>1, <4>2
        <5>2. field.value \in Seq(Clean)
          BY <2>11, <3>2, <5>1 DEF RendererInv, FieldInv
        <5> QED
          BY <2>3, <4>2, <5>2, SeqGrows
      <4> QED
        BY <1>3, <2>10, <3>1, <4>1, <4>2
    <3>3. field.ime # 0 /\ Current'.composing => field.focused
      BY <2>11 DEF RendererInv, FieldInv
    <3>4. ASSUME field.focused, field.ime # 0
          PROVE  /\ fates'[field.ime] # "abandoned"
                 /\ ~Current'.composing => field.ime \in Clean'
      <4>1. field.ime \in DOMAIN fates /\ fates[field.ime] # "abandoned"
        BY <1>2, <3>4 DEF RendererInv, FieldInv, Fields, Piece, Typed
      <4>2. d.closure # Len(closures)
        BY <1>5, <3>4 DEF RendererInv, DeferredInv
      <4>3. ~Current'.composing => field.ime \in Clean
        BY <2>11, <3>4, <4>2 DEF RendererInv, FieldInv
      <4> QED
        BY <2>2, <2>3, <4>1, <4>3
    <3> QED
      BY <3>1, <3>2, <3>3, <3>4
  <2>15. DeferredInv'
    <3> SUFFICES ASSUME NEW e \in deferred, Wanted(e)'
                 PROVE  /\ e.closure = Len(closures) => field.ime = 0 /\ e.data \in Seq(Hopeful')
                        /\ e.closure # Len(closures) => e.data \in Seq(Clean')
      BY <1>1, <2>8, <2>10 DEF DeferredInv
    <3>1. e.closure \in 1 .. Len(closures)
      BY DEF RendererInv, TextInv
    <3>2. e.closure # d.closure /\ Wanted(e)
      BY <1>3, <2>7, <2>8, <3>1 DEF Wanted
    <3>3. /\ e.closure = Len(closures) => field.ime = 0 /\ e.data \in Seq(Hopeful)
          /\ e.closure # Len(closures) => e.data \in Seq(Clean)
      BY <3>2 DEF RendererInv, DeferredInv
    <3> QED
      BY <2>3, <3>3, SeqGrows
  <2> QED
    BY <2>12, <2>13, <2>14, <2>15 DEF RendererInv
<1> QED
  BY <1>4, <1>5

-----------------------------------------------------------------------------

LEMMA RendererInitEstablishes == RendererInit => RendererInv
<1> SUFFICES ASSUME RendererInit PROVE RendererInv
  OBVIOUS
<1> USE DEF RendererInit
<1>1. /\ <<>> \in Seq(Fates) /\ <<>> \in Seq(Calls(Clean)) /\ <<>> \in Seq(Closures(Clean))
      /\ <<>> \in Seq(Clean) /\ <<>> \in Seq(Piece)
      /\ Len(calls) = 0
  BY EmptySeq
<1>2. host \in Hosts(Clean)
  BY <1>1 DEF Hosts, Kinds
<1>3. field \in Fields(Piece) /\ ~field.focused /\ field.ime = 0
  BY <1>1 DEF Field, Fields, Piece, Typed
<1>4. TextInv
  BY <1>1, <1>2, <1>3 DEF TextInv
<1>5. StartInv
  BY <1>1 DEF StartInv, Alive
<1>6. FieldInv /\ DeferredInv
  BY <1>3 DEF FieldInv, DeferredInv
<1> QED
  BY <1>4, <1>5, <1>6 DEF RendererInv

LEMMA RendererNextKeeps == RendererInv /\ [RendererNext]_rendererVars => RendererInv'
<1> SUFFICES ASSUME RendererInv, [RendererNext]_rendererVars PROVE RendererInv'
  OBVIOUS
<1>1. CASE UNCHANGED rendererVars
  <2>1. UNCHANGED <<calls, host, screen, field, closures, deferred, fates, exposed>>
    BY <1>1 DEF rendererVars
  <2>2. calls' \in Seq(Calls(Clean)) /\ host' \in Hosts(Clean)
    BY <2>1 DEF RendererInv, TextInv
  <2>3. StartInv'
    BY <2>1 DEF RendererInv, StartInv, Alive
  <2> QED
    BY <2>1, <2>2, <2>3, CallsMove
<1>2. CASE AuthorityArrives
  BY <1>2, AuthorityArrivesKeeps
<1>3. CASE AuthorityMissing
  BY <1>3, AuthorityMissingKeeps
<1>4. CASE \E i \in DOMAIN calls : Execute(i) \/ Start(i) \/ RecoverView(i)
  BY <1>4, ExecuteKeeps, StartKeeps, RecoverViewKeeps
<1>5. CASE Press
  BY <1>5, PressKeeps
<1>6. CASE Focus
  BY <1>6, FocusKeeps
<1>7. CASE Type
  BY <1>7, TypeKeeps
<1>8. CASE CompositionStart
  BY <1>8, CompositionStartKeeps
<1>9. CASE CompositionUpdate
  BY <1>9, CompositionUpdateKeeps
<1>10. CASE CompositionEnds
  <2>1. PICK accepted \in BOOLEAN : CompositionEnd(accepted)
    BY <1>10 DEF CompositionEnds
  <2> QED
    BY <2>1, CompositionEndKeeps
<1>11. CASE Blur
  BY <1>11, BlurKeeps
<1>12. CASE \E d \in deferred : RunDeferred(d)
  BY <1>12, RunDeferredKeeps
<1> QED
  BY <1>1, <1>2, <1>3, <1>4, <1>5, <1>6, <1>7, <1>8, <1>9, <1>10, <1>11, <1>12 DEF RendererNext

(* The text of a composition that was cancelled, lost the focus or was     *)
(* followed by another one before its commit ran is sent to the host only  *)
(* when a view was presented while the composition was under way, waited   *)
(* for its commit or had its text in the field, for any number of requests *)
(* whose answers arrive in any order (canvasSurface).                      *)
THEOREM AbandonedTextNeverLeaves == RendererSpec => []AbandonedTextStaysLocal
<1>1. RendererInv => AbandonedTextStaysLocal
  <2> SUFFICES ASSUME RendererInv, NEW i \in DOMAIN calls, NEW n \in ToSet(calls[i].text),
                      n # Typed, fates[n] = "abandoned"
               PROVE  n \in exposed
    BY DEF AbandonedTextStaysLocal
  <2>1. calls \in Seq(Calls(Clean))
    BY DEF RendererInv, TextInv
  <2>2. calls[i].text \in Seq(Clean)
    <3>1. i \in 1 .. Len(calls)
      BY <2>1, LenProperties
    <3>2. calls[i] \in Calls(Clean)
      BY <2>1, <3>1, ElementOfSeq
    <3> QED
      BY <3>2 DEF Calls
  <2>3. n \in Clean
    <3>1. PICK k \in DOMAIN calls[i].text : n = calls[i].text[k]
      BY DEF ToSet
    <3>2. k \in 1 .. Len(calls[i].text)
      BY <2>2, <3>1, LenProperties
    <3> QED
      BY <2>2, <3>1, <3>2, ElementOfSeq
  <2> QED
    BY <2>3 DEF Clean
<1> QED
  BY <1>1, RendererInitEstablishes, RendererNextKeeps, PTL DEF RendererSpec

=============================================================================
