------------------------ MODULE QuoteAuthoringProofs ------------------------
(***************************************************************************)
(* AppliedAsMeant and PanelShowsTheForm for any families, conventions,     *)
(* drafts and any number of requests under way.                            *)
(*                                                                         *)
(* The argument: a request carries a generation and a token.  As long as   *)
(* its generation is the panel's, the form says what it said when it was   *)
(* sent, up to the family that the answer is checked against; as long as   *)
(* its token is the workspace's, nothing was selected or edited since.     *)
(*                                                                         *)
(* What the panel shows is not always what its form says: the form may     *)
(* have got another family, or the panel another target, before the effect *)
(* that clears the answers runs.  The invariant says what holds meanwhile: *)
(* an answer belongs to the form unless that effect is due, and a          *)
(* rendering belongs to what the effects last saw.                         *)
(***************************************************************************)
EXTENDS QuoteAuthoring, TLAPS

(* What the form says for a family.                                        *)
SaidFor(f) ==
  [family |-> f, lexeme |-> form.lexeme,
   convention |-> IF form.convention \in ToSet(Conventions[f]) THEN form.convention
                  ELSE Conventions[f][1]]

Counters == token \in Nat /\ generation \in Nat

TargetFollows == target # None => target.token \in 0 .. token

RequestHolds(r) ==
  /\ r.generation \in 0 .. generation
  /\ r.generation = generation => r.typed = SaidFor(r.typed.family)
  /\ r.token # None => r.token \in 0 .. token
  /\ r.token = token => r.aimed = Aimed

AuthoringInv == Counters /\ TargetFollows /\ \A r \in requests : RequestHolds(r)

LEMMA AuthoringInit == Init => AuthoringInv
  BY DEF Init, AuthoringInv, Counters, TargetFollows

LEMMA TypedIsSaid == Typed = SaidFor(ActiveFamily)
  BY DEF Typed, SaidFor, ActiveConvention, Active

(* A change of the workspace outdates every token.                         *)
LEMMA ReplaceStep ==
  ASSUME AuthoringInv, NEW next, NEW valid, NEW index, ReplaceSource(next, valid, index)
  PROVE  AuthoringInv' /\ token' # token
<1> USE DEF AuthoringInv, Counters, TargetFollows, ReplaceSource, panelVars
<1>1. Counters' /\ TargetFollows' /\ token' # token
  OBVIOUS
<1>2. ASSUME NEW r \in requests PROVE RequestHolds(r)'
  BY AuthoringAssumption DEF RequestHolds, SaidFor
<1> QED
  BY <1>1, <1>2

(* What a step of the workspace does to the panel and to the target.       *)
LEMMA WorkspaceCases ==
  ASSUME WorkspaceNext
  PROVE  \/ PublishTarget
         \/ \E next, valid, index : ReplaceSource(next, valid, index)
         \/ UNCHANGED <<draft, parses, selected, token, panelVars>>
<1>1. ASSUME NEW kind, NEW doc, Call(kind, doc)
      PROVE  UNCHANGED <<draft, parses, selected, token, panelVars>>
  BY <1>1 DEF Call
<1> USE DEF ReplaceDraft
<1>2. ASSUME NEW n, SaveReturns(n) \/ CallFails(n) \/ \E d : CloneReturns(n, d)
      PROVE  \/ \E next, valid, index : ReplaceSource(next, valid, index)
             \/ UNCHANGED <<draft, parses, selected, token, panelVars>>
  BY <1>2 DEF SaveReturns, CallFails, CloneReturns
<1>3. ASSUME NEW i, \/ SelectTarget(i) \/ EditQuote(i) \/ RemoveInstrument(i)
                    \/ EditFields(i) \/ RemoveDeclaration(i) \/ AddInstrument(i)
                    \/ EditSource(i) \/ SetBuildMode(i) \/ BreakSource
                    \/ \E f : SetInstrumentFamily(i, f)
      PROVE  \E next, valid, index : ReplaceSource(next, valid, index)
  BY <1>3 DEF SelectTarget, EditQuote, RemoveInstrument, EditFields, RemoveDeclaration,
     AddInstrument, EditSource, SetBuildMode, BreakSource, SetInstrumentFamily
<1> QED
  BY <1>1, <1>2, <1>3 DEF WorkspaceNext, Save, Clone

LEMMA WorkspaceStep ==
  ASSUME AuthoringInv, WorkspaceNext
  PROVE  AuthoringInv' /\ (token' = token => draft' = draft)
<1>1. CASE UNCHANGED <<draft, parses, selected, token, panelVars>>
  BY <1>1 DEF panelVars, AuthoringInv, Counters, TargetFollows, RequestHolds, SaidFor, Aimed,
              SelectedFamily
<1>2. CASE PublishTarget
  BY <1>2 DEF PublishTarget, workspaceVars, CurrentTarget, AuthoringInv, Counters, TargetFollows,
              RequestHolds, SaidFor, Aimed, SelectedFamily
<1>3. ASSUME NEW next, NEW valid, NEW index, ReplaceSource(next, valid, index)
      PROVE  AuthoringInv' /\ (token' = token => draft' = draft)
  BY <1>3, ReplaceStep
<1> QED
  BY <1>1, <1>2, <1>3, WorkspaceCases

(* A new generation outdates every request.                                *)
LEMMA NewGeneration ==
  ASSUME AuthoringInv, generation' = generation + 1, requests' = requests,
         UNCHANGED <<workspaceVars, target>>
  PROVE  AuthoringInv'
<1> USE DEF AuthoringInv, Counters, TargetFollows, workspaceVars
<1>1. ASSUME NEW r \in requests PROVE RequestHolds(r)'
  BY DEF RequestHolds, Aimed, SelectedFamily
<1> QED
  BY <1>1

LEMMA SubmitStep ==
  ASSUME AuthoringInv, Submit
  PROVE  AuthoringInv'
<1> USE DEF AuthoringInv, Counters, TargetFollows, Submit, workspaceVars
<1>0. PICK q : q = [generation |-> generation + 1, token |-> TargetToken,
                    typed |-> Typed, aimed |-> Aimed]
  OBVIOUS
<1>1. ASSUME NEW r \in requests PROVE RequestHolds(r)'
  BY DEF RequestHolds, Aimed, SelectedFamily
<1>2. RequestHolds(q)'
  <2>1. /\ q.typed = SaidFor(q.typed.family) /\ SaidFor(q.typed.family)' = SaidFor(q.typed.family)
        /\ q.generation = generation + 1 /\ q.token = TargetToken /\ q.aimed = Aimed
    BY <1>0, TypedIsSaid DEF SaidFor
  <2>2. TargetToken # None => TargetToken \in 0 .. token
    BY DEF TargetToken
  <2>3. Aimed' = Aimed
    BY DEF Aimed, SelectedFamily
  <2> QED
    BY <2>1, <2>2, <2>3 DEF RequestHolds
<1> QED
  BY <1>0, <1>1, <1>2

(* Only an answer to the latest request, for the target it was asked for,  *)
(* changes the draft.                                                      *)
LEMMA AnswerStep ==
  ASSUME AuthoringInv, NEW r \in requests, Answer(r)
  PROVE  /\ AuthoringInv'
         /\ draft' # draft =>
              /\ r \in requests \ requests'
              /\ r.generation = generation /\ r.typed = Typed /\ r.aimed = Aimed
              /\ draft' = [draft EXCEPT ![selected].quote = r.typed]
<1> USE DEF AuthoringInv, Counters, TargetFollows, Answer
<1>1. CASE draft' = draft
  BY <1>1 DEF RequestHolds, SaidFor, Aimed, SelectedFamily
<1>2. CASE Applied(r)
  <2>1. r.generation = generation /\ r.typed.family = ActiveFamily /\ r.token = token
    BY <1>2 DEF Applied, RequestIsCurrent, CanApply
  <2>2. r.typed = Typed /\ r.aimed = Aimed
    BY <2>1, TypedIsSaid DEF RequestHolds
  <2>3. selected \in DOMAIN draft
    BY <1>2, AuthoringAssumption DEF Applied, CanApply, SelectedFamily
  <2>4. draft' = [draft EXCEPT ![selected].quote = r.typed]
    BY <1>2 DEF Applied
  <2>5. /\ DOMAIN draft' = DOMAIN draft
        /\ draft'[selected] = [draft[selected] EXCEPT !.quote = r.typed]
    BY <2>3, <2>4
  <2>6. /\ draft'[selected].family = draft[selected].family
        /\ draft'[selected].id = draft[selected].id
        /\ draft'[selected].edits = draft[selected].edits
    BY <2>5
  <2>7. Aimed' = Aimed
    BY <2>3, <2>5, <2>6 DEF Aimed, SelectedFamily
  <2>8. ASSUME NEW s \in requests PROVE RequestHolds(s)'
    BY <2>7 DEF RequestHolds, SaidFor
  <2> QED
    BY <2>1, <2>2, <2>4, <2>8
<1> QED
  BY <1>1, <1>2 DEF Superseded, Refused, Failed

LEMMA PanelStep ==
  ASSUME AuthoringInv, PanelNext, ~ \E r \in requests : Answer(r)
  PROVE  AuthoringInv' /\ draft' = draft
<1>1. ASSUME NEW next, Input(next) PROVE AuthoringInv' /\ draft' = draft
  BY <1>1, NewGeneration DEF Input, Invalidate, workspaceVars
<1>2. ASSUME NEW c, NEW n, ChooseDisplay(c, n) PROVE AuthoringInv' /\ draft' = draft
  <2>1. form'.lexeme = form.lexeme /\ form'.convention = form.convention
    BY <1>2 DEF ChooseDisplay
  <2>2. ASSUME NEW r \in requests PROVE RequestHolds(r)'
    BY <1>2, <2>1 DEF ChooseDisplay, AuthoringInv, RequestHolds, SaidFor, Aimed, SelectedFamily,
                      workspaceVars
  <2> QED
    BY <1>2, <2>2 DEF ChooseDisplay, AuthoringInv, Counters, TargetFollows, workspaceVars
<1>3. CASE Submit
  BY <1>3, SubmitStep DEF Submit, workspaceVars
<1>4. CASE RunEffects
  <2>1. CASE TargetMoved
    BY <1>4, <2>1, NewGeneration DEF RunEffects, InvalidationEffects, Invalidate, workspaceVars
  <2>2. CASE ~TargetMoved
    BY <1>4, <2>2 DEF RunEffects, InvalidationEffects, TargetMoved, FamilyEffect, workspaceVars,
       AuthoringInv, Counters, TargetFollows, RequestHolds, SaidFor, Aimed, SelectedFamily
  <2> QED
    BY <2>1, <2>2
<1>5. ASSUME NEW q, RenderReturns(q) \/ RenderFails(q) PROVE AuthoringInv' /\ draft' = draft
  BY <1>5 DEF RenderReturns, RenderFails, RenderEnds, workspaceVars,
     AuthoringInv, Counters, TargetFollows, RequestHolds, SaidFor, Aimed, SelectedFamily
<1> QED
  BY <1>1, <1>2, <1>3, <1>4, <1>5 DEF PanelNext, TypeLexeme, ChooseConvention

LEMMA StutterStep == AuthoringInv /\ UNCHANGED vars => AuthoringInv' /\ draft' = draft
  BY DEF vars, workspaceVars, panelVars, AuthoringInv, Counters, TargetFollows, RequestHolds,
         SaidFor, Aimed, SelectedFamily

(* What is applied to the draft is what the user meant, whatever answers   *)
(* are on their way and however late they come.                            *)
THEOREM AnswersApplyAsMeant == Spec => AppliedAsMeant
<1> DEFINE Meant ==
      draft' # draft /\ token' = token =>
       \E r \in requests \ requests' :
         /\ r.generation = generation
         /\ r.typed = Typed
         /\ r.aimed = Aimed
         /\ draft' = [draft EXCEPT ![selected].quote = r.typed]
<1>1. AuthoringInv /\ [Next]_vars => AuthoringInv' /\ Meant
  BY WorkspaceStep, PanelStep, AnswerStep, StutterStep DEF Next
<1>2. AuthoringInv /\ [Next]_vars => AuthoringInv'
  BY <1>1
<1>3. AuthoringInv /\ [Next]_vars => [Meant]_vars
  BY <1>1
<1> HIDE DEF Meant
<1>4. Spec => [][Meant]_vars
  BY <1>2, <1>3, AuthoringInit, PTL DEF Spec
<1> QED
  BY <1>4 DEF Meant, AppliedAsMeant

-----------------------------------------------------------------------------
(* What the panel shows.                                                   *)

(* Unless an invalidation is due, the answers shown are the form's and the *)
(* answer waited for is on its way.                                        *)
AnswersShown ==
  ~TargetMoved =>
    /\ canonical \in {None, Typed}
    /\ error \in {None, Typed}
    /\ submitting => \E r \in requests : RequestIsCurrent(r)

(* A rendering, there or under way, or its error, is of what the effects   *)
(* last saw, and only a quote is rendered.  There is one request for each  *)
(* generation, so that a rendering and an error never meet.                *)
RenderHolds(q) ==
  /\ q.generation \in 0 .. renderGeneration
  /\ q.generation = renderGeneration =>
       q.shown = seen.shown /\ rendered = None /\ renderingError = None
  /\ q.shown[2] # None

RenderingsFollow ==
  /\ renderGeneration \in Nat
  /\ rendered # None => rendered = seen.shown /\ seen.shown[2] # None /\ renderingError = None
  /\ renderingError \in {None, seen.shown}
  /\ \A q \in renders : RenderHolds(q)
  /\ \A p, q \in renders : p.generation = q.generation => p = q

PanelInv == AuthoringInv /\ AnswersShown /\ RenderingsFollow

LEMMA PanelInit == Init => PanelInv
  BY AuthoringInit DEF Init, PanelInv, AnswersShown, RenderingsFollow

LEMMA PanelTells == PanelInv => PanelShowsTheForm
<1> SUFFICES ASSUME PanelInv, EffectsRan PROVE PanelShowsTheForm
  BY DEF PanelShowsTheForm
<1>1. ~TargetMoved /\ seen.shown = <<Display, canonical>>
  BY DEF EffectsRan, TargetMoved, Dependencies
<1>2. /\ rendered # None =>
            rendered = <<Display, canonical>> /\ canonical # None /\ renderingError = None
      /\ renderingError \in {None, <<Display, canonical>>}
  BY <1>1 DEF PanelInv, RenderingsFollow
<1> QED
  BY <1>1, <1>2 DEF PanelInv, AnswersShown, PanelShowsTheForm

(* The same target and the same form say the same.                         *)
LEMMA SaidAlike ==
  ASSUME TargetToken' = TargetToken, TargetFamily' = TargetFamily,
         form'.family = form.family, form'.lexeme = form.lexeme,
         form'.convention = form.convention
  PROVE  Typed' = Typed /\ ActiveFamily' = ActiveFamily
  BY DEF Typed, ActiveFamily, ActiveConvention, Active

LEMMA MovedAlike ==
  ASSUME UNCHANGED seen, ~TargetMoved, ~TargetMoved'
  PROVE  TargetToken' = TargetToken /\ TargetFamily' = TargetFamily /\ form'.family = form.family
  BY DEF TargetMoved, Dependencies

(* A step that leaves the answers, the requests and the effects alone, and *)
(* of the form at most the family or the display.                          *)
LEMMA AnswersStay ==
  ASSUME AnswersShown,
         UNCHANGED <<shownVars, generation, seen, requests>>,
         form'.lexeme = form.lexeme, form'.convention = form.convention,
         TargetMoved' \/ ~TargetMoved
  PROVE  AnswersShown'
<1> SUFFICES ASSUME ~TargetMoved' PROVE AnswersShown'
  BY DEF AnswersShown
<1>1. TargetToken' = TargetToken /\ Typed' = Typed /\ ActiveFamily' = ActiveFamily
  BY MovedAlike, SaidAlike
<1>2. ASSUME NEW r \in requests PROVE RequestIsCurrent(r)' <=> RequestIsCurrent(r)
  BY <1>1 DEF RequestIsCurrent
<1> QED
  BY <1>1, <1>2 DEF AnswersShown, shownVars

LEMMA RenderingsStay ==
  ASSUME RenderingsFollow, UNCHANGED <<displayVars, seen>>
  PROVE  RenderingsFollow'
  BY DEF RenderingsFollow, RenderHolds, displayVars

LEMMA WorkspaceShows ==
  ASSUME PanelInv, WorkspaceNext
  PROVE  AnswersShown' /\ RenderingsFollow'
<1>1. ASSUME NEW next, NEW valid, NEW index, ReplaceSource(next, valid, index)
      PROVE  UNCHANGED panelVars
  BY <1>1 DEF ReplaceSource
<1>2. CASE PublishTarget
  <2>1. ~TargetMoved
    BY <1>2 DEF PublishTarget, EffectsRan, TargetMoved
  <2> QED
    BY <1>2, <2>1, AnswersStay, RenderingsStay DEF PublishTarget, PanelInv
<1>3. CASE UNCHANGED panelVars
  <2>1. TargetMoved' <=> TargetMoved
    BY <1>3 DEF panelVars, TargetMoved, Dependencies, TargetToken, TargetFamily, shownVars
  <2> QED
    BY <1>3, <2>1, AnswersStay, RenderingsStay DEF PanelInv, panelVars
<1> QED
  BY <1>1, <1>2, <1>3, WorkspaceCases

(* Typing and an effect that is due take every answer off the panel.       *)
LEMMA InvalidateShows == Invalidate => AnswersShown'
  BY DEF Invalidate, AnswersShown

LEMMA SubmitShows ==
  ASSUME PanelInv, Submit
  PROVE  AnswersShown' /\ RenderingsFollow'
<1>1. RenderingsFollow'
  BY RenderingsStay DEF Submit, PanelInv
<1>2. /\ TargetMoved' <=> TargetMoved
      /\ TargetToken' = TargetToken /\ TargetFamily' = TargetFamily
  BY DEF Submit, TargetMoved, Dependencies, TargetToken, TargetFamily
<1>3. Typed' = Typed /\ ActiveFamily' = ActiveFamily
  BY <1>2, SaidAlike DEF Submit
<1>4. PICK q : q = [generation |-> generation + 1, token |-> TargetToken,
                    typed |-> Typed, aimed |-> Aimed]
  OBVIOUS
<1>5. q \in requests' /\ q.generation = generation' /\ q.token = TargetToken
  BY <1>4 DEF Submit
<1>6. q.typed.family = ActiveFamily
  BY <1>4 DEF Typed
<1>7. RequestIsCurrent(q)'
  BY <1>2, <1>3, <1>5, <1>6 DEF RequestIsCurrent
<1> QED
  BY <1>1, <1>2, <1>3, <1>5, <1>7 DEF Submit, PanelInv, AnswersShown

LEMMA AnswerShows ==
  ASSUME PanelInv, NEW r \in requests, Answer(r)
  PROVE  AnswersShown' /\ RenderingsFollow'
<1>1. RenderingsFollow'
  BY RenderingsStay DEF Answer, PanelInv
<1>2. /\ TargetMoved' <=> TargetMoved
      /\ TargetToken' = TargetToken /\ TargetFamily' = TargetFamily
  BY DEF Answer, TargetMoved, Dependencies, TargetToken, TargetFamily
<1>3. Typed' = Typed /\ ActiveFamily' = ActiveFamily
  BY <1>2, SaidAlike DEF Answer
<1>4. RequestIsCurrent(r) => r.typed = Typed
  BY TypedIsSaid DEF RequestIsCurrent, PanelInv, AuthoringInv, RequestHolds
<1>5. ASSUME NEW s \in requests', RequestIsCurrent(s) PROVE RequestIsCurrent(s)'
  BY <1>2, <1>3, <1>5 DEF RequestIsCurrent, Answer
<1>6. ASSUME Superseded(r) PROVE AnswersShown'
  BY <1>2, <1>3, <1>5, <1>6 DEF Superseded, Answer, PanelInv, AnswersShown, shownVars
<1>7. ASSUME Refused(r) PROVE AnswersShown'
  BY <1>2, <1>3, <1>7 DEF Refused, PanelInv, AnswersShown
<1>8. ASSUME Applied(r) PROVE AnswersShown'
  BY <1>2, <1>3, <1>4, <1>8 DEF Applied, PanelInv, AnswersShown
<1>9. ASSUME Failed(r) PROVE AnswersShown'
  BY <1>2, <1>3, <1>4, <1>9 DEF Failed, PanelInv, AnswersShown
<1> QED
  BY <1>1, <1>6, <1>7, <1>8, <1>9 DEF Answer

LEMMA EffectsShow ==
  ASSUME PanelInv, RunEffects
  PROVE  AnswersShown' /\ RenderingsFollow'
<1>1. AnswersShown'
  <2>1. CASE TargetMoved
    BY <2>1, InvalidateShows DEF RunEffects, InvalidationEffects
  <2>2. CASE ~TargetMoved
    <3>1. UNCHANGED <<form, target, shownVars, generation, requests>>
      BY <2>2 DEF RunEffects, InvalidationEffects, FamilyEffect, TargetMoved
    <3>2. TargetToken' = TargetToken /\ TargetFamily' = TargetFamily
      BY <3>1 DEF TargetToken, TargetFamily
    <3>3. Typed' = Typed /\ ActiveFamily' = ActiveFamily
      BY <3>1, <3>2, SaidAlike
    <3>4. ASSUME NEW s \in requests, RequestIsCurrent(s) PROVE RequestIsCurrent(s)'
      BY <3>1, <3>2, <3>3, <3>4 DEF RequestIsCurrent
    <3> QED
      BY <2>2, <3>1, <3>3, <3>4 DEF PanelInv, AnswersShown, shownVars
  <2> QED
    BY <2>1, <2>2
<1>2. seen'.shown = Dependencies.shown /\ Dependencies.shown = <<Display, canonical>>
  BY DEF RunEffects, Dependencies
<1>3. ASSUME seen.shown = Dependencies.shown PROVE RenderingsFollow'
  BY <1>2, <1>3 DEF RunEffects, RenderEffect, PanelInv, RenderingsFollow, RenderHolds, displayVars
<1>4. ASSUME seen.shown # Dependencies.shown PROVE RenderingsFollow'
  <2>1. /\ renderGeneration \in Nat /\ renderGeneration' = renderGeneration + 1
        /\ rendered' = None /\ renderingError' = None
        /\ renders' = IF canonical = None THEN renders
                      ELSE renders \cup {[generation |-> renderGeneration + 1,
                                          shown |-> Dependencies.shown]}
    BY <1>4 DEF RunEffects, RenderEffect, PanelInv, RenderingsFollow
  <2>2. ASSUME NEW q \in renders PROVE RenderHolds(q)'
    BY <2>1 DEF PanelInv, RenderingsFollow, RenderHolds
  <2>3. PICK q : q = [generation |-> renderGeneration + 1, shown |-> Dependencies.shown]
    OBVIOUS
  <2>4. q.generation = renderGeneration + 1 /\ q.shown = Dependencies.shown
    BY <2>3
  <2>5. canonical # None => RenderHolds(q)'
    BY <1>2, <2>1, <2>4 DEF RenderHolds
  <2>6. ASSUME NEW p \in renders PROVE p.generation # renderGeneration + 1
    BY <2>1 DEF PanelInv, RenderingsFollow, RenderHolds
  <2>7. \A p1, p2 \in renders' : p1.generation = p2.generation => p1 = p2
    BY <2>1, <2>3, <2>4, <2>6 DEF PanelInv, RenderingsFollow
  <2> QED
    BY <2>1, <2>2, <2>3, <2>5, <2>7 DEF RenderingsFollow
<1> QED
  BY <1>1, <1>3, <1>4

LEMMA RenderingShows ==
  ASSUME PanelInv, NEW q \in renders, RenderReturns(q) \/ RenderFails(q)
  PROVE  AnswersShown' /\ RenderingsFollow'
<1> USE DEF RenderEnds
<1>0. RenderEnds(q) /\ UNCHANGED <<target, form, shownVars, generation, seen, requests>>
  BY DEF RenderReturns, RenderFails
<1>1. TargetMoved' <=> TargetMoved
  BY <1>0 DEF TargetMoved, Dependencies, TargetToken, TargetFamily, shownVars
<1>2. AnswersShown'
  BY <1>0, <1>1, AnswersStay DEF PanelInv
<1>3. /\ RenderHolds(q) /\ seen' = seen /\ renderGeneration' = renderGeneration
      /\ \A p \in renders' : p \in renders /\ p.generation # q.generation
  BY <1>0 DEF PanelInv, RenderingsFollow
<1>4. CASE RenderReturns(q)
  BY <1>2, <1>3, <1>4 DEF RenderReturns, Latest, PanelInv, RenderingsFollow, RenderHolds
<1>5. CASE RenderFails(q)
  BY <1>2, <1>3, <1>5 DEF RenderFails, Latest, PanelInv, RenderingsFollow, RenderHolds
<1> QED
  BY <1>4, <1>5

LEMMA PanelShows ==
  ASSUME PanelInv, PanelNext
  PROVE  AnswersShown' /\ RenderingsFollow'
<1>1. ASSUME NEW next, Input(next) PROVE AnswersShown' /\ RenderingsFollow'
  BY <1>1, InvalidateShows, RenderingsStay DEF Input, PanelInv
<1>2. ASSUME NEW c, NEW n, ChooseDisplay(c, n) PROVE AnswersShown' /\ RenderingsFollow'
  <2>1. /\ form'.lexeme = form.lexeme /\ form'.convention = form.convention
        /\ form'.family = form.family
    BY <1>2 DEF ChooseDisplay
  <2>2. TargetMoved' <=> TargetMoved
    BY <1>2, <2>1 DEF ChooseDisplay, TargetMoved, Dependencies, TargetToken, TargetFamily
  <2> QED
    BY <1>2, <2>1, <2>2, AnswersStay, RenderingsStay DEF ChooseDisplay, PanelInv
<1> QED
  BY <1>1, <1>2, SubmitShows, AnswerShows, EffectsShow, RenderingShows
     DEF PanelNext, TypeLexeme, ChooseConvention

LEMMA PanelStutters ==
  ASSUME PanelInv, UNCHANGED vars
  PROVE  AnswersShown' /\ RenderingsFollow'
<1> USE DEF vars, panelVars
<1>1. TargetMoved' <=> TargetMoved
  BY DEF TargetMoved, Dependencies, TargetToken, TargetFamily, shownVars
<1> QED
  BY <1>1, AnswersStay, RenderingsStay DEF PanelInv

(* Whatever the order of answers, effects and inputs, a panel whose        *)
(* effects have run shows what its form says, and waits only for an answer *)
(* that is on its way.                                                     *)
THEOREM PanelIsTruthful == Spec => []PanelShowsTheForm
<1>1. PanelInv /\ [Next]_vars => PanelInv'
  BY WorkspaceStep, PanelStep, AnswerStep, StutterStep, WorkspaceShows, PanelShows, PanelStutters
     DEF Next, PanelInv
<1> QED
  BY <1>1, PanelInit, PanelTells, PTL DEF Spec
=============================================================================
