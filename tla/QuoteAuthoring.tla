--------------------------- MODULE QuoteAuthoring ---------------------------
(* Quote authoring in the browser (Curves.tsx): the workspace owns a draft    *)
(* and the instrument selected in it; the authoring panel owns a form, sends  *)
(* what was typed to the server and hands the canonical answer back to the    *)
(* workspace.  Answers arrive in any order, and three clocks decide which of  *)
(* them still counts: the panel's generation, the target token of the         *)
(* workspace, and the target the panel was last rendered with, which lags     *)
(* behind the workspace because it travels through an effect.                 *)
(*                                                                            *)
(* A render follows its state update at once; effects run later, as steps of  *)
(* their own.  A canonical quote is the request it answers: its digits are    *)
(* the server's.                                                              *)
EXTENDS Naturals, FiniteSets, Sequences, SequencesExt

CONSTANTS
  None,
  Families,       \* instrument families
  Conventions,    \* family -> its conventions, of input and display, the default first
  Lexemes,        \* what a user may type
  Scales,         \* display scales
  DefaultForm,    \* the form before anything is typed
  DefaultDraft,   \* DEFAULT_DRAFT, the document the workspace opens with
  Documents,      \* documents that the JSON editor or a clone may bring in
  Topologies,     \* the instruments of each build mode
  MaxToken,       \* bound: changes of the workspace
  MaxGeneration,  \* bound: generations a user may start
  MaxRenders,     \* bound: display requests
  MaxInFlight,    \* bound: canonicalisations under way
  MaxCalls        \* bound: saves and clones under way

ASSUME AuthoringAssumption ==
  /\ None \notin Families \cup Nat
  /\ DOMAIN Conventions = Families
  /\ \A f \in Families : Conventions[f] # <<>>

VARIABLES
  draft,      \* the instruments the page shows, [id, family, edits, quote]; quote is
              \* None unless authored, edits a history variable
  parses,     \* whether the source they are shown from parses
  selected,   \* the selected index, 0 for none
  token,      \* canonicalTargetToken
  calls,      \* saves and clones on their way: [kind, doc]
  target,     \* the panel's props: [family, token], None without a target
  form,       \* [family, convention, lexeme, display, scale]
  canonical, error, submitting,   \* what the panel shows of the answer
  rendered, renderingError,       \* and of its rendering
  generation, renderGeneration,
  seen,       \* the dependencies the panel's effects last ran with
  requests,   \* canonicalisations under way
  renders     \* display requests under way

workspaceVars == <<draft, parses, selected, token, calls>>
shownVars == <<canonical, error, submitting>>
displayVars == <<rendered, renderingError, renderGeneration, renders>>
panelVars == <<target, form, shownVars, displayVars, generation, seen, requests>>
vars == <<workspaceVars, panelVars>>

-----------------------------------------------------------------------------
(* The workspace.                                                           *)

(* Every change of the source or of the selection starts a new target.  A   *)
(* source that does not parse shows as the default document, and the next   *)
(* edit of what is shown replaces it.                                       *)
ReplaceSource(next, valid, index) ==
  /\ token < MaxToken
  /\ token' = token + 1
  /\ draft' = next
  /\ parses' = valid
  /\ selected' = index
  /\ UNCHANGED panelVars

ReplaceDraft(next, index) == ReplaceSource(next, TRUE, index)

SelectTarget(i) == i # selected /\ ReplaceSource(draft, parses, i) /\ UNCHANGED calls

(* An edit of the instruments K that leaves their quotes alone: any field   *)
(* of one, the key of their declaration, or of none a field of the document.*)
EditFields(K) ==
  /\ ReplaceDraft([i \in DOMAIN draft |->
                     IF i \in K THEN [draft[i] EXCEPT !.edits = @ + 1] ELSE draft[i]], selected)
  /\ UNCHANGED calls

EditQuote(i) ==
  /\ ReplaceDraft([draft EXCEPT ![i].edits = @ + 1, ![i].quote = None], selected)
  /\ UNCHANGED calls

SetInstrumentFamily(i, f) ==
  /\ draft[i].family # f
  /\ ReplaceDraft([draft EXCEPT ![i].family = f, ![i].edits = @ + 1, ![i].quote = None], selected)
  /\ UNCHANGED calls

(* A copy of the last instrument, of a family of its own for a declaration. *)
AddInstrument(f) ==
  /\ ReplaceDraft(Append(draft, [id |-> <<"added", token>>, family |-> f, edits |-> 0,
                                  quote |-> None]), selected)
  /\ UNCHANGED calls

RemoveInstrument(i) ==
  /\ Len(draft) # 1
  /\ ReplaceDraft(RemoveAt(draft, i),
                  CASE i = selected -> 0 [] i < selected -> selected - 1 [] OTHER -> selected)
  /\ UNCHANGED calls

(* A declaration goes with the instruments K that carry its key.            *)
RemoveDeclaration(K) ==
  /\ ReplaceDraft(SelectSeq(draft, LAMBDA x : x \notin K), 0)
  /\ UNCHANGED calls

(* The JSON editor takes any text and keeps the selected index; a mode      *)
(* brings its own instruments and drops it.                                 *)
EditSource(d) == d # draft /\ ReplaceDraft(d, selected) /\ UNCHANGED calls
BreakSource == ReplaceSource(DefaultDraft, FALSE, selected) /\ UNCHANGED calls
SetBuildMode(d) == ReplaceDraft(d, 0) /\ UNCHANGED calls

(* Saving (also creating a draft, and saving before a build) sends the      *)
(* parsed source and adopts the server's copy on return, whatever was       *)
(* edited in between; a clone brings a document of its own.  The buttons of *)
(* a clone, an export and an archive do not look at busy, and the end of    *)
(* each clears it, so that calls overlap and return in any order.           *)
Call(kind, doc) ==
  /\ Len(calls) < MaxCalls /\ token < MaxToken
  /\ calls' = Append(calls, [kind |-> kind, doc |-> doc])
  /\ UNCHANGED <<draft, parses, selected, token, panelVars>>

Save == parses /\ Call("save", draft)
Clone == Call("clone", None)

SaveReturns(n) ==
  /\ calls[n].kind = "save"
  /\ ReplaceDraft(calls[n].doc, selected)
  /\ calls' = RemoveAt(calls, n)

CloneReturns(n, d) ==
  /\ calls[n].kind = "clone"
  /\ ReplaceDraft(d, 0)
  /\ calls' = RemoveAt(calls, n)

CallFails(n) ==
  /\ calls' = RemoveAt(calls, n)
  /\ UNCHANGED <<draft, parses, selected, token, panelVars>>

(* The family of the selected instrument, if it is one the page knows.      *)
SelectedFamily ==
  IF selected \in DOMAIN draft /\ draft[selected].family \in Families
    THEN draft[selected].family ELSE None

(* The effect that tells the page, and through it the panel, of the target. *)
CurrentTarget ==
  IF SelectedFamily = None THEN None ELSE [family |-> SelectedFamily, token |-> token]

TargetFamily == IF target = None THEN None ELSE target.family
TargetToken == IF target = None THEN None ELSE target.token

ActiveFamily == IF TargetFamily = None THEN form.family ELSE TargetFamily

(* A convention that the family does not have gives way to its default.     *)
Active(c) == IF c \in ToSet(Conventions[ActiveFamily]) THEN c ELSE Conventions[ActiveFamily][1]
ActiveConvention == Active(form.convention)

Display == <<Active(form.display), form.scale>>

(* What the effects of the panel depend on.  They run before the panel is   *)
(* rendered again with another target, input or display.                    *)
Dependencies ==
  [token |-> TargetToken, families |-> <<form.family, TargetFamily>>,
   shown |-> <<Display, canonical>>]

EffectsRan == seen = Dependencies

PublishTarget ==
  /\ EffectsRan
  /\ target # CurrentTarget
  /\ target' = CurrentTarget
  /\ UNCHANGED <<workspaceVars, form, shownVars, displayVars, generation, seen, requests>>

-----------------------------------------------------------------------------
(* The panel.                                                               *)

Typed == [family |-> ActiveFamily, lexeme |-> form.lexeme, convention |-> ActiveConvention]

Invalidate ==
  /\ generation' = generation + 1
  /\ submitting' = FALSE
  /\ canonical' = None
  /\ error' = None

Input(next) ==
  /\ EffectsRan /\ next # form
  /\ generation < MaxGeneration
  /\ form' = next
  /\ Invalidate
  /\ UNCHANGED <<workspaceVars, target, displayVars, seen, requests>>

TypeLexeme(l) == Input([form EXCEPT !.lexeme = l])
ChooseConvention(c) ==
  c \in ToSet(Conventions[ActiveFamily]) /\ Input([form EXCEPT !.convention = c])

ChooseDisplay(c, n) ==
  /\ EffectsRan /\ <<form.display, form.scale>> # <<c, n>>
  /\ c \in ToSet(Conventions[ActiveFamily])
  /\ renderGeneration < MaxRenders
  /\ form' = [form EXCEPT !.display = c, !.scale = n]
  /\ UNCHANGED <<workspaceVars, target, shownVars, displayVars, generation, seen, requests>>

(* `aimed` is a history variable: the instrument the user had selected, in  *)
(* the edit they saw, when they pressed the button.                         *)
Aimed == IF SelectedFamily = None THEN None
         ELSE [id |-> draft[selected].id, edits |-> draft[selected].edits]

Submit ==
  /\ generation < MaxGeneration
  /\ Cardinality(requests) < MaxInFlight
  /\ generation' = generation + 1
  /\ submitting' = TRUE
  /\ error' = None
  /\ requests' = requests \cup {[generation |-> generation + 1, token |-> TargetToken,
                                 typed |-> Typed, aimed |-> Aimed]}
  /\ UNCHANGED <<workspaceVars, target, form, canonical, displayVars, seen>>

RequestIsCurrent(r) ==
  /\ r.generation = generation
  /\ r.typed.family = ActiveFamily
  /\ r.token = TargetToken

(* Mutant of CanApply: the workspace does not look at the target token.     *)
CanApplyToAny(r) ==
  /\ SelectedFamily # None
  /\ r.typed.family = SelectedFamily

(* applyCanonicalQuote: the workspace has the last word.                    *)
CanApply(r) ==
  /\ r.token = token
  /\ SelectedFamily # None
  /\ r.typed.family = SelectedFamily

Superseded(r) ==
  /\ ~RequestIsCurrent(r)
  /\ UNCHANGED <<draft, parses, shownVars>>

Refused(r) ==
  /\ RequestIsCurrent(r) /\ ~CanApply(r)
  /\ submitting' = FALSE
  /\ UNCHANGED <<draft, parses, canonical, error>>

Applied(r) ==
  /\ RequestIsCurrent(r) /\ CanApply(r)
  /\ draft' = [draft EXCEPT ![selected].quote = r.typed]
  /\ parses' = TRUE
  /\ canonical' = r.typed
  /\ submitting' = FALSE
  /\ UNCHANGED error

Failed(r) ==
  /\ RequestIsCurrent(r)
  /\ canonical' = None
  /\ error' = r.typed
  /\ submitting' = FALSE
  /\ UNCHANGED <<draft, parses>>

Answer(r) ==
  /\ Superseded(r) \/ Refused(r) \/ Applied(r) \/ Failed(r)
  /\ requests' = requests \ {r}
  /\ UNCHANGED <<selected, token, calls, target, form, displayVars, generation, seen>>

(* The effects of the panel, in their order: a new token invalidates, a new *)
(* family invalidates and resets the form, a new answer or display asks for *)
(* a rendering of the answer this render shows.                             *)
TargetMoved ==
  seen.token # Dependencies.token \/ seen.families # Dependencies.families

InvalidationEffects ==
  IF TargetMoved THEN Invalidate ELSE UNCHANGED <<shownVars, generation>>

FamilyEffect ==
  form' = IF seen.families # Dependencies.families /\ TargetFamily \notin {None, form.family}
            THEN [form EXCEPT !.family = TargetFamily,
                              !.convention = Conventions[TargetFamily][1],
                              !.display = Conventions[TargetFamily][1]]
            ELSE form

RenderEffect ==
  IF seen.shown = Dependencies.shown THEN UNCHANGED displayVars
  ELSE /\ renderGeneration' = renderGeneration + 1
       /\ rendered' = None /\ renderingError' = None
       /\ renders' = IF canonical = None THEN renders
                     ELSE renders \cup {[generation |-> renderGeneration + 1,
                                         shown |-> Dependencies.shown]}

RunEffects ==
  /\ ~EffectsRan
  /\ InvalidationEffects
  /\ FamilyEffect
  /\ RenderEffect
  /\ seen' = Dependencies
  /\ UNCHANGED <<workspaceVars, target, requests>>

(* Mutant of Latest: any rendering is shown, the latest or not.             *)
LatestAny(q) == TRUE

Latest(q) == q.generation = renderGeneration

(* A rendering, or the failure of one, counts if no other was asked for.    *)
RenderEnds(q) ==
  /\ renders' = renders \ {q}
  /\ UNCHANGED <<workspaceVars, target, form, shownVars, renderGeneration, generation, seen,
                 requests>>

RenderReturns(q) ==
  /\ rendered' = IF Latest(q) THEN q.shown ELSE rendered
  /\ UNCHANGED renderingError
  /\ RenderEnds(q)

RenderFails(q) ==
  /\ renderingError' = IF Latest(q) THEN q.shown ELSE renderingError
  /\ UNCHANGED rendered
  /\ RenderEnds(q)

-----------------------------------------------------------------------------
Init ==
  /\ draft = DefaultDraft /\ parses = TRUE
  /\ selected = 0
  /\ token = 0
  /\ calls = <<>> /\ target = None
  /\ form = DefaultForm
  /\ canonical = None /\ error = None /\ rendered = None /\ renderingError = None
  /\ submitting = FALSE
  /\ generation = 0 /\ renderGeneration = 0
  /\ seen = Dependencies
  /\ requests = {} /\ renders = {}

WorkspaceNext ==
  \/ \E i \in 0 .. Len(draft) : SelectTarget(i)
  \/ \E i \in DOMAIN draft : EditQuote(i) \/ RemoveInstrument(i)
  \/ \E K \in SUBSET DOMAIN draft : EditFields(K)
  \/ \E K \in SUBSET ToSet(draft) : RemoveDeclaration(K)
  \/ \E i \in DOMAIN draft, f \in Families : SetInstrumentFamily(i, f)
  \/ \E f \in Families \cup {x.family : x \in ToSet(draft)} : AddInstrument(f)
  \/ \E d \in Documents : EditSource(d)
  \/ BreakSource
  \/ \E d \in Topologies : SetBuildMode(d)
  \/ Save \/ Clone
  \/ \E n \in DOMAIN calls : SaveReturns(n) \/ CallFails(n)
  \/ \E n \in DOMAIN calls, d \in Documents : CloneReturns(n, d)
  \/ PublishTarget

PanelNext ==
  \/ \E l \in Lexemes : TypeLexeme(l)
  \/ \E c \in UNION {ToSet(Conventions[f]) : f \in Families} : ChooseConvention(c)
  \/ \E c \in UNION {ToSet(Conventions[f]) : f \in Families}, n \in Scales : ChooseDisplay(c, n)
  \/ Submit
  \/ \E r \in requests : Answer(r)
  \/ RunEffects
  \/ \E q \in renders : RenderReturns(q) \/ RenderFails(q)

Next == WorkspaceNext \/ PanelNext

Spec == Init /\ [][Next]_vars

-----------------------------------------------------------------------------
(* Only an answer changes the draft without starting a new target, and it   *)
(* is the answer to the latest request, to what the form still says, and    *)
(* for the instrument, in the very edit, that was selected on the page when *)
(* the user asked: a late answer never overwrites another instrument or a   *)
(* newer edit.  The document written back is the one the page shows, with   *)
(* that one quote; a source that does not parse is lost with it, which the  *)
(* documentation does not say (see OnlyTheQuoteChanges).                    *)
AppliedAsMeant ==
  [][draft' # draft /\ token' = token =>
       \E r \in requests \ requests' :
         /\ r.generation = generation
         /\ r.typed = Typed
         /\ r.aimed = Aimed
         /\ draft' = [draft EXCEPT ![selected].quote = r.typed]]_vars

(* Once its effects have run, whatever the panel shows belongs to what its  *)
(* form says: the canonical quote, the error, the rendering of that quote   *)
(* or the error of the rendering, never both, and "Canonicalizing..." only  *)
(* while the answer that will end it is still to come.                      *)
PanelShowsTheForm ==
  EffectsRan =>
    /\ canonical \in {None, Typed}
    /\ error \in {None, Typed}
    /\ {rendered, renderingError} \subseteq {None, <<Display, canonical>>}
    /\ rendered # None => canonical # None /\ renderingError = None
    /\ submitting => \E r \in requests : RequestIsCurrent(r)
-----------------------------------------------------------------------------
(* docs/curve-lab.md:144-145: "A successful response atomically replaces    *)
(* only that instrument's `raw_quote`."  The source is then what the page   *)
(* shows, so that it has to be what the page shows before.                  *)
OnlyTheQuoteChanges ==
  [][draft' # draft /\ token' = token =>
       /\ parses
       /\ \E r \in requests : draft' = [draft EXCEPT ![selected].quote = r.typed]]_vars
=============================================================================
