------------------------------- MODULE IssuerWizard -------------------------------
(***************************************************************************)
(* CreateTokenPage.tsx, the page on which an issuer writes a passport, open *)
(* in several tabs, together with the listing service.  Requests and        *)
(* replies may be lost; the page goes on while a request is under way.      *)
(***************************************************************************)
EXTENDS Listing

CONSTANTS
    Pages, UserOf,  \* the tabs, and the issuer who works in each
    Drafts,         \* ids that new drafts get
    Texts,          \* what can be typed into each section
    CurrencyOf,     \* the currency under given terms
    DefaultTerms,   \* terms of initialWizardModel
    MaxClicks,      \* bound on edits and saves
    Revisions       \* passports that revisePassport is called with

\* Drafts as they are stored, and what a tab has sent when it saves.
DraftRows == [terms : Terms, passport : Passports]
Times == Nat \cup {None}
SaveRequests == [id : Drafts \cup {None}, version : 1..MaxVersion, draft : DraftRows,
                 edited : SUBSET Sections, at : Times, loading : BOOLEAN]

ASSUME WizardAssumption ==
    /\ UserOf \in [Pages -> Issuers]
    /\ Drafts \subseteq Instruments
    /\ CurrencyOf \in [Terms -> Lines]
    /\ DefaultTerms \in Terms
    /\ Texts \in [Sections -> SUBSET Seq(Lines)]
    /\ Texts[Economics] \subseteq {<<x>> : x \in Lines}
    /\ Revisions \subseteq Passports
    /\ None \notin Drafts \cup SaveRequests
    /\ MaxClicks \in Nat

VARIABLES
    page,     \* the state of each tab
    saves,    \* history: how often the draft of an instrument was written
    sent,     \* history: the page and the draft it showed at the last submission
    clicks    \* edits and saves so far

wizard == <<page, saves, sent, clicks>>
allvars == <<vars, wizard>>

Review == Last + 1
Draft(terms, passport) == [terms |-> terms, passport |-> passport]
Stored(i) == Draft(instrument[i].terms, Current(i).passport)

\* buildDraft.
Build(p) ==
    Draft(page[p].terms, BuildPassport(page[p].text, CurrencyOf[page[p].terms]))

Set(p, r) == page' = [page EXCEPT ![p] = r]
Click == clicks < MaxClicks /\ clicks' = clicks + 1
Shown(p) == page[p] # None /\ page[p].open

\* A tab, with or without ?id=.  edited, base and at are history: the sections
\* that may differ from the draft the page knows to be stored, that draft, and
\* how often it had been written then; at is None while the page knows none.
NewPage(id) ==
    [open |-> TRUE, id |-> id, version |-> 1, step |-> 1,
     loading |-> id # None, fetched |-> None,
     terms |-> DefaultTerms, text |-> [s \in Sections |-> Absent],
     saving |-> None, submitting |-> None,
     edited |-> {}, base |-> None, at |-> None]

Open(p, id) ==
    /\ page[p] = None
    /\ id # None => Created(id)
    /\ Set(p, NewPage(id))
    /\ UNCHANGED <<vars, saves, sent, clicks>>

\* The server answers with the draft, to its issuer only, and again after a save.
Fetch(p) ==
    /\ Shown(p) /\ page[p].loading
    /\ LET i == page[p].id
           r == [version |-> instrument[i].version, draft |-> Stored(i), at |-> saves[i]] IN
       /\ instrument[i].issuer = UserOf[p] /\ page[p].fetched # r
       /\ Set(p, [page[p] EXCEPT !.fetched = r])
    /\ UNCHANGED <<vars, saves, sent, clicks>>

\* The first answer that arrives replaces the form, later ones are ignored.
Hydrate(p) ==
    /\ Shown(p) /\ page[p].fetched # None
    /\ LET r == page[p].fetched IN
       Set(p, [page[p] EXCEPT
           !.loading = FALSE, !.fetched = None, !.version = r.version,
           !.terms = r.draft.terms, !.text = TextOf(r.draft.passport),
           !.edited = {}, !.base = r.draft, !.at = r.at])
    /\ UNCHANGED <<vars, saves, sent, clicks>>

Type(p, s, t) ==
    /\ Shown(p) /\ page[p].step = s /\ page[p].text[s] # t /\ Click
    /\ Set(p, [page[p] EXCEPT !.text[s] = t, !.edited = @ \cup {s}])
    /\ UNCHANGED <<vars, saves, sent>>

\* The supply is typed with the prices; until then it is the quantity of step 1.
ChooseTerms(p, t) ==
    /\ Shown(p) /\ page[p].step # Review /\ page[p].terms # t /\ Click
    /\ CurrencyOf[t] # CurrencyOf[page[p].terms] => page[p].step = Trading
    /\ SupplyCap[t] # SupplyCap[page[p].terms] => page[p].step \in {1, Economics}
    /\ Set(p, [page[p] EXCEPT !.terms = t])
    /\ UNCHANGED <<vars, saves, sent>>

\* A step can be chosen once the one before it is complete, saved or not.
ChooseStep(p, n) ==
    /\ Shown(p) /\ n \in 1..Review /\ n # page[p].step
    /\ n < page[p].step \/ n - 1 \in CompletedSteps(page[p].text)
    /\ Set(p, [page[p] EXCEPT !.step = n])
    /\ UNCHANGED <<vars, saves, sent, clicks>>

-----------------------------------------------------------------------------
(* Saving *)

\* saveAndContinue looks only at the step in view.
Save(p) ==
    /\ Shown(p) /\ page[p].step \in CompletedSteps(page[p].text)
    /\ page[p].saving = None /\ page[p].submitting = None /\ Click
    /\ Set(p, [page[p] EXCEPT
           !.saving = [id |-> page[p].id, version |-> page[p].version, draft |-> Build(p),
                       edited |-> page[p].edited, at |-> page[p].at,
                       loading |-> page[p].loading],
           !.edited = {}])
    /\ UNCHANGED <<vars, saves, sent>>

\* No answer, or an error: the page stays where it is.
Unsaved(p) == [page[p] EXCEPT !.saving = None, !.edited = @ \cup page[p].saving.edited]

\* The server writes the draft; the answer may be lost.  If the form was replaced
\* while the page was saving, it need not show what was saved.
Written(p, i, answered) ==
    LET r == page[p].saving
        known == [page[p] EXCEPT
                      !.saving = None, !.id = i, !.version = r.version,
                      !.base = r.draft, !.at = saves[i] + 1,
                      !.edited = IF page[p].loading = r.loading THEN @ ELSE Sections,
                      !.step = IF @ < Review THEN @ + 1 ELSE @] IN
    /\ saves' = [saves EXCEPT ![i] = @ + 1]
    /\ Set(p, IF answered /\ page[p].open THEN known ELSE Unsaved(p))
    /\ UNCHANGED <<sent, clicks>>

SaveNew(p, i, answered) ==
    /\ page[p] # None /\ page[p].saving # None /\ page[p].saving.id = None
    /\ LET d == page[p].saving.draft IN CreateDraft(i, UserOf[p], d.terms, d.passport)
    /\ Written(p, i, answered)

SaveAgain(p, answered) ==
    /\ page[p] # None /\ page[p].saving # None
    /\ LET r == page[p].saving IN
       /\ r.id # None
       /\ UpdateDraft(r.id, UserOf[p], r.version, r.draft.terms, r.draft.passport)
       /\ Written(p, r.id, answered)

\* Refused, or lost on the way.
SaveFails(p) ==
    /\ page[p] # None /\ page[p].saving # None
    /\ Set(p, Unsaved(p))
    /\ UNCHANGED <<vars, saves, sent, clicks>>

-----------------------------------------------------------------------------
(* Submitting *)

\* From the review step, when every section is complete; a save may be under way.
Sign(p) ==
    /\ Shown(p) /\ page[p].step = Review /\ page[p].id # None
    /\ CompletedSteps(page[p].text) = Sections
    /\ page[p].submitting = None
    /\ Set(p, [page[p] EXCEPT
           !.submitting = [id |-> page[p].id, version |-> page[p].version,
                           shown |-> Build(p), base |-> page[p].base, at |-> page[p].at]])
    /\ UNCHANGED <<vars, saves, sent, clicks>>

\* Accepted: the page is left.  If the answer is lost it stays, with an error.
Submitted(p, answered) ==
    /\ page[p] # None /\ page[p].submitting # None
    /\ LET r == page[p].submitting IN
       /\ Submit(r.id, UserOf[p], r.version)
       /\ sent' = [sent EXCEPT ![r.id] =
              [version |-> r.version, shown |-> r.shown,
               clean |-> r.base = r.shown /\ r.at = saves[r.id]]]
    /\ Set(p, [page[p] EXCEPT !.submitting = None, !.open = ~answered])
    /\ UNCHANGED <<saves, clicks>>

\* 422 PASSPORT_INCOMPLETE leads back to the first missing section.
SubmitIncomplete(p) ==
    /\ page[p] # None /\ page[p].submitting # None
    /\ LET r == page[p].submitting IN
       /\ MaySubmit(r.id, UserOf[p], r.version)
       /\ \E s \in MissingPassportFields(Current(r.id).passport) :
             /\ \A t \in MissingPassportFields(Current(r.id).passport) : s <= t
             /\ Set(p, [page[p] EXCEPT !.submitting = None, !.step = s])
    /\ UNCHANGED <<vars, saves, sent, clicks>>

SubmitFails(p) ==
    /\ page[p] # None /\ page[p].submitting # None
    /\ Set(p, [page[p] EXCEPT !.submitting = None])
    /\ UNCHANGED <<vars, saves, sent, clicks>>

PageStep(p) ==
    \/ \E id \in Drafts \cup {None} : Open(p, id)
    \/ Fetch(p) \/ Hydrate(p) \/ Save(p) \/ Sign(p)
    \/ \E s \in Sections : \E t \in Texts[s] : Type(p, s, t)
    \/ \E t \in Terms : ChooseTerms(p, t)
    \/ \E n \in 1..Review : ChooseStep(p, n)
    \/ \E answered \in BOOLEAN :
          \/ \E i \in Drafts : SaveNew(p, i, answered)
          \/ SaveAgain(p, answered)
          \/ Submitted(p, answered)
    \/ SaveFails(p) \/ SubmitIncomplete(p) \/ SubmitFails(p)

-----------------------------------------------------------------------------
ListingInit ==
    /\ instrument = [i \in Instruments |-> None]
    /\ versions = [i \in Instruments |-> <<>>]
    /\ decisions = {}
    /\ promotions = {}
    /\ missed = [i \in Instruments |-> FALSE]

Init ==
    /\ CollateralInit /\ ListingInit
    /\ supply = [i \in Instruments |-> 0]
    /\ page = [p \in Pages |-> None]
    /\ saves = [i \in Instruments |-> 0]
    /\ sent = [i \in Instruments |-> None]
    /\ clicks = 0

WorkerStep(w) ==
    \/ \E e \in Events : Created(Says[e].instrument) /\ Begin(w, e) /\ UNCHANGED listing
    \/ CollateralStep(w) /\ UNCHANGED listing
    \/ ApplyCollateralReserved(w) \/ Finish(w) \/ Crash(w)

InternalStep(i) ==
    \/ \E r \in Revisions : RevisePassport(i, r)
    \/ \E o \in Operators :
          Approve(i, o) \/ Dismiss(i, o, "REJECT") \/ Dismiss(i, o, "RETURN_FOR_REVISION")
    \/ \E target \in Statuses : Transition(i, target)
    \/ \E q \in 1..2 : Mint(i, q)

Next ==
    \/ \E p \in Pages : PageStep(p)
    \/ \E w \in Workers : WorkerStep(w) /\ UNCHANGED wizard
    \/ \E i \in Instruments : InternalStep(i) /\ UNCHANGED wizard

Spec == Init /\ [][Next]_allvars

-----------------------------------------------------------------------------
(* Properties *)

\* What goes to review is what the issuer saw when he signed, if the page was
\* saved and nobody wrote the draft since the page knew it; nor does it change
\* afterwards.  Nothing protects him in the other cases: the version that
\* openapi.yaml:1984 calls a guard against "stale updates" does not rise with a
\* save, so another tab's text, or text before the last edits, may be submitted.
SubmittedIsShown == \A i \in Instruments : sent[i] # None /\ sent[i].clean =>
    /\ versions[i][sent[i].version].passport = sent[i].shown.passport
    /\ instrument[i].terms = sent[i].shown.terms

\* What a save makes of sections that were not touched, when the draft's currency
\* goes from "was" to "now".
Survives(before, after, untouched, was, now) == \A s \in untouched :
    \/ after[s] = before[s]
    \/ s = Rights /\ before[s] # Absent /\
           after[s] = IF Head(before[s]) = Blank THEN Absent ELSE <<Head(before[s]), Disclosure>>
    \/ /\ s = Economics /\ before[s] # Absent
       /\ now # was /\ after[s] = <<Head(before[s]), now>>

\* A save changes only what has been typed since the page knew the draft, as long
\* as no other tab wrote it in between.  Three things the code does are exceptions:
\* a claim of several lines comes back as its first line and is saved like that; if
\* that line is blank its step is not complete any more, and a save of another step
\* takes the whole section out of the draft; and the currency, typed in a later
\* step, is written into the prices.  A page that loads the draft while it saves
\* shows what was stored before, and its next save puts that back.
UntouchedTextSurvives == [][\A p \in Pages, i \in Drafts :
    LET r == page[p].saving IN
    page[p] # None /\ page'[p] # page[p] /\ r # None /\ saves'[i] > saves[i] /\ r.id = i =>
        \/ r.at # saves[i]
        \/ Survives(Current(i).passport, Current(i)'.passport, Sections \ r.edited,
                    CurrencyOf[instrument[i].terms], CurrencyOf[r.draft.terms])]_allvars
=============================================================================
