-------------------------------- MODULE Passport --------------------------------
(***************************************************************************)
(* instrument-passport.ts and wizardModel.ts: the token passport as the     *)
(* issuer's page edits it and as the server stores it.  A text is a         *)
(* sequence of lines.  The code has five sections, one for each step of the *)
(* page.  The fields of a section are one text here, Absent as long as they *)
(* are not all valid; but a claim is also missing when its lines are blank. *)
(***************************************************************************)
EXTENDS Naturals, Sequences

CONSTANTS
    Lines,       \* what a line may be
    Last,        \* the number of sections
    Rights,      \* the section with the claim of the holder
    Economics,   \* the section with the prices, of one line
    Trading,     \* the step in which the currency is typed
    Blank,       \* a line of white space
    Disclosure,  \* nonOwnershipDisclosure, appended to the claim
    Odd          \* texts that the page accepts and the server refuses

ASSUME PassportAssumption ==
    /\ Last \in Nat \ {0}
    /\ {Rights, Economics, Trading} \subseteq 1..Last
    /\ Rights # Economics /\ Economics # Trading
    /\ {Blank, Disclosure} \subseteq Lines

Sections == 1..Last
Absent == <<>>
Passports == [Sections -> Seq(Lines)]

\* What the server makes of a passport.
MissingPassportFields(p) == {s \in Sections : p[s] = Absent}
IsComplete(p) == MissingPassportFields(p) = {}
SectionParses(t) == t \notin Odd
Parses(p) == \A s \in Sections : SectionParses(p[s])

\* The hash stands for what it is taken of.
HashPassport(i, terms, version, p) == <<i, terms, version, p>>

\* What the page makes of it: validateStep, and a draft of the steps that pass.
Filled(s, t) == t # Absent /\ (s = Rights => \E n \in DOMAIN t : t[n] # Blank)
CompletedSteps(text) == {s \in Sections : Filled(s, text[s])}

\* The currency, typed in another step, goes into the prices.
BuildPassport(text, currency) == [s \in Sections |->
    IF s \notin CompletedSteps(text) THEN Absent
    ELSE IF s = Rights THEN Append(text[s], Disclosure)
    ELSE IF s = Economics THEN Append(text[s], currency)
    ELSE text[s]]

\* Seeded fault: the disclosure is not taken off again.
TextAsStored(p) == p

\* Of a claim only the first line comes back, blank or not: split('\n')[0]; of
\* the prices all but the currency, which the page reads from the instrument.
TextOf(p) == [s \in Sections |->
    IF s \in {Rights, Economics} /\ p[s] # Absent THEN <<Head(p[s])>> ELSE p[s]]
=============================================================================
