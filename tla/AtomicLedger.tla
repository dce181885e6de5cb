----------------------------- MODULE AtomicLedger -----------------------------
(***************************************************************************)
(* What the ledger promises to the modules that post through it, with no    *)
(* word about locks, transactions or retries: a key is posted at most once, *)
(* a posting changes all its accounts in one step and nothing else, no      *)
(* balance leaves 0..MaxNumeric, and a posting is reversed at most once.    *)
(* Ledger implements this specification.                                    *)
(***************************************************************************)
EXTENDS Integers

CONSTANTS Keys, Accounts, MaxNumeric, None,
          Effect(_, _),      \* effect of a leg set on one account
          Touched(_),        \* accounts a leg set names
          Admissible(_),     \* leg sets the ledger accepts
          InverseLegs(_)     \* leg set that undoes a leg set

VARIABLES opened, postings, balance
vars == <<opened, postings, balance>>

Init ==
    /\ opened = {}
    /\ postings = [k \in {} |-> None]
    /\ balance = [a \in Accounts |-> 0]

OpenAccount(a) ==
    /\ a \notin opened
    /\ opened' = opened \cup {a}
    /\ UNCHANGED <<postings, balance>>

\* The posting stored under another key that this one may undo.
MayReverse(p) ==
    p.reverses = None \/
        /\ p.reverses \in DOMAIN postings
        /\ p.legs = InverseLegs(postings[p.reverses].legs)
        /\ \A k \in DOMAIN postings : postings[k].reverses # p.reverses

Post(k, p) ==
    /\ k \notin DOMAIN postings
    /\ Admissible(p.legs)
    /\ Touched(p.legs) \subseteq opened
    /\ MayReverse(p)
    /\ \A a \in Touched(p.legs) : balance[a] + Effect(p.legs, a) \in 0..MaxNumeric
    /\ postings' = [j \in DOMAIN postings \cup {k} |-> IF j = k THEN p ELSE postings[j]]
    /\ balance' = [a \in Accounts |->
                      IF a \in Touched(p.legs) THEN balance[a] + Effect(p.legs, a)
                                               ELSE balance[a]]
    /\ UNCHANGED opened

Next ==
    \/ \E a \in Accounts : OpenAccount(a)
    \/ \E k \in Keys \cap DOMAIN postings' : Post(k, postings'[k])

Spec == Init /\ [][Next]_vars
=============================================================================
