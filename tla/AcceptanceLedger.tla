-------------------------- MODULE AcceptanceLedger --------------------------
(***************************************************************************)
(* What a baseline promises: a ledger of accepted issues, each with the day *)
(* on which it was entered, or None when its age is not tracked.  Accepting *)
(* a report enters what is new in it and leaves every other entry as it     *)
(* was; a ledger may be opened anew; and it may be lost, as a whole.        *)
(***************************************************************************)
EXTENDS Integers

CONSTANTS Issue, Day

VARIABLES ledger, \* the entries: issue |-> day or None
          open    \* whether there is a ledger

ledgerVars == <<ledger, open>>

Untracked == -1
NoEntries == [i \in {} |-> Untracked]
Enter(S, stamp) == [i \in S |-> stamp]

LedgerInit == ledger = NoEntries /\ ~open

\* What is already entered keeps its day.
Accept(S, stamp) ==
    /\ open
    /\ \A i \in DOMAIN ledger : i \in DOMAIN ledger' /\ ledger'[i] = ledger[i]
    /\ DOMAIN ledger' = DOMAIN ledger \cup S
    /\ \A i \in S \ DOMAIN ledger : ledger'[i] = stamp
    /\ UNCHANGED open

OpenAnew(S, stamp) == ledger' = Enter(S, stamp) /\ open'

Lose == ledger' = NoEntries /\ ~open'

LedgerNext ==
    \/ \E S \in SUBSET Issue, stamp \in Day \cup {Untracked} :
          Accept(S, stamp) \/ OpenAnew(S, stamp)
    \/ Lose

LedgerSpec == LedgerInit /\ [][LedgerNext]_ledgerVars

=============================================================================
