--------------------------- MODULE HomeworkHistory ---------------------------
(***************************************************************************)
(* HomeworkEditing with one history variable: whether two updates have     *)
(* ever been under way at the same time.                                   *)
(***************************************************************************)
EXTENDS HomeworkEditing

VARIABLE overlapped

Updating == {q \in Requests : pc[q] \in {"updating", "revised", "updated"}}

Alone == \A p, q \in Updating : p = q

InitWithHistory == Init /\ overlapped = FALSE

NextWithHistory ==
    /\ Next
    /\ overlapped' = (overlapped \/ ~ Alone')

SpecWithHistory == InitWithHistory /\ [][NextWithHistory]_<<vars, overlapped>>
FairSpecWithHistory == SpecWithHistory /\ Fairness

Latest(revs) == CHOOSE rev \in revs : \A other \in revs : other.at <= rev.at

\* The text the homework has after the given revisions.
TextAfter(revs) == IF revs = {} THEN original ELSE Latest(revs).new

(***************************************************************************)
(* As long as no two updates overlap, whatever else does, the history of a *)
(* homework is exact: in the order GET .../history lists them, each        *)
(* revision starts from the text the one before left, the first from the   *)
(* original text, and the last leaves the current text.                    *)
(***************************************************************************)
HistoryIsChain ==
    Live /\ ~ overlapped =>
        /\ homework.text = TextAfter(revisions)
        /\ \A rev \in revisions :
             rev.old = TextAfter({earlier \in revisions : earlier.at < rev.at})

-----------------------------------------------------------------------------
(* The inductive invariant behind it.                                       *)

\* created_at grows.
StampsOK ==
    /\ \A rev \in revisions : rev.at < inserted
    /\ \A q \in Updating : draft[q] # Unset => draft[q].at < inserted

\* What an update has read is still there, and its revision goes on from it.
UpToDate(q) ==
    /\ pc[q] \in {"updating", "revised"} => seen[q] = homework
    /\ pc[q] = "updated" =>
         seen[q].text = IF draft[q] = Unset THEN homework.text ELSE draft[q].new
    /\ draft[q] # Unset =>
         draft[q].old = homework.text /\ \A rev \in revisions : rev.at < draft[q].at

ChainOK ==
    /\ StampsOK
    /\ ~ overlapped => Alone
    /\ Live /\ ~ overlapped => \A q \in Updating : UpToDate(q)
    /\ HistoryIsChain

HistoryInv == Inv /\ ChainOK
==============================================================================
