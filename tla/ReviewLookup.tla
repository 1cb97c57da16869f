---------------------------- MODULE ReviewLookup ----------------------------
(***************************************************************************)
(* FindReview of the official publisher: the list of an application's      *)
(* reviews is read page by page, newest first, until a review is found or  *)
(* the list ends, while developers submit reviews and the store removes    *)
(* some.  Module SourcePipeline takes the lookup as one step.              *)
(*                                                                         *)
(* The list is the one of the creation window of the lookup.  Reviews are  *)
(* their ids; those of the version, hash and channel that are looked for   *)
(* are "matching".                                                         *)
(*                                                                         *)
(* An operator whose comment begins with "Bug:" is the definition after    *)
(* it with a mistake that a property notices.                              *)
(***************************************************************************)
EXTENDS Naturals, FiniteSets, SequencesExt

CONSTANTS
  Size,       \* reviews on a page
  MaxReviews, \* bound on the ids of reviews
  MaxRemoved  \* bound on the number of reviews that are removed

Ids == 1 .. MaxReviews

\* What the constants must be.
ReviewLookupAssumption ==
  Size \in Nat \ {0} /\ MaxReviews \in Nat /\ MaxRemoved \in Nat

VARIABLES
  list,      \* the store's list, newest first
  matching,  \* the reviews of the version that is looked for
  last,      \* last id the store gave
  wanted,    \* id that is looked for, 0 for the newest matching review
  page,      \* next page to read
  pc,        \* reading, found, none or failed
  result,    \* the review that was found
  atStart,   \* the list when the lookup began
  removed    \* reviews removed since the lookup began

vars == <<list, matching, last, wanted, page, pc, result, atStart, removed>>

\* The order of the list: sort=-id.
NewestFirst(reviews) == \A j, k \in DOMAIN reviews : j < k => reviews[j] > reviews[k]

Init ==
  /\ \E n \in 0 .. MaxReviews : list \in {reviews \in [1 .. n -> Ids] : NewestFirst(reviews)}
  /\ atStart = {list[k] : k \in DOMAIN list} /\ removed = {}
  /\ matching \in SUBSET atStart /\ last = IF list = <<>> THEN 0 ELSE list[1]
  /\ wanted \in {0} \cup atStart
  /\ page = 0 /\ pc = "reading" /\ result = 0

\* Bug: the oldest reviews come first.
OldestItems(p) == {k \in DOMAIN list : Len(list) - k \in p * Size .. (p + 1) * Size - 1}

\* A page of the store's answer, as places in the list.
Items(p) == {k \in DOMAIN list : k \in p * Size + 1 .. (p + 1) * Size}

Matches(id) == IF wanted # 0 THEN id = wanted ELSE id \in matching

Ends(p) == Items(p) = {} \/ (p + 1) * Size >= Len(list)

\* One request and its answer.
ReadPage ==
  LET hits == {k \in Items(page) : Matches(list[k])}
  IN /\ pc = "reading"
     /\ \/ \E k \in hits : /\ \A h \in hits : k <= h
                           /\ pc' = "found" /\ result' = list[k] /\ UNCHANGED page
        \/ hits = {} /\ Ends(page) /\ pc' = "none" /\ UNCHANGED <<page, result>>
        \/ hits = {} /\ ~Ends(page) /\ page' = page + 1 /\ UNCHANGED <<pc, result>>
     /\ UNCHANGED <<list, matching, last, wanted, atStart, removed>>

\* The request fails, or its answer is malformed.
RequestFails ==
  /\ pc = "reading" /\ pc' = "failed"
  /\ UNCHANGED <<list, matching, last, wanted, page, result, atStart, removed>>

\* Somebody submits a review.
Submit(matches) ==
  /\ last < MaxReviews
  /\ last' = last + 1 /\ list' = <<last + 1>> \o list
  /\ matching' = IF matches THEN matching \cup {last + 1} ELSE matching
  /\ UNCHANGED <<wanted, page, pc, result, atStart, removed>>

\* A review leaves the list.
Withdraw(k) ==
  /\ Cardinality(removed) < MaxRemoved
  /\ list' = RemoveAt(list, k) /\ removed' = removed \cup {list[k]}
  /\ UNCHANGED <<matching, last, wanted, page, pc, result, atStart>>

Next ==
  \/ ReadPage \/ RequestFails
  \/ \E matches \in BOOLEAN : Submit(matches)
  \/ \E k \in DOMAIN list : Withdraw(k)

Spec == Init /\ [][Next]_vars

---------------------------------------------------------------------------
\* Reviews the lookup is about, among those that were there when it began.
Looked == {id \in atStart : Matches(id)}

TypeOK ==
  /\ list \in Seq(Ids) /\ matching \subseteq Ids /\ last \in 0 .. MaxReviews
  /\ wanted \in 0 .. MaxReviews /\ (page > 0 => page * Size < MaxReviews)
  /\ page \in Nat /\ atStart \subseteq Ids /\ removed \subseteq Ids
  /\ pc \in {"reading", "found", "none", "failed"} /\ result \in 0 .. MaxReviews

\* What is found is the review with the id, or a matching one that is not
\* older than any the list had when the lookup began.
FoundIsNewest ==
  pc = "found" => Matches(result) /\ (removed = {} => \A id \in Looked : id <= result)

\* A review that was there when the lookup began is not overlooked, although
\* new ones push it to later pages.  Only the removal of a newer one can move
\* it to a page that has been read.
OverlookedByRemoval ==
  pc = "none" => \A id \in Looked \ removed : \E gone \in removed : gone > id

---------------------------------------------------------------------------
(* The inductive invariant.                                                *)

\* A review that is not on the pages still to be read was never there to be
\* found, or was moved to a page read before by the removal of a newer one.
LookupInv ==
  /\ TypeOK /\ NewestFirst(list)
  /\ \A k \in DOMAIN list : list[k] <= last
  /\ \A id \in atStart : id <= last
  /\ \A id \in atStart \ removed : \E k \in DOMAIN list : list[k] = id
  /\ pc = "reading" =>
       \A k \in DOMAIN list :
         list[k] \in Looked \ removed /\ k <= page * Size =>
           \E gone \in removed : gone > list[k]
  /\ FoundIsNewest /\ OverlookedByRemoval
=============================================================================
