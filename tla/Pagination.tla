----------------------------- MODULE Pagination -----------------------------
(***************************************************************************)
(* OpenAQClient._paginate: a walk by page number over a data set that the  *)
(* API's owner changes between two requests, so that records move from one *)
(* page to another.  A request is one step, at the moment its answer is    *)
(* read (OpenAQRequest.tla has its retries).  A stuck server answers every *)
(* page number with the first page; an answer may hold a null instead of a *)
(* page.                                                                   *)
(***************************************************************************)
EXTENDS Integers, FiniteSets, SequencesExt

CONSTANTS
    Records,    \* raw records, 1..n: the data set starts with the first ones
    IdentityOf, \* the identity of a record, "none" if it has none
    PageSize,   \* self._page_size
    MaxPages,   \* self._max_pages
    MaxSize,    \* bound: records at the start
    MaxChanges  \* bound: changes of the data set during the walk

ASSUME PaginationAssumption ==
    /\ {PageSize, MaxPages} \subseteq Nat \ {0}
    /\ {MaxSize, MaxChanges} \subseteq Nat /\ 1..MaxSize \subseteq Records /\ Records \subseteq Nat
    /\ DOMAIN IdentityOf = Records

VARIABLES
    dataset,       \* the API's records, in its order
    stuck,         \* whether the server ignores the page number
    page,          \* page
    records,       \* records
    seen,          \* previous_page_keys
    duplicateCount,
    previous,      \* previous_results, <<>> before the first page
    outcome,       \* "walking", "returned", or the error raised
    changes,       \* history: changes of the data set
    kept,          \* history: records that were in the data set all along
    removals,      \* history: whether a record was ever removed
    nulled         \* history: whether a null ended the walk

client == <<page, records, seen, duplicateCount, previous, outcome, nulled>>
server == <<dataset, stuck, changes, kept, removals>>
vars == <<client, server>>

TypeOK ==
    /\ dataset \in Seq(Records) /\ IsInjective(dataset)
    /\ stuck \in BOOLEAN
    /\ page \in 1..MaxPages
    /\ records \in Seq(Records)
    /\ seen = {IdentityOf[records[i]] : i \in DOMAIN records} \ {"none"}
    /\ duplicateCount \in 0..Len(records)
    /\ previous \in Seq(Records) /\ Len(previous) <= PageSize
    /\ outcome \in {"walking", "returned", "identical page", "max pages", "request failed"}
    /\ changes \in 0..MaxChanges
    /\ kept \subseteq Records
    /\ {removals, nulled} \subseteq BOOLEAN

Init ==
    /\ \E n \in 0..MaxSize : dataset = [i \in 1..n |-> i]
    /\ stuck \in BOOLEAN
    /\ page = 1
    /\ records = <<>>
    /\ seen = {}
    /\ duplicateCount = 0
    /\ previous = <<>>
    /\ outcome = "walking"
    /\ changes = 0
    /\ kept = ToSet(dataset)
    /\ removals = FALSE
    /\ nulled = FALSE

-----------------------------------------------------------------------------
(* The API *)

Change == changes < MaxChanges /\ outcome = "walking" /\ changes' = changes + 1

Added ==
    /\ Change
    /\ \E r \in Records \ ToSet(dataset), at \in 1..(Len(dataset) + 1) :
        dataset' = InsertAt(dataset, at, r)
    /\ UNCHANGED <<client, stuck, kept, removals>>

Removed ==
    /\ Change
    /\ \E at \in DOMAIN dataset :
        /\ dataset' = RemoveAt(dataset, at)
        /\ kept' = kept \ {dataset[at]}
    /\ removals' = TRUE
    /\ UNCHANGED <<client, stuck>>

\* The page of a request with limit=PageSize.
Page(p) ==
    LET first == IF stuck THEN 1 ELSE (p - 1) * PageSize + 1
    IN SubSeq(dataset, first, Min({first + PageSize - 1, Len(dataset)}))

-----------------------------------------------------------------------------
(* _paginate *)

\* Mutant: counts the repeated identities instead of their repetitions.
RepeatedIdentities(results) ==
    Cardinality({IdentityOf[results[i]] : i \in DOMAIN results} \cap seen)

\* How often results repeats an identity of an earlier page.
Repeated(results) ==
    Cardinality({i \in DOMAIN results : IdentityOf[results[i]] \in seen})

\* Mutant: previous_page_keys holds the keys of the previous page only.
TakeAfterPreviousPage(results) ==
    /\ records' = records \o results
    /\ seen' = {IdentityOf[r] : r \in ToSet(results)} \ {"none"}
    /\ duplicateCount' = duplicateCount + Repeated(results)
    /\ previous' = results

\* Mutant: drops what an earlier page already returned.
TakeOnce(results) ==
    /\ records' = records \o SelectSeq(results, LAMBDA r : IdentityOf[r] \notin seen)
    /\ seen' = seen \cup ({IdentityOf[r] : r \in ToSet(results)} \ {"none"})
    /\ duplicateCount' = duplicateCount + Repeated(results)
    /\ previous' = results

Take(results) ==
    /\ records' = records \o results
    /\ seen' = seen \cup ({IdentityOf[r] : r \in ToSet(results)} \ {"none"})
    /\ duplicateCount' = duplicateCount + Repeated(results)
    /\ previous' = results

\* Mutant: a full page ends the walk.
ShortOrFull(results) == Len(results) <= PageSize

Short(results) == Len(results) < PageSize

\* Mutant: repeated pages are not looked for.
NeverIdentical(results) == FALSE

Identical(results) == results = previous

\* An empty page, or a null read as one, ends the walk.
EmptyPage ==
    /\ outcome = "walking"
    /\ \/ Page(page) = <<>> /\ UNCHANGED nulled
       \/ nulled' = TRUE
    /\ outcome' = "returned"
    /\ UNCHANGED <<server, page, records, seen, duplicateCount, previous>>

IdenticalPage ==
    /\ outcome = "walking"
    /\ Page(page) # <<>> /\ Identical(Page(page))
    /\ outcome' = "identical page"
    /\ UNCHANGED <<server, page, records, seen, duplicateCount, previous, nulled>>

NewPage ==
    /\ outcome = "walking"
    /\ Page(page) # <<>> /\ ~Identical(Page(page))
    /\ Take(Page(page))
    /\ \/ Short(Page(page)) /\ outcome' = "returned" /\ UNCHANGED page
       \/ /\ ~Short(Page(page)) /\ page < MaxPages
          /\ page' = page + 1 /\ UNCHANGED outcome
       \/ /\ ~Short(Page(page)) /\ page = MaxPages
          /\ outcome' = "max pages" /\ UNCHANGED page
    /\ UNCHANGED <<server, nulled>>

\* _request raises, or _extract_results finds no results array.
RequestFails ==
    /\ outcome = "walking"
    /\ outcome' = "request failed"
    /\ UNCHANGED <<server, page, records, seen, duplicateCount, previous, nulled>>

Walk == EmptyPage \/ IdenticalPage \/ NewPage \/ RequestFails
Next == Walk \/ Added \/ Removed
Spec == Init /\ [][Next]_vars

-----------------------------------------------------------------------------
(* Properties *)

\* While the data set stands still, a walk that returns has every record once
\* and in order, even from a stuck server.  A null page (client.py:461) can cut
\* it short without an error, but never makes a hole in it.
StillDatasetIsExact ==
    outcome = "returned" /\ changes = 0 =>
        IF nulled THEN IsPrefix(records, dataset) ELSE records = dataset

\* Records added during a walk repeat others but hide none: what was there all
\* along is collected.  Only a removal can make the walk skip a record.
MissesOnlyAfterRemoval ==
    outcome = "returned" /\ ~removals /\ ~nulled => kept \subseteq ToSet(records)

\* duplicate_count counts the records whose identity an earlier page had,
\* neither repetitions within one page nor records without an identity
\* (tests/test_openaq_client.py:183-243).
PageOf(i) == (i - 1) \div PageSize
DuplicatesAreCounted ==
    duplicateCount = Cardinality({i \in DOMAIN records :
        /\ IdentityOf[records[i]] # "none"
        /\ \E j \in DOMAIN records : /\ PageOf(j) < PageOf(i)
                                     /\ IdentityOf[records[j]] = IdentityOf[records[i]]})

\* A server that does not advance is found out on the second page: the walk
\* neither loops to max_pages nor takes the first page twice.
StuckServerIsReported ==
    stuck /\ changes = 0 => /\ Len(records) <= PageSize
                            /\ outcome # "max pages" \/ MaxPages = 1
=============================================================================
