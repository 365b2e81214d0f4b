------------------------------ MODULE ListPages ------------------------------
(***************************************************************************)
(* The dashboard's paged lists.  Each keeps the number of the page it shows *)
(* beside a list that the query cache replaces under it: at an interval,    *)
(* after a mutation, on reconnecting, or for another filter.  What the rows *)
(* are is left out; the lists are independent, so a behaviour is about one  *)
(* of them, with the program's own page sizes and limits.                   *)
(***************************************************************************)
EXTENDS Naturals

CONSTANT MaxUsers   \* rows of a list that has no limit

ASSUME ListAssumption == MaxUsers \in Nat

VARIABLES
    list,          \* which list it is
    rows,          \* how many rows it has, after the filter
    currentPage,
    shrunk         \* it has got shorter since the user last chose a page or a filter

listVars == <<list, rows, currentPage, shrunk>>

\* Rows to a page, rows at most, and whether there is a filter, a search or a tab
\* whose change goes back to the first page.
IncidentsList == [itemsPerPage |-> 6, limit |-> 50, filtered |-> TRUE]
AlertsList == [itemsPerPage |-> 8, limit |-> 50, filtered |-> TRUE]
UsersList == [itemsPerPage |-> 8, limit |-> MaxUsers, filtered |-> TRUE]
AuditList == [itemsPerPage |-> 8, limit |-> 50, filtered |-> FALSE]
SuperLists == {[itemsPerPage |-> 8, limit |-> n, filtered |-> TRUE] : n \in {MaxUsers, 100}}

totalPages == (rows + list.itemsPerPage - 1) \div list.itemsPerPage

------------------------------------------------------------------------------
ListInit ==
    /\ list \in {IncidentsList, AlertsList, UsersList, AuditList} \union SuperLists
    /\ rows = 0 /\ currentPage = 1 /\ shrunk = FALSE

\* The query's data are replaced.
Refetch ==
    /\ rows' \in 0..list.limit
    /\ shrunk' = (shrunk \/ rows' < rows)
    /\ UNCHANGED <<list, currentPage>>

\* Mutant of ChangeFilter: the page is kept.
ChangeFilterOnly ==
    /\ list.filtered
    /\ rows' \in 0..list.limit
    /\ shrunk' = FALSE
    /\ UNCHANGED <<list, currentPage>>

\* The filter's effect goes to the first page; its rows come from the cache, from
\* the server, or from the search over the rows at hand.
ChangeFilter ==
    /\ list.filtered
    /\ rows' \in 0..list.limit
    /\ currentPage' = 1 /\ shrunk' = FALSE
    /\ UNCHANGED list

\* Mutant of PreviousPage: neither the button nor the page has a lower bound.
PreviousPageUnbounded ==
    /\ totalPages > 1
    /\ currentPage' = currentPage - 1
    /\ shrunk' = (shrunk /\ currentPage' > totalPages)
    /\ UNCHANGED <<list, rows>>

\* The buttons are there when there is more than one page.
PreviousPage ==
    /\ totalPages > 1 /\ currentPage # 1
    /\ currentPage' = IF currentPage - 1 > 1 THEN currentPage - 1 ELSE 1
    /\ shrunk' = (shrunk /\ currentPage' > totalPages)
    /\ UNCHANGED <<list, rows>>

NextPage ==
    /\ totalPages > 1 /\ currentPage # totalPages
    /\ currentPage' = IF currentPage + 1 < totalPages THEN currentPage + 1 ELSE totalPages
    /\ shrunk' = FALSE
    /\ UNCHANGED <<list, rows>>

ListNext == Refetch \/ ChangeFilter \/ PreviousPage \/ NextPage

ListSpec == ListInit /\ [][ListNext]_listVars

------------------------------------------------------------------------------
\* Every variable has its type.
ListTypeOK ==
    /\ list \in {IncidentsList, AlertsList, UsersList, AuditList} \union SuperLists
    /\ rows \in 0..list.limit /\ shrunk \in BOOLEAN
    /\ currentPage \in 1..(1 + list.limit \div list.itemsPerPage)

\* A list that has rows shows some, unless it has got shorter under the page the
\* user was on: then the page stays empty, without buttons when one page is left,
\* until the list grows, the user goes back, or the filter changes.
EmptyPageOnlyAfterShrink == rows > 0 /\ currentPage > totalPages => shrunk
==============================================================================
