-------------------------------- MODULE Paging --------------------------------
(***************************************************************************)
(* A client of the API walks a listing page by page with limit and skip,    *)
(* the newest row first, while rows are stored, leave and enter it: alerts  *)
(* and checks go with their service, an incident leaves a listing filtered  *)
(* by status when it is acknowledged or resolved, and enters another.       *)
(* The rows are those the where clause of the service lets through for this *)
(* user.  PostgreSQL is external: rows of one timestamp come in any order,  *)
(* another one for every query.                                             *)
(***************************************************************************)
EXTENDS Naturals, Sequences, FiniteSets

CONSTANTS
    Limit,       \* rows to a page
    MaxRows,     \* rows ever stored
    LastTime     \* the clock's last tick

ASSUME PagingAssumption == Limit \in Nat \ {0} /\ MaxRows \in Nat /\ LastTime \in Nat

VARIABLES
    createdAt,   \* the timestamps of the rows, in the order they were stored
    listed,      \* the rows the where clause lets through now
    clock,
    skip,        \* how many rows the walk has asked past
    walking,     \* no, yes, or over
    given,       \* the rows it was given
    steady,      \* the rows that were listed when it began and have been ever since
    removed      \* a row has left the listing since it began

pagingVars == <<createdAt, listed, clock, skip, walking, given, steady, removed>>
Rows == 1..MaxRows

------------------------------------------------------------------------------
PagingInit ==
    /\ createdAt = <<>> /\ listed = {} /\ clock = 0
    /\ skip = 0 /\ walking = "no" /\ given = {} /\ steady = {} /\ removed = FALSE

Min2(a, b) == IF a < b THEN a ELSE b

\* Mutant of Ordered: the listing is not ordered.
Unordered(s) == TRUE

\* orderBy createdAt (checkedAt, startedAt) desc.
Ordered(s) == \A i, j \in DOMAIN s : i < j => createdAt[s[i]] >= createdAt[s[j]]

\* The orders the rows may be listed in: each once.
Listings ==
    {s \in [1..Cardinality(listed) -> listed] :
        Ordered(s) /\ \A i, j \in DOMAIN s : i # j => s[i] # s[j]}

\* take: limit, skip.
FindPage ==
    /\ walking = "yes"
    /\ LET last == Min2(skip + Limit, Cardinality(listed))
       IN \E s \in Listings : given' = given \union {s[i] : i \in (skip + 1)..last}
    /\ skip' = Min2(skip + Limit, MaxRows + Limit)
    /\ walking' = IF Cardinality(listed) < skip + Limit THEN "over" ELSE "yes"
    /\ UNCHANGED <<createdAt, listed, clock, steady, removed>>

BeginWalk ==
    /\ walking = "no" /\ walking' = "yes"
    /\ skip' = 0 /\ given' = {} /\ steady' = listed /\ removed' = FALSE
    /\ UNCHANGED <<createdAt, listed, clock>>

EndWalk ==
    /\ walking = "over" /\ walking' = "no"
    /\ skip' = 0 /\ given' = {} /\ steady' = {} /\ removed' = FALSE
    /\ UNCHANGED <<createdAt, listed, clock>>

------------------------------------------------------------------------------
\* The rest of the system.
StoreRow ==
    /\ Len(createdAt) < MaxRows
    /\ createdAt' = Append(createdAt, clock)
    /\ listed' = listed \union {Len(createdAt')}
    /\ UNCHANGED <<clock, skip, walking, given, steady, removed>>

RowLeaves ==
    /\ \E row \in listed : listed' = listed \ {row} /\ steady' = steady \ {row}
    /\ removed' = (walking # "no")
    /\ UNCHANGED <<createdAt, clock, skip, walking, given>>

RowEnters ==
    /\ \E row \in DOMAIN createdAt \ listed : listed' = listed \union {row}
    /\ UNCHANGED <<createdAt, clock, skip, walking, given, steady, removed>>

PagingClock ==
    /\ clock < LastTime /\ clock' = clock + 1
    /\ UNCHANGED <<createdAt, listed, skip, walking, given, steady, removed>>

PagingNext ==
    \/ BeginWalk \/ FindPage \/ EndWalk
    \/ StoreRow \/ RowLeaves \/ RowEnters \/ PagingClock

PagingSpec == PagingInit /\ [][PagingNext]_pagingVars

------------------------------------------------------------------------------
\* Every variable has its type.
PagingTypeOK ==
    /\ Len(createdAt) <= MaxRows /\ \A row \in DOMAIN createdAt : createdAt[row] \in 0..LastTime
    /\ listed \subseteq DOMAIN createdAt /\ given \subseteq DOMAIN createdAt
    /\ steady \subseteq listed /\ removed \in BOOLEAN
    /\ clock \in 0..LastTime /\ skip \in 0..(MaxRows + Limit)
    /\ walking \in {"no", "yes", "over"}

Tied == \E i, j \in DOMAIN createdAt : i # j /\ createdAt[i] = createdAt[j]

\* A walk to the end gives every row that was there all the time, although rows are
\* stored on top of the pages already read, unless a row left the listing meanwhile
\* (the ones behind it move up, past the place the next page begins at) or rows have
\* the same timestamp.
WalkMissesNothing == walking = "over" /\ ~removed /\ ~Tied => steady \subseteq given
==============================================================================
