--------------------------- MODULE ServiceConsole ---------------------------
(***************************************************************************)
(* The service view of ObservabilityConsole: the list that is polled, the   *)
(* service the inspector shows, and the creations and deletions whose       *)
(* callbacks change the selection when their answers come.  Services are    *)
(* numbered as they are created and the API lists the newest first.         *)
(* A second creation or deletion before the first is answered is left out   *)
(* (of two, only the later call's own callback would run), as are the       *)
(* simulated logs, the chart and the counters, which keep no state of the   *)
(* system.                                                                  *)
(***************************************************************************)
EXTENDS Naturals, FiniteSets

CONSTANT MaxServices   \* how many services are ever created

ASSUME ConsoleAssumption == MaxServices \in Nat \ {0}

NoNode == 0
Ids == 1..MaxServices

VARIABLES
    created,       \* how many services have been created
    there,         \* the services the API has
    dbServices,    \* the list in the query cache
    answer,        \* the list an answered query is bringing
    fetching,      \* none, asked or answered
    selectedNode,  \* the service selected
    creating,      \* the service a creation's answer brings
    deleting,      \* the service being deleted, and the one selected at the click
    swapped        \* since the effect last ran a list as long as the one before replaced it

consoleVars == <<created, there, dbServices, answer, fetching, selectedNode, creating,
                 deleting, swapped>>
NoDeletion == [id |-> NoNode, selected |-> NoNode, done |-> FALSE]

------------------------------------------------------------------------------
ConsoleInit ==
    /\ created \in {0, 1} /\ there = 1..created
    /\ dbServices = {} /\ answer = {} /\ fetching = "none"
    /\ selectedNode = NoNode /\ creating = NoNode /\ deleting = NoDeletion
    /\ swapped = FALSE

\* The first of a list.
Newest(nodes) == CHOOSE id \in nodes : \A other \in nodes : other <= id

\* Mutant of Settle: the effect selects a service only where none is selected.
SettleIfNone(newList, node) ==
    /\ dbServices' = newList
    /\ selectedNode' = IF newList = {} THEN NoNode
                       ELSE IF node = NoNode THEN Newest(newList) ELSE node
    /\ UNCHANGED swapped

\* The list and the selection change, and then the effect that depends on the length
\* of the list and the selected identifier runs, if one of the two is another: it
\* keeps the selection if it is listed and takes the first of the list otherwise.
Settle(newList, node) ==
    LET runs == Cardinality(newList) # Cardinality(dbServices) \/ node # selectedNode
    IN /\ dbServices' = newList
       /\ selectedNode' = CASE ~runs \/ node \in newList -> node
                            [] runs /\ newList = {} -> NoNode
                            [] OTHER -> Newest(newList)
       /\ swapped' = (~runs /\ (swapped \/ newList # dbServices))

\* The queries' own interval, and invalidateQueries, which asks again.
AskServices ==
    /\ fetching = "none" /\ fetching' = "asked"
    /\ UNCHANGED <<created, there, dbServices, answer, selectedNode, creating, deleting, swapped>>

ApiLists ==
    /\ fetching = "asked" /\ fetching' = "answered" /\ answer' = there
    /\ UNCHANGED <<created, there, dbServices, selectedNode, creating, deleting, swapped>>

ListArrives ==
    /\ fetching = "answered" /\ fetching' = "none" /\ answer' = {}
    /\ Settle(answer, selectedNode)
    /\ UNCHANGED <<created, there, creating, deleting>>

Invalidate == fetching' = "asked" /\ answer' = {}

SelectNode ==
    /\ \E id \in dbServices : Settle(dbServices, id)
    /\ UNCHANGED <<created, there, answer, fetching, creating, deleting>>

\* handleAddService: the API stores the service; onSuccess selects it, before the
\* list has it.
CreateNode ==
    /\ creating = NoNode /\ created < MaxServices
    /\ created' = created + 1 /\ creating' = created'
    /\ there' = there \union {creating'}
    /\ UNCHANGED <<dbServices, answer, fetching, selectedNode, deleting, swapped>>

NodeCreated ==
    /\ creating # NoNode /\ creating' = NoNode
    /\ Invalidate
    /\ Settle(dbServices, creating)
    /\ UNCHANGED <<created, there, deleting>>

\* handleDeleteService; what was selected at the click is what its callback sees.
ClickDelete ==
    /\ deleting = NoDeletion
    /\ \E id \in dbServices : deleting' = [id |-> id, selected |-> selectedNode, done |-> FALSE]
    /\ UNCHANGED <<created, there, dbServices, answer, fetching, selectedNode, creating, swapped>>

DeleteNode ==
    /\ deleting.id \in there /\ ~deleting.done
    /\ there' = there \ {deleting.id} /\ deleting' = [deleting EXCEPT !.done = TRUE]
    /\ UNCHANGED <<created, dbServices, answer, fetching, selectedNode, creating, swapped>>

NodeDeleted ==
    /\ deleting.done /\ deleting' = NoDeletion
    /\ Invalidate
    /\ Settle(dbServices, IF deleting.selected = deleting.id THEN NoNode ELSE selectedNode)
    /\ UNCHANGED <<created, there, creating>>

\* A 404, or any other failure: a message only.
DeleteFails ==
    /\ deleting # NoDeletion /\ ~deleting.done /\ deleting' = NoDeletion
    /\ UNCHANGED <<created, there, dbServices, answer, fetching, selectedNode, creating, swapped>>

\* Other users.
OthersCreate ==
    /\ created < MaxServices /\ created' = created + 1 /\ there' = there \union {created'}
    /\ UNCHANGED <<dbServices, answer, fetching, selectedNode, creating, deleting, swapped>>

OthersDelete ==
    /\ \E id \in there : there' = there \ {id}
    /\ UNCHANGED <<created, dbServices, answer, fetching, selectedNode, creating, deleting, swapped>>

ConsoleNext ==
    \/ AskServices \/ ApiLists \/ ListArrives \/ SelectNode
    \/ CreateNode \/ NodeCreated \/ ClickDelete \/ DeleteNode \/ NodeDeleted \/ DeleteFails
    \/ OthersCreate \/ OthersDelete

ConsoleSpec == ConsoleInit /\ [][ConsoleNext]_consoleVars

------------------------------------------------------------------------------
\* Every variable has its type.
ConsoleTypeOK ==
    /\ created \in 0..MaxServices /\ there \subseteq Ids
    /\ dbServices \subseteq Ids /\ answer \subseteq Ids
    /\ fetching \in {"none", "asked", "answered"}
    /\ selectedNode \in Ids \union {NoNode} /\ creating \in Ids \union {NoNode}
    /\ deleting \in [id : Ids \union {NoNode}, selected : Ids \union {NoNode}, done : BOOLEAN]
    /\ swapped \in BOOLEAN

\* The inspector shows a service that is in the list, and one if there is any,
\* however polls, creations and deletions interleave, unless another list of the same
\* length came, which the effect does not notice.
\* (So a service that was just created is not the one shown: it is selected before
\* the list has it, and the effect takes the first of the list.)
SelectionListed ==
    \/ selectedNode \in dbServices
    \/ selectedNode = NoNode /\ dbServices = {}
    \/ swapped
==============================================================================
