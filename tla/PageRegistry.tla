----------------------------- MODULE PageRegistry -----------------------------
(*****************************************************************************)
(* The page handles of the local API (api.py): _sync_pages gives the pages of *)
(* a running profile their ids, listens to them and forgets the ids of closed *)
(* pages; stop and restart clear the tables. The tables are keyed by profile, *)
(* except the object ids of the pages listened to; this is one profile.       *)
(*                                                                            *)
(* _sync_pages has no await, and so is one action. The requests that list,    *)
(* open, address or close a page call it before and after what they ask of    *)
(* the browser; that part is the browser's own steps here, PageOpens and      *)
(* PageCloses, at any time between. A profile's start and stop are one step:  *)
(* between their awaits the profile is not running and _sync_pages raises.    *)
(*****************************************************************************)
EXTENDS Naturals, FiniteSets, Functions

CONSTANTS
    Pages,      \* Playwright's Page objects, over all runs of the browser
    Addresses,  \* what id() returns: the addresses of these objects
    NoPage, NoAddress

ASSUME PagesAreFinite == IsFiniteSet(Pages)
ASSUME NullAssumption == NoPage \notin Pages /\ NoAddress \notin Addresses

(* Page-01, Page-02, ...: no more ids than page objects are given.           *)
Handles == 1 .. Cardinality(Pages)

NoHandle == 0

VARIABLES
    running,   \* the manager's record says "running"
    live,      \* context.pages
    addr,      \* the address of each page object; NoAddress: not yet made
    registry,  \* self._page_registry, by handle
    next,      \* self._page_next_number
    default,   \* self._default_page_id
    closedIds, \* self._closed_page_ids
    attached,  \* self._attached_page_objects
    listeners, \* how often the dialog and popup listeners of a page are set
    given,     \* what clients know: the page each handle was given to
    past       \* the handles given before the present run of the browser

vars == <<running, live, addr, registry, next, default, closedIds, attached,
          listeners, given, past>>

TypeOK ==
    /\ running \in BOOLEAN
    /\ live \subseteq Pages
    /\ addr \in [Pages -> Addresses \cup {NoAddress}]
    /\ registry \in [Handles -> Pages \cup {NoPage}]
    /\ next \in 1 .. Cardinality(Pages) + 1
    /\ default \in Handles \cup {NoHandle}
    /\ closedIds \subseteq Handles
    /\ attached \subseteq Addresses
    /\ listeners \in [Pages -> Nat]
    /\ given \in [Handles -> Pages \cup {NoPage}]
    /\ past \subseteq Handles

Init ==
    /\ running = FALSE
    /\ live = {}
    /\ addr = [p \in Pages |-> NoAddress]
    /\ registry = [h \in Handles |-> NoPage]
    /\ next = 1
    /\ default = NoHandle
    /\ closedIds = {}
    /\ attached = {}
    /\ listeners = [p \in Pages |-> 0]
    /\ given = [h \in Handles |-> NoPage]
    /\ past = {}

Registered(p) == \E h \in Handles : registry[h] = p

-----------------------------------------------------------------------------
(* The browser                                                               *)

(* An object is freed, and its address free, once the context and the         *)
(* registry have dropped it.                                                  *)
InUse == {addr[p] : p \in {q \in Pages : q \in live \/ Registered(q)}}

PageOpens(p, a) ==
    /\ running
    /\ addr[p] = NoAddress
    /\ a \notin InUse
    /\ live' = live \cup {p}
    /\ addr' = [addr EXCEPT ![p] = a]
    /\ UNCHANGED <<running, registry, next, default, closedIds, attached, listeners, given, past>>

PageCloses(p) ==
    /\ p \in live
    /\ live' = live \ {p}
    /\ UNCHANGED <<running, addr, registry, next, default, closedIds, attached, listeners, given,
                   past>>

-----------------------------------------------------------------------------
(* The API                                                                   *)

(* Mutant of Kept: ids of pages are compared with ids of objects.            *)
KeptNothing == [h \in Handles |-> NoPage]

(* The registry without the pages whose id() is not that of a live page.     *)
Kept ==
    [h \in Handles |->
        IF registry[h] \in Pages /\ addr[registry[h]] \notin {addr[p] : p \in live}
        THEN NoPage ELSE registry[h]]

(* The live pages that have no handle.                                       *)
Unregistered == live \ {Kept[h] : h \in Handles}

(* Kept, with the i-th new page of context.pages under the handle next+i-1.  *)
Extended(order) ==
    [h \in Handles |->
        IF h >= next /\ h < next + Cardinality(Unregistered)
        THEN order[h - next + 1] ELSE Kept[h]]

(* The default page stays while it is registered; then it is the first of     *)
(* the registry, whose entries are in the order of their numbers.             *)
KeepOrMoveDefault(pages) ==
    LET open == {h \in Handles : pages[h] # NoPage}
    IN  \/ default \in open /\ default' = default
        \/ default \notin open /\ default' \in {h \in open : \A k \in open : h <= k}
        \/ open = {} /\ default' = NoHandle

(* Mutant of AttachPageEvents: the known ids are not looked at.              *)
AttachAgain ==
    /\ attached' = attached \cup {addr[p] : p \in live}
    /\ listeners' = [p \in Pages |-> IF p \in live THEN listeners[p] + 1 ELSE listeners[p]]

(* _attach_page_events on every live page.                                   *)
AttachPageEvents ==
    /\ attached' = attached \cup {addr[p] : p \in live}
    /\ listeners' = [p \in Pages |->
                        IF p \in live /\ addr[p] \notin attached
                        THEN listeners[p] + 1 ELSE listeners[p]]

SyncPages ==
    /\ running
    /\ \E order \in Bijection(1 .. Cardinality(Unregistered), Unregistered) :
           /\ registry' = Extended(order)
           /\ KeepOrMoveDefault(Extended(order))
           /\ given' = [h \in Handles |->
                           IF given[h] = NoPage THEN Extended(order)[h] ELSE given[h]]
    /\ next' = next + Cardinality(Unregistered)
    /\ closedIds' = closedIds \cup {h \in Handles : registry[h] # NoPage /\ Kept[h] = NoPage}
    /\ AttachPageEvents
    /\ UNCHANGED <<running, live, addr, past>>

(* Mutant of ClearProfilePages: the numbers start again.                     *)
ClearNumbers ==
    /\ registry' = [h \in Handles |-> NoPage]
    /\ next' = 1
    /\ default' = NoHandle
    /\ closedIds' = {}
    /\ attached' = attached \ {addr[p] : p \in {q \in Pages : Registered(q)}}
    /\ UNCHANGED <<listeners, given>>

ClearProfilePages ==
    /\ registry' = [h \in Handles |-> NoPage]
    /\ default' = NoHandle
    /\ closedIds' = {}
    /\ attached' = attached \ {addr[p] : p \in {q \in Pages : Registered(q)}}
    /\ UNCHANGED <<next, listeners, given>>

KeepProfilePages == UNCHANGED <<registry, default, closedIds, attached, next, listeners, given>>

(* A run of the browser begins, with a context of its own.                   *)
NewRun ==
    /\ running' = TRUE
    /\ live' = {}
    /\ past' = {h \in Handles : given[h] # NoPage}
    /\ UNCHANGED addr

EndOfRun ==
    /\ running' = FALSE
    /\ live' = {}
    /\ UNCHANGED <<addr, past>>

(* Mutant of Start: the tables are cleared as after stop.                    *)
StartClears ==
    /\ ClearProfilePages
    /\ IF running THEN UNCHANGED <<running, live, addr, past>> ELSE NewRun

(* POST start; of a running profile it returns the record.                   *)
Start ==
    /\ KeepProfilePages
    /\ IF running THEN UNCHANGED <<running, live, addr, past>> ELSE NewRun

(* POST stop, of a profile in any state.                                     *)
Stop == ClearProfilePages /\ EndOfRun

(* POST restart. The manager's restart marks the record "running" and returns *)
(* without an await between, so that nothing of the new run is registered.    *)
Restart == ClearProfilePages /\ NewRun

(* The browser disappears, or the manager's stop or restart raises.          *)
RunLost ==
    /\ running
    /\ KeepProfilePages
    /\ EndOfRun

Next ==
    \/ \E p \in Pages : PageCloses(p) \/ \E a \in Addresses : PageOpens(p, a)
    \/ SyncPages \/ Start \/ Stop \/ Restart \/ RunLost

Spec == Init /\ [][Next]_vars

-----------------------------------------------------------------------------
(* Properties                                                                *)

(* A handle means one page for ever: after closing, stopping and restarting   *)
(* it never addresses another page than the one it was given to ("Page IDs    *)
(* are API-layer handles for one browser run"), and no two handles of the     *)
(* registry address one page.                                                 *)
HandleMeansOnePage ==
    \A h \in Handles :
        registry[h] # NoPage =>
            /\ registry[h] = given[h]
            /\ \A k \in Handles : registry[k] = registry[h] => k = h

(* A page that stays open keeps its handle, and the default page stays the    *)
(* default, whatever requests list, open or close other pages or start the    *)
(* running profile again.                                                     *)
OpenPageKeepsHandle ==
    [][\A h \in Handles :
           (registry[h] # NoPage /\ registry[h] \in live /\ registry[h] \in live') =>
               /\ registry'[h] = registry[h]
               /\ (default = h) => (default' = h)]_vars

(* A page with a handle is listened to once; or not at all, when it has the   *)
(* address of an earlier page whose id stayed in _attached_page_objects (its  *)
(* dialogs and popups are then not recorded). Never twice, which would record *)
(* each dialog under two ids.                                                 *)
HeardOnceUnlessReused ==
    \A h \in Handles :
        LET p == registry[h]
        IN  p # NoPage =>
                \/ listeners[p] = 1
                \/ /\ listeners[p] = 0
                   /\ \E q \in Pages \ {p} : addr[q] = addr[p] /\ listeners[q] = 1

(* "discarded when a context restarts" (comment of _page_registry): in a run, *)
(* no page id of an earlier run is known as a closed page.                    *)
DiscardedOnRestart == running => closedIds \cap past = {}

=============================================================================
