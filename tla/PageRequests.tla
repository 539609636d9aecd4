----------------------------- MODULE PageRequests -----------------------------
(*****************************************************************************)
(* The requests that use the pages of PageRegistry: actions on a page under a *)
(* lock of its id or of "default" (_handle_client), POST pages, which opens a *)
(* page and navigates it without a lock, the popups and dialogs that pages    *)
(* announce by callbacks, and the answers to dialogs.                         *)
(*                                                                            *)
(* A request that waits for a lock is one that has not begun: nothing of it    *)
(* is seen before. What an action does in the browser are the browser's own    *)
(* steps, which come at any time: an action may open pages, dialogs and        *)
(* popups, close its page, or do nothing of this.                             *)
(*****************************************************************************)
EXTENDS PageRegistry

CONSTANTS
    Requests,   \* the requests under way at once
    NoRequest,
    Dialogs,    \* Playwright's Dialog objects, over all runs of the browser
    NoDialog

ASSUME DialogsAreFinite == IsFiniteSet(Dialogs)
ASSUME NullRequestAssumption == NoRequest \notin Requests /\ NoDialog \notin Dialogs

(* The key of "profile/default"; a page's own key is its id.                 *)
DefaultKey == NoHandle
Keys == Handles \cup {DefaultKey}

(* Dialog-0001, ...                                                          *)
DialogIds == 1 .. Cardinality(Dialogs)

VARIABLES
    opener,     \* the page that opened a popup
    popups,     \* the popups whose callback has not run
    dialogPage, \* the page of each dialog; NoPage: not yet shown
    open,       \* the dialogs that the browser shows
    announced,  \* the dialogs whose callback has not run
    dialogs,    \* self._dialogs: dialog and page id, by number
    nextDialog, \* self._dialog_next
    events,     \* self._events, without numbers and times
    locks,      \* self._page_locks: who holds each
    req         \* the requests

requestVars == <<opener, popups, dialogPage, open, announced, dialogs, nextDialog, events, locks,
                 req>>
allVars == <<vars, requestVars>>

Event == [type : {"new_page", "popup"}, source : Keys, new : Keys]
NoEntry == [dialog |-> NoDialog, page |-> NoHandle]
Idle == [pc |-> "idle", key |-> DefaultKey, page |-> NoPage, number |-> 0, dialog |-> NoDialog]
Acting(k, p) == [pc |-> "acting", key |-> k, page |-> p, number |-> 0, dialog |-> NoDialog]
Posting(pc, p) == [pc |-> pc, key |-> DefaultKey, page |-> p, number |-> 0, dialog |-> NoDialog]
Answering(n, d) ==
    [pc |-> "answering", key |-> DefaultKey, page |-> NoPage, number |-> n, dialog |-> d]

TypeOKRequests ==
    /\ opener \in [Pages -> Pages \cup {NoPage}]
    /\ popups \subseteq Pages
    /\ dialogPage \in [Dialogs -> Pages \cup {NoPage}]
    /\ open \subseteq Dialogs
    /\ announced \subseteq Dialogs
    /\ dialogs \in [DialogIds -> [dialog : Dialogs \cup {NoDialog}, page : Keys]]
    /\ nextDialog \in 1 .. Cardinality(Dialogs) + 1
    /\ events \subseteq Event
    /\ locks \in [Keys -> Requests \cup {NoRequest}]
    /\ req \in [Requests ->
           [pc : {"idle", "acting", "opening", "navigating", "answering", "answered"},
            key : Keys, page : Pages \cup {NoPage}, number : DialogIds \cup {0},
            dialog : Dialogs \cup {NoDialog}]]
    /\ \A r \in Requests :
           req[r].pc \in {"acting", "opening", "navigating"} => req[r].page \in Pages

InitRequests ==
    /\ Init
    /\ opener = [p \in Pages |-> NoPage]
    /\ popups = {}
    /\ dialogPage = [d \in Dialogs |-> NoPage]
    /\ open = {}
    /\ announced = {}
    /\ dialogs = [n \in DialogIds |-> NoEntry]
    /\ nextDialog = 1
    /\ events = {}
    /\ locks = [k \in Keys |-> NoRequest]
    /\ req = [r \in Requests |-> Idle]

-----------------------------------------------------------------------------
(* The browser                                                               *)

(* A dialog goes with its page.                                              *)
DialogsGo == open' = {d \in open : dialogPage[d] \in live'}

Opens(p, a) == PageOpens(p, a) /\ UNCHANGED requestVars

(* A page opens a popup, and tells its listener if it has one.               *)
PopupOpens(q, p, a) ==
    /\ q \in live
    /\ PageOpens(p, a)
    /\ opener' = [opener EXCEPT ![p] = q]
    /\ popups' = IF listeners[q] > 0 THEN popups \cup {p} ELSE popups
    /\ UNCHANGED <<dialogPage, open, announced, dialogs, nextDialog, events, locks, req>>

Closes(p) ==
    /\ PageCloses(p)
    /\ DialogsGo
    /\ UNCHANGED <<opener, popups, dialogPage, announced, dialogs, nextDialog, events, locks, req>>

(* A page shows one dialog at a time; without a listener Playwright dismisses *)
(* it at once, which nobody sees.                                             *)
DialogOpens(d, p) ==
    /\ p \in live
    /\ listeners[p] > 0
    /\ \A e \in open : dialogPage[e] # p
    /\ dialogPage[d] = NoPage
    /\ dialogPage' = [dialogPage EXCEPT ![d] = p]
    /\ open' = open \cup {d}
    /\ announced' = announced \cup {d}
    /\ UNCHANGED <<vars, opener, popups, dialogs, nextDialog, events, locks, req>>

-----------------------------------------------------------------------------
(* The callbacks of the listeners                                            *)

(* _page_id_for_object.                                                      *)
IdOf(pages, p) ==
    IF \E h \in Handles : pages[h] = p THEN CHOOSE h \in Handles : pages[h] = p ELSE NoHandle

(* _register_dialog; it runs after a stop as well.                           *)
RegisterDialog(d) ==
    /\ d \in announced
    /\ announced' = announced \ {d}
    /\ dialogs' = [dialogs EXCEPT ![nextDialog] =
                      [dialog |-> d, page |-> IdOf(registry, dialogPage[d])]]
    /\ nextDialog' = nextDialog + 1
    /\ UNCHANGED <<vars, opener, popups, dialogPage, open, events, locks, req>>

(* The events that _sync_pages records.                                      *)
NewPageEvents ==
    {[type |-> "new_page", source |-> NoHandle, new |-> h] :
        h \in {k \in Handles : registry'[k] # NoPage /\ registry[k] # registry'[k]}}

(* Mutant of SourceOf: the popup is said to come from the default page.      *)
SourceIsDefault(p) == default

(* The source of a popup, before _sync_pages.                                *)
SourceOf(p) == IdOf(registry, opener[p])

(* _register_popup; when the profile no longer runs, _sync_pages raises.     *)
RegisterPopup(p) ==
    /\ p \in popups
    /\ popups' = popups \ {p}
    /\ \/ /\ SyncPages
          /\ events' = events \cup NewPageEvents \cup
                {[type |-> "popup", source |-> SourceOf(p), new |-> IdOf(registry', p)]}
       \/ /\ ~running
          /\ UNCHANGED <<vars, events>>
    /\ UNCHANGED <<opener, dialogPage, open, announced, dialogs, nextDialog, locks, req>>

-----------------------------------------------------------------------------
(* Requests                                                                  *)

(* GET pages, GET page, GET events: _sync_pages without a lock. What the first *)
(* two then await of their pages, titles and ready state, changes nothing.    *)
Sync ==
    /\ SyncPages
    /\ events' = events \cup NewPageEvents
    /\ UNCHANGED <<opener, popups, dialogPage, open, announced, dialogs, nextDialog, locks, req>>

(* Mutant of Locked: each request makes a lock of its own.                   *)
LockedByNobody(k) == FALSE

Locked(k) == locks[k] # NoRequest

(* The page of a key: _page_for.                                             *)
Addressed(k) ==
    LET h == IF k = DefaultKey THEN default' ELSE k
    IN  IF h = NoHandle THEN NoPage ELSE registry'[h]

(* Mutant of BeginAction: a closed page is not looked for.                   *)
BeginAnyAction(r, k) ==
    /\ req[r] = Idle
    /\ ~Locked(k)
    /\ SyncPages
    /\ events' = events \cup NewPageEvents
    /\ locks' = [locks EXCEPT ![k] = r]
    /\ req' = [req EXCEPT ![r] = Acting(k, Addressed(k))]
    /\ UNCHANGED <<opener, popups, dialogPage, open, announced, dialogs, nextDialog>>

(* An action on a page up to what it asks of the page. Without a page the     *)
(* request ends, and has done what Sync does.                                 *)
BeginAction(r, k) ==
    /\ req[r] = Idle
    /\ ~Locked(k)
    /\ SyncPages
    /\ Addressed(k) # NoPage
    /\ events' = events \cup NewPageEvents
    /\ locks' = [locks EXCEPT ![k] = r]
    /\ req' = [req EXCEPT ![r] = Acting(k, Addressed(k))]
    /\ UNCHANGED <<opener, popups, dialogPage, open, announced, dialogs, nextDialog>>

(* The page has answered, closed, or timed out. The request that closes a     *)
(* page calls _sync_pages once more, under the lock.                          *)
EndAction(r) ==
    /\ req[r].pc = "acting"
    /\ \/ SyncPages /\ events' = events \cup NewPageEvents
       \/ UNCHANGED <<vars, events>>
    /\ locks' = [locks EXCEPT ![req[r].key] = NoRequest]
    /\ req' = [req EXCEPT ![r] = Idle]
    /\ UNCHANGED <<opener, popups, dialogPage, open, announced, dialogs, nextDialog>>

(* POST pages: the page it asked for is open, and the request has not resumed. *)
NewPageOpens(r, p, a) ==
    /\ req[r] = Idle
    /\ PageOpens(p, a)
    /\ req' = [req EXCEPT ![r] = Posting("opening", p)]
    /\ UNCHANGED <<opener, popups, dialogPage, open, announced, dialogs, nextDialog, events, locks>>

(* It registers the page, if that is still open, and navigates it: two tries  *)
(* of 30 s without a lock. Or new_page has timed out, or the profile no longer *)
(* runs.                                                                      *)
NavigateNewPage(r) ==
    /\ req[r].pc = "opening"
    /\ \/ /\ SyncPages
          /\ events' = events \cup NewPageEvents
          /\ req' = [req EXCEPT ![r] = IF \E h \in Handles : registry'[h] = @.page
                                       THEN Posting("navigating", @.page) ELSE Idle]
       \/ /\ req' = [req EXCEPT ![r] = Idle]
          /\ UNCHANGED <<vars, events>>
    /\ UNCHANGED <<opener, popups, dialogPage, open, announced, dialogs, nextDialog, locks>>

(* The page has answered, or there was no url; after an invalid one the page  *)
(* is closed and _sync_pages called once more.                                *)
EndPost(r) ==
    /\ req[r].pc = "navigating"
    /\ \/ SyncPages /\ events' = events \cup NewPageEvents
       \/ UNCHANGED <<vars, events>>
    /\ req' = [req EXCEPT ![r] = Idle]
    /\ UNCHANGED <<opener, popups, dialogPage, open, announced, dialogs, nextDialog, locks>>

(* POST dialogs/n/accept or dismiss, until it waits for the browser.         *)
BeginAnswer(r, n) ==
    /\ req[r] = Idle
    /\ dialogs[n].dialog # NoDialog
    /\ req' = [req EXCEPT ![r] = Answering(n, dialogs[n].dialog)]
    /\ UNCHANGED <<vars, opener, popups, dialogPage, open, announced, dialogs, nextDialog, events,
                   locks>>

(* The browser closes the dialog; or it has gone, and the answer raises.     *)
BrowserAnswers(r) ==
    /\ req[r].pc = "answering"
    /\ open' = open \ {req[r].dialog}
    /\ req' = [req EXCEPT ![r] = IF req[r].dialog \in open
                                 THEN [@ EXCEPT !.pc = "answered"] ELSE Idle]
    /\ UNCHANGED <<vars, opener, popups, dialogPage, announced, dialogs, nextDialog, events, locks>>

(* The entry goes; of a table cleared meanwhile nothing does.                *)
EndAnswer(r) ==
    /\ req[r].pc = "answered"
    /\ dialogs' = [dialogs EXCEPT ![req[r].number] = NoEntry]
    /\ req' = [req EXCEPT ![r] = Idle]
    /\ UNCHANGED <<vars, opener, popups, dialogPage, open, announced, nextDialog, events, locks>>

-----------------------------------------------------------------------------
(* Runs of the browser                                                       *)

(* Mutant of ClearEvents: the events are kept.                               *)
ClearDialogsOnly == dialogs' = [n \in DialogIds |-> NoEntry] /\ UNCHANGED <<events, nextDialog>>

(* Mutant of ClearEvents: the numbers of dialogs start again.                *)
ClearDialogNumbers ==
    /\ dialogs' = [n \in DialogIds |-> NoEntry]
    /\ nextDialog' = 1
    /\ events' = {}

(* The rest of _clear_profile_pages.                                         *)
ClearEvents ==
    /\ dialogs' = [n \in DialogIds |-> NoEntry]
    /\ events' = {}
    /\ UNCHANGED nextDialog

(* The endpoints start, stop and restart, and the loss of a run.             *)
Lifecycle ==
    /\ \/ (Start \/ RunLost) /\ UNCHANGED <<dialogs, nextDialog, events>>
       \/ (Stop \/ Restart) /\ ClearEvents
    /\ DialogsGo
    /\ UNCHANGED <<opener, popups, dialogPage, announced, locks, req>>

NextRequests ==
    \/ \E p \in Pages :
           \/ Closes(p) \/ RegisterPopup(p)
           \/ \E a \in Addresses : Opens(p, a) \/ \E q \in Pages : PopupOpens(q, p, a)
           \/ \E d \in Dialogs : DialogOpens(d, p)
    \/ \E d \in Dialogs : RegisterDialog(d)
    \/ \E r \in Requests :
           \/ \E k \in Keys : BeginAction(r, k)
           \/ \E n \in DialogIds : BeginAnswer(r, n)
           \/ \E p \in Pages, a \in Addresses : NewPageOpens(r, p, a)
           \/ EndAction(r) \/ NavigateNewPage(r) \/ EndPost(r)
           \/ BrowserAnswers(r) \/ EndAnswer(r)
    \/ Sync \/ Lifecycle

SpecRequests == InitRequests /\ [][NextRequests]_allVars

-----------------------------------------------------------------------------
(* Properties                                                                *)

(* How a request came to the page that it works on; no way is taken twice.   *)
Works(r) == req[r].pc \in {"acting", "navigating"}
Way(r) ==
    IF req[r].pc = "navigating" THEN "new" ELSE IF req[r].key = DefaultKey THEN "default" ELSE "id"

(* At most three requests work on one page at once: the POST pages that opened *)
(* it and navigates it under no lock (api.py 636), one action that addresses   *)
(* it by default and one by its id, under the two locks that a page has. (The  *)
(* GETs that only read a page take no lock either.) Neither closing, stopping  *)
(* and starting nor a change of the default page under a working request lets *)
(* more of them in.                                                           *)
ActionsExcludeEachOther ==
    \A r, s \in Requests :
        (r # s /\ Works(r) /\ Works(s) /\ req[r].page = req[s].page) => Way(r) # Way(s)

(* A dialog that waits for an answer is listed once its callback has run, as  *)
(* the dialog of the page that its page id addresses: an answer to another    *)
(* dialog that resumes late, in this or the next run, does not take it away.  *)
OpenDialogIsListed ==
    \A d \in open \ announced :
        \E n \in DialogIds :
            /\ dialogs[n].dialog = d
            /\ dialogs[n].page \in Handles
            /\ registry[dialogs[n].page] = dialogPage[d]

(* Each page id in the events listed is one the API knows, as an open or as a *)
(* closed page: a client is never told of a page that is then page_not_found. *)
EventsNameKnownPages ==
    \A e \in events : {e.source, e.new} \subseteq
        {NoHandle} \cup closedIds \cup {h \in Handles : registry[h] # NoPage}

(* A popup event never names another page than the popup and its opener, even *)
(* if it is recorded after these have closed or after a restart.              *)
PopupNamesItsPages ==
    \A e \in events :
        (e.type = "popup" /\ NoHandle \notin {e.source, e.new}) =>
            opener[given[e.new]] = given[e.source]

=============================================================================
