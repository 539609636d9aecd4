---------------------------- MODULE DownloadTracker ----------------------------
(*****************************************************************************)
(* ProfileDownloadManager (downloads.py): the downloads of one browser run,   *)
(* observed through CDP events, and the download requests of the API that     *)
(* wait for them. Handlers and requests share one event loop and one          *)
(* asyncio.Event, changed; an action is the code between two awaits.          *)
(*                                                                            *)
(* The tracker is attached: attach() is awaited by the start of the profile,  *)
(* before a request can ask for the tracker.                                  *)
(*****************************************************************************)
EXTENDS Naturals

CONSTANTS
    Guids,     \* the downloads of the run, by guid
    Waiters,   \* slots for download requests
    Keys,      \* what matches a download to a request: url and file name
    NoKey, NoGuid

ASSUME NullAssumption == NoKey \notin Keys /\ NoGuid \notin Guids

VARIABLES
    inlineWait, \* asyncio.wait_for awaits its argument in the calling task
                \* (Python 3.12), or in a task of its own (earlier versions)
    chrome,     \* each download: "none", "begun", "seen" by the tracker, "over"
    keyOf,      \* url and suggested file name of each download
    closed,     \* self._closed
    sequence,   \* self._sequence
    downloads,  \* self._downloads; sequence 0: the guid has no entry
    changed,    \* self._changed
    waiter      \* the requests

vars == <<inlineWait, chrome, keyOf, closed, sequence, downloads, changed, waiter>>

Item == [sequence : Nat, key : Keys \cup {NoKey}, outcome : {"open", "result", "error"}]

NoItem == [sequence |-> 0, key |-> NoKey, outcome |-> "open"]

(* pc: "idle"; "marked" (observation_marker taken, the page is clicked);       *)
(* "spawned" (the task that waits for the event has not run yet); "asleep" in *)
(* Event.wait; "woken" (its future is done, the task is scheduled); "done".   *)
Waiting == {"spawned", "asleep", "woken"}

Waiter == [pc : {"idle", "marked", "done"} \cup Waiting,
           marker : Nat,
           key : Keys \cup {NoKey},
           found : Guids \cup {NoGuid}]

Idle == [pc |-> "idle", marker |-> 0, key |-> NoKey, found |-> NoGuid]

TypeOK ==
    /\ inlineWait \in BOOLEAN
    /\ chrome \in [Guids -> {"none", "begun", "seen", "over"}]
    /\ keyOf \in [Guids -> Keys]
    /\ closed \in BOOLEAN
    /\ sequence \in Nat
    /\ downloads \in [Guids -> Item]
    /\ changed \in BOOLEAN
    /\ waiter \in [Waiters -> Waiter]

(* A download that is active when the tracker is attached has begun already:  *)
(* the tracker sees its progress only.                                        *)
Init ==
    /\ inlineWait \in BOOLEAN
    /\ chrome \in [Guids -> {"none", "seen"}]
    /\ keyOf \in [Guids -> Keys]
    /\ closed = FALSE
    /\ sequence = 0
    /\ downloads = [g \in Guids |-> NoItem]
    /\ changed = FALSE
    /\ waiter = [w \in Waiters |-> Idle]

-----------------------------------------------------------------------------
(* Events of the browser                                                     *)

Woken(w) == IF waiter[w].pc = "asleep" THEN [waiter[w] EXCEPT !.pc = "woken"] ELSE waiter[w]

(* Event.set: the flag, and the futures of all who sleep in Event.wait.      *)
SetChanged ==
    /\ changed' = TRUE
    /\ waiter' = [w \in Waiters |-> Woken(w)]

Begin(g) ==
    /\ chrome[g] = "none"
    /\ chrome' = [chrome EXCEPT ![g] = "begun"]
    /\ UNCHANGED <<inlineWait, keyOf, closed, sequence, downloads, changed, waiter>>

OnDownloadWillBegin(g) ==
    /\ ~closed
    /\ chrome[g] = "begun"
    /\ chrome' = [chrome EXCEPT ![g] = "seen"]
    /\ sequence' = sequence + 1
    /\ downloads' = [downloads EXCEPT ![g] =
                        [sequence |-> sequence + 1, key |-> keyOf[g], outcome |-> "open"]]
    /\ SetChanged
    /\ UNCHANGED <<inlineWait, keyOf, closed>>

(* The entry a progress event finds, or makes: one without url and name.     *)
ProgressItem(g) ==
    IF downloads[g].sequence = 0 THEN [NoItem EXCEPT !.sequence = sequence + 1] ELSE downloads[g]

Progress(g, outcome) ==
    /\ ~closed
    /\ chrome[g] = "seen"
    /\ sequence' = IF downloads[g].sequence = 0 THEN sequence + 1 ELSE sequence
    /\ downloads' = [downloads EXCEPT ![g] = [ProgressItem(g) EXCEPT !.outcome = outcome]]
    /\ UNCHANGED <<inlineWait, keyOf, closed>>

OnProgress(g) == Progress(g, "open") /\ SetChanged /\ UNCHANGED chrome

(* Mutant of OnCompleted: the event is not set.                              *)
CompletedUnannounced(g) ==
    /\ Progress(g, "result")
    /\ chrome' = [chrome EXCEPT ![g] = "over"]
    /\ UNCHANGED <<changed, waiter>>

OnCompleted(g) ==
    /\ Progress(g, "result")
    /\ chrome' = [chrome EXCEPT ![g] = "over"]
    /\ SetChanged

(* Canceled, or completed without a file in the profile's directory. _fail    *)
(* reports the error through _record_download_error, whose _save may raise:   *)
(* the handler ends before it sets the event.                                 *)
OnFailed(g) ==
    /\ Progress(g, "error")
    /\ chrome' = [chrome EXCEPT ![g] = "over"]
    /\ SetChanged \/ UNCHANGED <<changed, waiter>>

(* close, called when the profile is stopped.                                *)
Close ==
    /\ ~closed
    /\ closed' = TRUE
    /\ downloads' = [g \in Guids |-> NoItem]
    /\ SetChanged
    /\ UNCHANGED <<inlineWait, chrome, keyOf, sequence>>

-----------------------------------------------------------------------------
(* A download request                                                        *)

(* Its end: it returns the result of download g, or raises.                  *)
Answered(w, key, g) ==
    [waiter EXCEPT ![w].pc = "done", ![w].key = key, ![w].found = g]

Raised(w) == [waiter EXCEPT ![w] = Idle]

(* Mutant of TakeMarker: the marker is the number of the last download less   *)
(* one, as if it were compared with >=.                                       *)
TakeMarkerBefore(w) ==
    /\ waiter[w].pc = "idle"
    /\ waiter' = IF closed THEN Raised(w)
                 ELSE [waiter EXCEPT ![w].pc = "marked", ![w].marker = sequence - 1]
    /\ UNCHANGED <<inlineWait, chrome, keyOf, closed, sequence, downloads, changed>>

TakeMarker(w) ==
    /\ waiter[w].pc = "idle"
    /\ waiter' = IF closed THEN Raised(w)
                 ELSE [waiter EXCEPT ![w].pc = "marked", ![w].marker = sequence]
    /\ UNCHANGED <<inlineWait, chrome, keyOf, closed, sequence, downloads, changed>>

(* g is the first download after the marker that matches.                    *)
Matches(marker, key, g) == downloads[g].sequence > marker /\ downloads[g].key = key

FirstMatch(marker, key, g) ==
    /\ Matches(marker, key, g)
    /\ \A h \in Guids :
           Matches(marker, key, h) => downloads[g].sequence <= downloads[h].sequence

Decided(marker, key) ==
    \E g \in Guids : FirstMatch(marker, key, g) /\ downloads[g].outcome # "open"

(* Mutant of Look: any match will do.                                        *)
LookAtAnyMatch(w, key, flag) ==
    LET matches == {g \in Guids : Matches(waiter[w].marker, key, g)}
    IN  \/ \E g \in matches :
               downloads[g].outcome = "result" /\ waiter' = Answered(w, key, g) /\ changed' = flag
        \/ /\ \A g \in matches : downloads[g].outcome = "open"
           /\ waiter' = IF closed THEN Raised(w)
                        ELSE [waiter EXCEPT ![w].pc = "asleep", ![w].key = key]
           /\ changed' = (flag /\ closed)

(* The loop of wait_for_download with the event flag as it is, up to the     *)
(* await or the end. Awaited inline, Event.wait returns at once when the flag *)
(* is set; the flag is cleared, the loop looks again, and sleeps.             *)
Look(w, key, flag) ==
    LET marker == waiter[w].marker
    IN  \/ \E g \in Guids :
               /\ FirstMatch(marker, key, g)
               /\ \/ downloads[g].outcome = "result" /\ waiter' = Answered(w, key, g)
                  \/ downloads[g].outcome = "error" /\ waiter' = Raised(w)
               /\ changed' = flag
        \/ /\ ~Decided(marker, key)
           /\ closed
           /\ waiter' = Raised(w)
           /\ changed' = flag
        \/ /\ ~Decided(marker, key)
           /\ ~closed
           /\ waiter' = [waiter EXCEPT ![w].pc = IF inlineWait THEN "asleep" ELSE "spawned",
                                       ![w].key = key]
           /\ changed' = (flag /\ ~inlineWait)

(* Playwright reports a download of the page, maybe before the tracker sees   *)
(* it begin.                                                                  *)
WaitForDownload(w, g) ==
    /\ waiter[w].pc = "marked"
    /\ chrome[g] # "none"
    /\ Look(w, keyOf[g], changed)
    /\ UNCHANGED <<inlineWait, chrome, keyOf, closed, sequence, downloads>>

(* The first step of the task that earlier Pythons make for Event.wait.      *)
EnterWait(w) ==
    /\ ~inlineWait
    /\ waiter[w].pc = "spawned"
    /\ waiter' = [waiter EXCEPT ![w].pc = IF changed THEN "woken" ELSE "asleep"]
    /\ UNCHANGED <<inlineWait, chrome, keyOf, closed, sequence, downloads, changed>>

WaitForChange(w) ==
    /\ waiter[w].pc = "woken"
    /\ Look(w, waiter[w].key, FALSE)
    /\ UNCHANGED <<inlineWait, chrome, keyOf, closed, sequence, downloads>>

(* The timeout raises without another look, even when the event is set.      *)
TimeOut(w) ==
    /\ waiter[w].pc \in Waiting
    /\ waiter' = Raised(w)
    /\ changed' = FALSE
    /\ UNCHANGED <<inlineWait, chrome, keyOf, closed, sequence, downloads>>

(* No download came (the click failed or expect_download timed out), or the   *)
(* request is answered; the slot takes another one.                           *)
Leave(w) ==
    /\ waiter[w].pc \in {"marked", "done"}
    /\ waiter' = [waiter EXCEPT ![w] = Idle]
    /\ UNCHANGED <<inlineWait, chrome, keyOf, closed, sequence, downloads, changed>>

Next ==
    \/ \E g \in Guids :
           Begin(g) \/ OnDownloadWillBegin(g) \/ OnProgress(g) \/ OnCompleted(g) \/ OnFailed(g)
    \/ Close
    \/ \E w \in Waiters :
           \/ TakeMarker(w) \/ EnterWait(w) \/ WaitForChange(w) \/ TimeOut(w) \/ Leave(w)
           \/ \E g \in Guids : WaitForDownload(w, g)

Spec == Init /\ [][Next]_vars

-----------------------------------------------------------------------------
(* Properties                                                                *)

(* Where wait_for awaits inline, no request sleeps over its answer: once its  *)
(* first match has its file, or the tracker is closed, the request is awake,  *)
(* however many requests share the event and whoever cleared it               *)
(* (_wait_for_change clears an event that others wait for).                   *)
NoSleepOverAnswer ==
    inlineWait =>
        \A w \in Waiters :
            waiter[w].pc = "asleep" =>
                /\ ~closed
                /\ \A g \in Guids :
                       FirstMatch(waiter[w].marker, waiter[w].key, g) =>
                           downloads[g].outcome # "result"

(* A request answered with a file has the file of the first download that     *)
(* began after its marker and matches; no later event of the browser makes an *)
(* earlier one appear (the docstring of wait_for_download).                   *)
AnswerIsFirstMatch ==
    ~closed =>
        \A w \in Waiters :
            waiter[w].pc = "done" =>
                /\ waiter[w].found \in Guids
                /\ FirstMatch(waiter[w].marker, waiter[w].key, waiter[w].found)
                /\ downloads[waiter[w].found].outcome = "result"

=============================================================================
