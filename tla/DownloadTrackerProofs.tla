------------------------ MODULE DownloadTrackerProofs ------------------------
(*****************************************************************************)
(* Proofs about DownloadTracker: its type invariant, that no request sleeps   *)
(* over its answer, and that an answer is the first match, for any number of  *)
(* downloads and requests.                                                    *)
(*****************************************************************************)
EXTENDS DownloadTracker, TLAPS

(* A download has an entry only after the tracker saw it, its number is not   *)
(* above the counter, and its outcome is decided by its last event.           *)
EventsInOrder ==
    \A g \in Guids :
        /\ chrome[g] \in {"none", "begun"} => downloads[g].sequence = 0
        /\ downloads[g].sequence <= sequence
        /\ downloads[g].outcome # "open" => chrome[g] = "over"

IInv == TypeOK /\ EventsInOrder /\ NoSleepOverAnswer /\ AnswerIsFirstMatch

-----------------------------------------------------------------------------
(* Types                                                                     *)

(* The constructors by which the actions change a request have its type.     *)
LEMMA WaiterTypes ==
    ASSUME TypeOK, NEW w \in Waiters, NEW key \in Keys \cup {NoKey},
           NEW pc \in {"idle", "marked", "done"} \cup Waiting
    PROVE  /\ Woken(w) \in Waiter
           /\ Raised(w) \in [Waiters -> Waiter]
           /\ [waiter EXCEPT ![w].pc = pc] \in [Waiters -> Waiter]
           /\ [waiter EXCEPT ![w].pc = pc, ![w].key = key] \in [Waiters -> Waiter]
           /\ [waiter EXCEPT ![w].pc = pc, ![w].marker = sequence] \in [Waiters -> Waiter]
           /\ \A g \in Guids : Answered(w, key, g) \in [Waiters -> Waiter]
  <1>1. Woken(w) \in Waiter
    BY DEF TypeOK, Waiter, Waiting, Woken
  <1>2. Raised(w) \in [Waiters -> Waiter]
    BY DEF TypeOK, Waiter, Idle, Raised
  <1>3. /\ [waiter EXCEPT ![w].pc = pc] \in [Waiters -> Waiter]
        /\ [waiter EXCEPT ![w].pc = pc, ![w].key = key] \in [Waiters -> Waiter]
        /\ [waiter EXCEPT ![w].pc = pc, ![w].marker = sequence] \in [Waiters -> Waiter]
    BY DEF TypeOK, Waiter
  <1>4. ASSUME NEW g \in Guids PROVE Answered(w, key, g) \in [Waiters -> Waiter]
    BY DEF TypeOK, Waiter, Answered
  <1> QED BY <1>1, <1>2, <1>3, <1>4

(* So have the entries the events make.                                      *)
LEMMA ItemTypes ==
    ASSUME TypeOK, NEW g \in Guids, NEW outcome \in {"open", "result", "error"}
    PROVE  /\ NoItem \in Item
           /\ [ProgressItem(g) EXCEPT !.outcome = outcome] \in Item
           /\ [sequence |-> sequence + 1, key |-> keyOf[g], outcome |-> "open"] \in Item
  BY DEF TypeOK, Item, NoItem, ProgressItem

-----------------------------------------------------------------------------
(* The ways a step changes the requests                                      *)

(* After Event.set no request is asleep, and the answered ones are as before. *)
LEMMA SetChangedWakes ==
    ASSUME TypeOK, SetChanged
    PROVE  /\ waiter' \in [Waiters -> Waiter]
           /\ changed' \in BOOLEAN
           /\ \A w \in Waiters :
                  /\ waiter'[w].pc # "asleep"
                  /\ waiter'[w].pc = "done" => waiter'[w] = waiter[w]
  <1>1. \A w \in Waiters : waiter'[w] = Woken(w)
    BY DEF SetChanged
  <1>2. \A w \in Waiters : Woken(w) \in Waiter
    <2> TAKE w \in Waiters
    <2> QED BY DEF TypeOK, Waiter, Waiting, Woken
  <1>3. waiter' \in [Waiters -> Waiter] /\ changed' \in BOOLEAN
    BY <1>2 DEF SetChanged
  <1>4. ASSUME NEW w \in Waiters
        PROVE  /\ waiter'[w].pc # "asleep"
               /\ waiter'[w].pc = "done" => waiter'[w] = waiter[w]
    BY <1>1, <1>4 DEF Woken, TypeOK, Waiter
  <1> QED BY <1>3, <1>4

(* What a request that looks at the downloads may become.                    *)
LEMMA LookOutcome ==
    ASSUME TypeOK,
           NEW w \in Waiters, NEW key \in Keys \cup {NoKey}, NEW flag \in BOOLEAN,
           Look(w, key, flag)
    PROVE  /\ waiter' \in [Waiters -> Waiter]
           /\ changed' \in BOOLEAN
           /\ \A v \in Waiters \ {w} : waiter'[v] = waiter[v]
           /\ waiter'[w].pc = "asleep" =>
                  /\ ~closed
                  /\ ~Decided(waiter'[w].marker, waiter'[w].key)
           /\ waiter'[w].pc = "done" =>
                  /\ waiter'[w].found \in Guids
                  /\ FirstMatch(waiter'[w].marker, waiter'[w].key, waiter'[w].found)
                  /\ downloads[waiter'[w].found].outcome = "result"
  <1> DEFINE marker == waiter[w].marker
  <1>1. CASE \E g \in Guids :
                 /\ FirstMatch(marker, key, g)
                 /\ downloads[g].outcome = "result"
                 /\ waiter' = Answered(w, key, g)
                 /\ changed' = flag
    <2> PICK g \in Guids : /\ FirstMatch(marker, key, g)
                           /\ downloads[g].outcome = "result"
                           /\ waiter' = Answered(w, key, g)
                           /\ changed' = flag
      BY <1>1
    <2>1. waiter' \in [Waiters -> Waiter]
      BY WaiterTypes
    <2>2. /\ \A v \in Waiters \ {w} : waiter'[v] = waiter[v]
          /\ waiter'[w] = [waiter[w] EXCEPT !.pc = "done", !.key = key, !.found = g]
      BY DEF Answered, TypeOK
    <2>3. /\ waiter'[w].pc = "done" /\ waiter'[w].marker = marker
          /\ waiter'[w].key = key /\ waiter'[w].found = g
      BY <2>2 DEF TypeOK, Waiter
    <2> QED BY <2>1, <2>2, <2>3
  <1>2. CASE waiter' = Raised(w) /\ changed' = flag
    <2>1. waiter' \in [Waiters -> Waiter] /\ changed' \in BOOLEAN
      BY <1>2 DEF Raised, TypeOK, Waiter, Idle
    <2>2. (\A v \in Waiters \ {w} : waiter'[v] = waiter[v]) /\ waiter'[w] = Idle
      BY <1>2 DEF Raised, TypeOK
    <2> QED BY <2>1, <2>2 DEF Idle
  <1>3. CASE /\ ~Decided(marker, key) /\ ~closed
             /\ waiter' = [waiter EXCEPT ![w].pc = IF inlineWait THEN "asleep" ELSE "spawned",
                                         ![w].key = key]
             /\ changed' = (flag /\ ~inlineWait)
    <2>1. changed' \in BOOLEAN
      BY <1>3, Zenon DEF TypeOK
    <2>3. waiter' \in [Waiters -> Waiter]
      <3> DEFINE pc == IF inlineWait THEN "asleep" ELSE "spawned"
      <3>1. pc \in {"idle", "marked", "done"} \cup Waiting
        BY DEF Waiting
      <3>2. waiter' = [waiter EXCEPT ![w].pc = pc, ![w].key = key]
        BY <1>3
      <3> HIDE DEF pc
      <3> QED BY <3>1, <3>2, WaiterTypes
    <2>2. /\ \A v \in Waiters \ {w} : waiter'[v] = waiter[v]
          /\ waiter'[w].marker = marker /\ waiter'[w].key = key
          /\ waiter'[w].pc \in {"asleep", "spawned"}
      BY <1>3 DEF TypeOK, Waiter
    <2> QED BY <1>3, <2>1, <2>2, <2>3
  <1> QED BY <1>1, <1>2, <1>3 DEF Look

-----------------------------------------------------------------------------
(* The invariant                                                             *)

LEMMA InitInvariant == Init => IInv
  <1> SUFFICES ASSUME Init PROVE IInv
    OBVIOUS
  <1>1. TypeOK
    BY DEF Init, TypeOK, Item, NoItem, Waiter, Idle
  <1>2. \A w \in Waiters : waiter[w].pc = "idle"
    BY DEF Init, Idle
  <1>3. \A g \in Guids : downloads[g] = NoItem
    BY DEF Init
  <1>4. EventsInOrder
    <2>1. NoItem.sequence = 0 /\ NoItem.outcome = "open"
      BY DEF NoItem
    <2>2. ASSUME NEW g \in Guids
          PROVE  downloads[g].sequence = 0 /\ downloads[g].outcome = "open"
      BY <1>3, <2>1, Zenon
    <2>3. sequence = 0
      BY DEF Init
    <2>4. 0 <= 0
      OBVIOUS
    <2> QED BY <2>2, <2>3, <2>4, Zenon DEF EventsInOrder
  <1> QED BY <1>1, <1>2, <1>4 DEF IInv, NoSleepOverAnswer, AnswerIsFirstMatch

(* Events that leave the entries of the tracker alone, and the requests that  *)
(* do not look at them.                                                       *)
LEMMA SameDownloads ==
    ASSUME IInv, TypeOK', UNCHANGED <<inlineWait, closed, sequence, downloads>>,
           EventsInOrder',
           \A w \in Waiters :
               \/ waiter'[w] = waiter[w]
               \/ waiter'[w].pc \notin {"asleep", "done"}
               \/ ~inlineWait /\ waiter'[w].pc = "asleep"
    PROVE  IInv'
  <1>2. NoSleepOverAnswer'
    BY DEF IInv, NoSleepOverAnswer, FirstMatch, Matches
  <1>3. AnswerIsFirstMatch'
    BY DEF IInv, AnswerIsFirstMatch, FirstMatch, Matches
  <1> QED BY <1>2, <1>3 DEF IInv

(* An event changes the undecided entry of download g: into a later one than  *)
(* all others, or in its outcome. Nobody sleeps over a result it brings.      *)
LEMMA EntryChange ==
    ASSUME IInv, TypeOK', EventsInOrder',
           NEW g \in Guids, NEW e \in Item,
           UNCHANGED <<inlineWait, closed>>,
           downloads' = [downloads EXCEPT ![g] = e],
           downloads[g].outcome = "open",
           \/ downloads[g].sequence = 0 /\ e.sequence = sequence + 1
           \/ e.sequence = downloads[g].sequence /\ e.key = downloads[g].key,
           \A w \in Waiters :
               /\ waiter'[w].pc = "done" => waiter'[w] = waiter[w]
               /\ waiter'[w].pc = "asleep" => (waiter'[w] = waiter[w] /\ e.outcome # "result")
    PROVE  IInv'
  <1> USE DEF IInv
  <1>0. /\ \A h \in Guids : downloads[h] \in Item
        /\ \A h \in Guids : h # g => downloads'[h] = downloads[h]
        /\ downloads'[g] = e
    BY DEF TypeOK
  <1>1. \A h \in Guids : downloads[h].sequence \in Nat /\ downloads[h].sequence <= sequence
    BY <1>0 DEF EventsInOrder, Item
  <1>2. e.sequence \in Nat /\ sequence \in Nat
    BY DEF Item, TypeOK
  <1>3. \A w \in Waiters : waiter[w].marker \in Nat
    BY DEF TypeOK, Waiter
  <1>4. ASSUME NEW marker \in Nat, NEW key, NEW f \in Guids, f # g,
               FirstMatch(marker, key, f)
        PROVE  /\ downloads'[f].sequence > marker /\ downloads'[f].key = key
               /\ \A h \in Guids :
                      (downloads'[h].sequence > marker /\ downloads'[h].key = key) =>
                          downloads'[f].sequence <= downloads'[h].sequence
    BY <1>0, <1>1, <1>2, <1>4 DEF FirstMatch, Matches
  <1>5. ASSUME NEW marker \in Nat, NEW key, NEW f \in Guids, f # g,
               downloads'[f].sequence > marker, downloads'[f].key = key,
               \A h \in Guids :
                   (downloads'[h].sequence > marker /\ downloads'[h].key = key) =>
                       downloads'[f].sequence <= downloads'[h].sequence
        PROVE  FirstMatch(marker, key, f)
    BY <1>0, <1>1, <1>2, <1>5 DEF FirstMatch, Matches
  <1>6. NoSleepOverAnswer'
    <2> SUFFICES ASSUME inlineWait, NEW w \in Waiters, waiter'[w].pc = "asleep"
                 PROVE  /\ ~closed
                        /\ \A f \in Guids :
                               FirstMatch(waiter[w].marker, waiter[w].key, f)' =>
                                   downloads'[f].outcome # "result"
      BY DEF NoSleepOverAnswer
    <2>1. waiter'[w] = waiter[w] /\ e.outcome # "result"
      OBVIOUS
    <2>2. ~closed
      BY <2>1 DEF NoSleepOverAnswer
    <2>3. ASSUME NEW f \in Guids, FirstMatch(waiter[w].marker, waiter[w].key, f)'
          PROVE  downloads'[f].outcome # "result"
      <3>1. CASE f = g
        BY <3>1, <2>1, <1>0
      <3>2. CASE f # g
        <4>1. FirstMatch(waiter[w].marker, waiter[w].key, f)
          BY <1>3, <1>5, <2>1, <2>3, <3>2 DEF FirstMatch, Matches
        <4> QED BY <4>1, <1>0, <2>1, <3>2 DEF NoSleepOverAnswer
      <3> QED BY <3>1, <3>2
    <2> QED BY <2>2, <2>3
  <1>7. AnswerIsFirstMatch'
    <2> SUFFICES ASSUME ~closed, NEW w \in Waiters, waiter'[w].pc = "done"
                 PROVE  (/\ waiter[w].found \in Guids
                         /\ FirstMatch(waiter[w].marker, waiter[w].key, waiter[w].found)
                         /\ downloads[waiter[w].found].outcome = "result")'
      BY DEF AnswerIsFirstMatch
    <2>1. /\ waiter'[w] = waiter[w]
          /\ waiter[w].found \in Guids
          /\ FirstMatch(waiter[w].marker, waiter[w].key, waiter[w].found)
          /\ downloads[waiter[w].found].outcome = "result"
      BY DEF AnswerIsFirstMatch
    <2>2. waiter[w].found # g
      BY <2>1
    <2> QED BY <1>0, <1>3, <1>4, <2>1, <2>2 DEF FirstMatch, Matches
  <1> QED BY <1>6, <1>7

-----------------------------------------------------------------------------
(* The steps                                                                 *)

LEMMA BeginStep ==
    ASSUME IInv, NEW g \in Guids, Begin(g)
    PROVE  IInv'
  <1>1. TypeOK' /\ EventsInOrder'
    BY DEF IInv, Begin, TypeOK, EventsInOrder
  <1> QED BY <1>1, SameDownloads DEF Begin

LEMMA WillBeginStep ==
    ASSUME IInv, NEW g \in Guids, OnDownloadWillBegin(g)
    PROVE  IInv'
  <1> DEFINE e == [sequence |-> sequence + 1, key |-> keyOf[g], outcome |-> "open"]
  <1>1. /\ e \in Item /\ e.sequence = sequence + 1 /\ e.outcome = "open"
        /\ downloads' = [downloads EXCEPT ![g] = e]
    BY ItemTypes DEF IInv, OnDownloadWillBegin
  <1> HIDE DEF e
  <1>2. /\ waiter' \in [Waiters -> Waiter] /\ changed' \in BOOLEAN
        /\ \A w \in Waiters :
               /\ waiter'[w].pc # "asleep"
               /\ waiter'[w].pc = "done" => waiter'[w] = waiter[w]
    BY SetChangedWakes DEF IInv, OnDownloadWillBegin
  <1>3. TypeOK'
    BY <1>1, <1>2 DEF IInv, OnDownloadWillBegin, TypeOK
  <1>4. /\ downloads[g].sequence = 0 /\ downloads[g].outcome = "open"
        /\ chrome' = [chrome EXCEPT ![g] = "seen"] /\ sequence' = sequence + 1
        /\ UNCHANGED <<inlineWait, closed>>
    BY DEF IInv, OnDownloadWillBegin, EventsInOrder
  <1>5. EventsInOrder'
    BY <1>1, <1>4 DEF IInv, EventsInOrder, TypeOK, Item
  <1> QED BY <1>1, <1>2, <1>3, <1>4, <1>5, EntryChange

(* A progress event with its effect on the flag and the requests: it wakes   *)
(* them all, or it brings no result and leaves them alone.                    *)
LEMMA ProgressStep ==
    ASSUME IInv, NEW g \in Guids, NEW outcome \in {"open", "result", "error"},
           Progress(g, outcome),
           \/ outcome = "open" /\ UNCHANGED chrome
           \/ chrome' = [chrome EXCEPT ![g] = "over"],
           SetChanged \/ (outcome # "result" /\ UNCHANGED <<changed, waiter>>)
    PROVE  IInv'
  <1> DEFINE e == [ProgressItem(g) EXCEPT !.outcome = outcome]
  <1>1. e \in Item /\ downloads' = [downloads EXCEPT ![g] = e]
    BY ItemTypes DEF IInv, Progress
  <1>2. /\ e.outcome = outcome
        /\ \/ downloads[g].sequence = 0 /\ e.sequence = sequence + 1
           \/ e.sequence = downloads[g].sequence /\ e.key = downloads[g].key
    BY DEF IInv, TypeOK, Item, ProgressItem, NoItem
  <1> HIDE DEF e
  <1>3. /\ waiter' \in [Waiters -> Waiter] /\ changed' \in BOOLEAN
        /\ \A w \in Waiters :
               /\ waiter'[w].pc = "done" => waiter'[w] = waiter[w]
               /\ waiter'[w].pc = "asleep" => (waiter'[w] = waiter[w] /\ outcome # "result")
    BY SetChangedWakes DEF IInv, TypeOK
  <1>4. /\ chrome[g] = "seen" /\ downloads[g].outcome = "open"
        /\ sequence' = IF downloads[g].sequence = 0 THEN sequence + 1 ELSE sequence
        /\ UNCHANGED <<inlineWait, keyOf, closed>>
    BY DEF IInv, Progress, EventsInOrder
  <1>5. TypeOK'
    BY <1>1, <1>3, <1>4 DEF IInv, TypeOK
  <1>6. EventsInOrder'
    <2>1. e.sequence <= sequence' /\ sequence <= sequence'
      BY <1>1, <1>2, <1>4 DEF IInv, TypeOK, Item, EventsInOrder
    <2>2. chrome'[g] \in {"seen", "over"} /\ (e.outcome # "open" => chrome'[g] = "over")
      BY <1>2, <1>4 DEF IInv, TypeOK
    <2>3. ASSUME NEW h \in Guids, h # g
          PROVE  /\ chrome'[h] = chrome[h]
                 /\ downloads'[h] = downloads[h]
                 /\ downloads[h].sequence <= sequence'
      BY <1>1, <1>4, <2>1, <2>3 DEF IInv, TypeOK, Item, EventsInOrder
    <2> QED BY <1>1, <2>1, <2>2, <2>3 DEF IInv, TypeOK, EventsInOrder
  <1> QED BY <1>1, <1>2, <1>3, <1>4, <1>5, <1>6, EntryChange

LEMMA CloseStep ==
    ASSUME IInv, Close
    PROVE  IInv'
  <1>1. /\ waiter' \in [Waiters -> Waiter] /\ changed' \in BOOLEAN
        /\ \A w \in Waiters : waiter'[w].pc # "asleep"
    BY SetChangedWakes DEF IInv, Close
  <1>2. \A g \in Guids : downloads'[g] = NoItem
    BY DEF Close
  <1>3. NoItem \in Item /\ NoItem.sequence = 0 /\ NoItem.outcome = "open"
    BY DEF NoItem, Item
  <1>4. TypeOK'
    BY <1>1, <1>3 DEF IInv, Close, TypeOK
  <1>5. EventsInOrder'
    <2>1. \A g \in Guids : downloads'[g].sequence = 0 /\ downloads'[g].outcome = "open"
      BY <1>2, <1>3, Zenon
    <2> QED BY <2>1, <1>4 DEF EventsInOrder, TypeOK
  <1> QED BY <1>1, <1>4, <1>5 DEF IInv, Close, NoSleepOverAnswer, AnswerIsFirstMatch

(* A request that looks, as wait_for_download starts or resumes.              *)
LEMMA LookStep ==
    ASSUME IInv, NEW w \in Waiters, NEW key \in Keys \cup {NoKey}, NEW flag \in BOOLEAN,
           Look(w, key, flag),
           UNCHANGED <<inlineWait, chrome, keyOf, closed, sequence, downloads>>
    PROVE  IInv'
  <1>1. /\ waiter' \in [Waiters -> Waiter]
        /\ changed' \in BOOLEAN
        /\ \A v \in Waiters \ {w} : waiter'[v] = waiter[v]
        /\ waiter'[w].pc = "asleep" =>
               /\ ~closed
               /\ ~Decided(waiter'[w].marker, waiter'[w].key)
        /\ waiter'[w].pc = "done" =>
               /\ waiter'[w].found \in Guids
               /\ FirstMatch(waiter'[w].marker, waiter'[w].key, waiter'[w].found)
               /\ downloads[waiter'[w].found].outcome = "result"
    BY LookOutcome DEF IInv
  <1>2. TypeOK' /\ EventsInOrder'
    BY <1>1 DEF IInv, TypeOK, EventsInOrder
  <1>3. NoSleepOverAnswer'
    BY <1>1 DEF IInv, NoSleepOverAnswer, Decided, FirstMatch, Matches
  <1>4. AnswerIsFirstMatch'
    BY <1>1 DEF IInv, AnswerIsFirstMatch, FirstMatch, Matches
  <1> QED BY <1>2, <1>3, <1>4 DEF IInv

(* The other steps of a request.                                             *)
LEMMA RequestStep ==
    ASSUME IInv, NEW w \in Waiters, TakeMarker(w) \/ EnterWait(w) \/ TimeOut(w) \/ Leave(w)
    PROVE  IInv'
  <1> USE DEF IInv
  <1>1. UNCHANGED <<inlineWait, chrome, keyOf, closed, sequence, downloads>> /\ changed' \in BOOLEAN
    BY DEF TakeMarker, EnterWait, TimeOut, Leave, TypeOK
  <1>2. EventsInOrder'
    BY <1>1 DEF EventsInOrder
  <1>3. \A v \in Waiters \ {w} : waiter'[v] = waiter[v]
    BY DEF TakeMarker, EnterWait, TimeOut, Leave, Raised, TypeOK
  <1>4. waiter' \in [Waiters -> Waiter]
    <2>1. /\ Raised(w) \in [Waiters -> Waiter]
          /\ [waiter EXCEPT ![w].pc = "marked", ![w].marker = sequence] \in [Waiters -> Waiter]
          /\ [waiter EXCEPT ![w].pc = "woken"] \in [Waiters -> Waiter]
          /\ [waiter EXCEPT ![w].pc = "asleep"] \in [Waiters -> Waiter]
      BY WaiterTypes DEF Waiting
    <2> QED BY <2>1 DEF TakeMarker, EnterWait, TimeOut, Leave, Raised
  <1>5. \/ waiter'[w] = waiter[w]
        \/ waiter'[w].pc \notin {"asleep", "done"}
        \/ ~inlineWait /\ waiter'[w].pc = "asleep"
    <2>1. CASE TakeMarker(w)
      BY <2>1 DEF TakeMarker, Raised, Idle, TypeOK, Waiter
    <2>2. CASE EnterWait(w)
      BY <2>2 DEF EnterWait, TypeOK, Waiter
    <2>3. CASE waiter' = Raised(w)
      BY <2>3 DEF Raised, Idle, TypeOK
    <2> QED BY <2>1, <2>2, <2>3 DEF TimeOut, Leave, Raised
  <1>6. TypeOK'
    BY <1>1, <1>4 DEF TypeOK
  <1> QED BY <1>1, <1>2, <1>3, <1>5, <1>6, SameDownloads

-----------------------------------------------------------------------------
(* Theorems                                                                  *)

LEMMA NextInvariant == IInv /\ [Next]_vars => IInv'
  <1> SUFFICES ASSUME IInv, [Next]_vars PROVE IInv'
    OBVIOUS
  <1>1. CASE \E g \in Guids : Begin(g)
    BY <1>1, BeginStep
  <1>2. CASE \E g \in Guids : OnDownloadWillBegin(g)
    BY <1>2, WillBeginStep
  <1>3. CASE \E g \in Guids : OnProgress(g) \/ OnCompleted(g) \/ OnFailed(g)
    <2> PICK g \in Guids : OnProgress(g) \/ OnCompleted(g) \/ OnFailed(g)
      BY <1>3
    <2>1. CASE OnProgress(g)
      <3>1. Progress(g, "open") /\ SetChanged /\ UNCHANGED chrome
        BY <2>1 DEF OnProgress
      <3> QED BY <3>1, ProgressStep
    <2>2. CASE OnCompleted(g)
      <3>1. /\ Progress(g, "result") /\ SetChanged
            /\ chrome' = [chrome EXCEPT ![g] = "over"]
        BY <2>2 DEF OnCompleted
      <3> QED BY <3>1, ProgressStep
    <2>3. CASE OnFailed(g)
      <3>1. /\ Progress(g, "error")
            /\ SetChanged \/ UNCHANGED <<changed, waiter>>
            /\ chrome' = [chrome EXCEPT ![g] = "over"]
        BY <2>3 DEF OnFailed
      <3> QED BY <3>1, ProgressStep
    <2> QED BY <2>1, <2>2, <2>3
  <1>4. CASE Close
    BY <1>4, CloseStep
  <1>5. CASE \E w \in Waiters : TakeMarker(w) \/ EnterWait(w) \/ TimeOut(w) \/ Leave(w)
    BY <1>5, RequestStep
  <1>6. CASE \E w \in Waiters : WaitForChange(w)
    <2> PICK w \in Waiters : WaitForChange(w)
      BY <1>6
    <2>1. waiter[w].key \in Keys \cup {NoKey}
      BY DEF IInv, TypeOK, Waiter
    <2>2. Look(w, waiter[w].key, FALSE)
      BY DEF WaitForChange
    <2>3. UNCHANGED <<inlineWait, chrome, keyOf, closed, sequence, downloads>>
      BY DEF WaitForChange
    <2> QED BY <2>1, <2>2, <2>3, LookStep
  <1>7. CASE \E w \in Waiters, g \in Guids : WaitForDownload(w, g)
    <2> PICK w \in Waiters, g \in Guids : WaitForDownload(w, g)
      BY <1>7
    <2>1. keyOf[g] \in Keys /\ changed \in BOOLEAN
      BY DEF IInv, TypeOK
    <2>2. /\ Look(w, keyOf[g], changed)
          /\ UNCHANGED <<inlineWait, chrome, keyOf, closed, sequence, downloads>>
      BY DEF WaitForDownload
    <2> QED BY <2>1, <2>2, LookStep
  <1>8. CASE UNCHANGED vars
    BY <1>8 DEF vars, IInv, TypeOK, EventsInOrder, NoSleepOverAnswer, AnswerIsFirstMatch,
                FirstMatch, Matches
  <1> QED BY <1>1, <1>2, <1>3, <1>4, <1>5, <1>6, <1>7, <1>8 DEF Next

THEOREM Invariance == Spec => []IInv
  BY InitInvariant, NextInvariant, PTL DEF Spec

(* The types of the tracker's variables, for all downloads and requests.     *)
THEOREM TypeCorrect == Spec => []TypeOK
  <1>1. IInv => TypeOK
    BY DEF IInv
  <1> QED BY <1>1, Invariance, PTL

(* With an inline wait no request sleeps over a finished download or a closed *)
(* tracker: clearing an event that others wait for loses no wake-up.          *)
THEOREM NoLostWakeUp == Spec => []NoSleepOverAnswer
  <1>1. IInv => NoSleepOverAnswer
    BY DEF IInv
  <1> QED BY <1>1, Invariance, PTL

(* The answer of wait_for_download is the first match after the marker.      *)
THEOREM FirstMatchAnswered == Spec => []AnswerIsFirstMatch
  <1>1. IInv => AnswerIsFirstMatch
    BY DEF IInv
  <1> QED BY <1>1, Invariance, PTL

-----------------------------------------------------------------------------
(* A request alone                                                           *)

(* The request's file is there, or there will be none.                       *)
MayReturn(w) ==
    \/ closed
    \/ \E g \in Guids :
           FirstMatch(waiter[w].marker, waiter[w].key, g) /\ downloads[g].outcome = "result"

(* The flag still tells a task that has not run yet of what its request waits *)
(* for; whoever sleeps has nothing to return with.                            *)
LoneInv ==
    \A w \in Waiters :
        /\ waiter[w].pc = "spawned" /\ MayReturn(w) => changed
        /\ waiter[w].pc = "asleep" => ~MayReturn(w)

(* Event.set helps a task that has not run yet as well as one that sleeps.    *)
LEMMA SetKeepsLone ==
    ASSUME IInv, SetChanged
    PROVE  LoneInv'
  <1>1. changed' /\ \A w \in Waiters : waiter'[w].pc # "asleep"
    BY SetChangedWakes DEF IInv, SetChanged
  <1> QED BY <1>1 DEF LoneInv

(* A failure that wakes nobody gives nobody a file.                          *)
LEMMA FailureKeepsLone ==
    ASSUME IInv, LoneInv, NEW g \in Guids, Progress(g, "error"), UNCHANGED <<changed, waiter>>
    PROVE  LoneInv'
  <1>1. /\ downloads'[g].outcome = "error" /\ closed' = closed /\ waiter' = waiter /\ changed' = changed
        /\ \/ downloads[g].sequence = 0
           \/ downloads'[g].sequence = downloads[g].sequence /\ downloads'[g].key = downloads[g].key
        /\ \A h \in Guids : h # g => downloads'[h] = downloads[h]
    BY DEF IInv, TypeOK, Item, Progress, ProgressItem, NoItem
  <1>2. ASSUME NEW w \in Waiters, MayReturn(w)' PROVE MayReturn(w)
    <2>1. CASE closed'
      BY <1>1, <2>1 DEF MayReturn
    <2>2. CASE ~closed'
      <3>1. PICK f \in Guids : /\ FirstMatch(waiter[w].marker, waiter[w].key, f)'
                               /\ downloads'[f].outcome = "result"
        BY <1>2, <2>2 DEF MayReturn
      <3>2. f # g
        BY <1>1, <3>1
      <3>3. \A h \in Guids : downloads[h].sequence \in Nat
        BY DEF IInv, TypeOK, Item
      <3>4. waiter[w].marker \in Nat
        BY DEF IInv, TypeOK, Waiter
      <3>5. FirstMatch(waiter[w].marker, waiter[w].key, f)
        BY <1>1, <3>1, <3>2, <3>3, <3>4 DEF FirstMatch, Matches
      <3> QED BY <1>1, <3>1, <3>2, <3>5 DEF MayReturn
    <2> QED BY <2>1, <2>2
  <1> QED BY <1>1, <1>2 DEF LoneInv

(* The request itself looks, goes to sleep and ends.                         *)
LEMMA RequestKeepsLone ==
    ASSUME IInv, LoneInv, NEW w \in Waiters, \A v \in Waiters : v = w,
           \/ TakeMarker(w) \/ EnterWait(w) \/ WaitForChange(w) \/ TimeOut(w) \/ Leave(w)
           \/ \E g \in Guids : WaitForDownload(w, g)
    PROVE  LoneInv'
  <1> SUFFICES /\ waiter'[w].pc = "spawned" /\ MayReturn(w)' => changed'
               /\ waiter'[w].pc = "asleep" => ~MayReturn(w)'
    BY DEF LoneInv
  <1>1. CASE TakeMarker(w) \/ TimeOut(w) \/ Leave(w)
    BY <1>1 DEF TakeMarker, TimeOut, Leave, Raised, Idle, IInv, TypeOK, Waiter
  <1>2. CASE EnterWait(w)
    <2>1. /\ waiter'[w].marker = waiter[w].marker /\ waiter'[w].key = waiter[w].key
          /\ waiter[w].pc = "spawned"
          /\ waiter'[w].pc = IF changed THEN "woken" ELSE "asleep"
          /\ UNCHANGED <<closed, downloads>>
      BY <1>2 DEF EnterWait, IInv, TypeOK, Waiter
    <2>2. MayReturn(w)' => MayReturn(w)
      BY <2>1 DEF MayReturn, FirstMatch, Matches
    <2> QED BY <2>1, <2>2 DEF LoneInv
  <1>3. CASE WaitForChange(w) \/ \E g \in Guids : WaitForDownload(w, g)
    <2>1. PICK key \in Keys \cup {NoKey}, flag \in BOOLEAN : Look(w, key, flag)
      BY <1>3 DEF WaitForChange, WaitForDownload, IInv, TypeOK, Waiter
    <2>2. UNCHANGED <<closed, downloads>>
      BY <1>3 DEF WaitForChange, WaitForDownload
    <2>3. waiter'[w].pc \in {"asleep", "spawned"} =>
              /\ ~closed
              /\ ~Decided(waiter[w].marker, key)
              /\ waiter'[w].marker = waiter[w].marker /\ waiter'[w].key = key
      BY <2>1 DEF Look, Answered, Raised, Idle, IInv, TypeOK, Waiter
    <2> QED BY <2>2, <2>3 DEF MayReturn, Decided, FirstMatch, Matches
  <1> QED BY <1>1, <1>2, <1>3

(* With every Python a request that waits alone is awake when its file is     *)
(* there or the tracker is closed: what can be overslept before Python 3.12   *)
(* is an event that another request cleared (_wait_for_change, 181-189).      *)
THEOREM LoneRequestWakes ==
    ASSUME \A v, w \in Waiters : v = w
    PROVE  Spec => []LoneInv
  <1>1. Init => LoneInv
    BY DEF Init, Idle, LoneInv
  <1>2. IInv /\ LoneInv /\ [Next]_vars => LoneInv'
    <2> SUFFICES ASSUME IInv, LoneInv, [Next]_vars PROVE LoneInv'
      OBVIOUS
    <2>1. CASE \E g \in Guids : Begin(g)
      BY <2>1 DEF Begin, LoneInv, MayReturn, FirstMatch, Matches
    <2>2. CASE SetChanged
      BY <2>2, SetKeepsLone
    <2>3. CASE \E g \in Guids : OnFailed(g) /\ UNCHANGED <<changed, waiter>>
      BY <2>3, FailureKeepsLone DEF OnFailed
    <2>4. CASE \E w \in Waiters :
                   \/ TakeMarker(w) \/ EnterWait(w) \/ WaitForChange(w) \/ TimeOut(w) \/ Leave(w)
                   \/ \E g \in Guids : WaitForDownload(w, g)
      BY <2>4, RequestKeepsLone
    <2>5. CASE UNCHANGED vars
      BY <2>5 DEF vars, LoneInv, MayReturn, FirstMatch, Matches
    <2> QED
      BY <2>1, <2>2, <2>3, <2>4, <2>5
      DEF Next, OnDownloadWillBegin, OnProgress, OnCompleted, OnFailed, Close
  <1> QED BY <1>1, <1>2, Invariance, PTL DEF Spec

=============================================================================
