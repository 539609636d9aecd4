-------------------------- MODULE ServiceStartProofs --------------------------
(*****************************************************************************)
(* Theorems about ServiceStart, for any number of processes, threads,         *)
(* profiles, presets and failing writes.                                      *)
(*****************************************************************************)
EXTENDS ServiceStart, TLAPS

(* The mutex is owned by the one process that has, or is about to have, the   *)
(* files in memory.                                                           *)
Owner ==
    \A m \in Managers : holder = m <=> pc[m] \in Loaded \cup {"load"}

(* What the owner knows, and what it is adding.                               *)
KnownIsMore ==
    /\ \A m \in Managers : pc[m] \in Loaded => registry \subseteq known[m]
    /\ \A m \in Managers : adding[m] # Nothing =>
          pc[m] \in {"presets", "serving"} /\ adding[m] \in known[m]

(* The places behind the creation of the presets.                             *)
Booted == {"marknew", "ensure", "mark", "serving", "closing"}

Complete == Presets \subseteq registry \/ "presets" \in cut

(* An incomplete registry belongs to a bootstrap that goes on, and settings   *)
(* are initialised only with profiles.                                        *)
PresetsInv ==
    /\ registry = {} \/ Complete \/ \E m \in Managers : pc[m] = "presets"
    /\ \A m \in Managers : pc[m] \in Booted => registry # {} /\ Complete
    /\ file.initialized => registry # {}
    /\ \A m \in Managers : mem[m].initialized => registry # {}

(* The owner's memory has every answered PUT too.                             *)
SettingsInv ==
    "late" \in cut \/
    \A p \in Profiles : answered[p] # Nothing =>
        /\ file.entries[p] = answered[p]
        /\ \A m \in Managers : pc[m] \in Loaded => mem[m].entries[p] = answered[p]

(* A request belongs to a process that serves, or did.                        *)
ThreadsInv ==
    \A t \in Threads : ui[t] # Idle =>
        pc[ui[t].manager] \in {"serving", "closing", "released"}

-----------------------------------------------------------------------------
LEMMA InitType == ASSUME Init PROVE TypeOK
BY PresetsAssumption, MaxFailuresAssumption
DEF Init, TypeOK, Settings, Entries, NoSettings, Starting

(* What Ensured and a PUT make of settings are settings.                      *)
LEMMA EnsuredType ==
    ASSUME NEW s \in Settings, NEW seen
    PROVE  /\ Ensured(s, seen) \in Settings
           /\ Ensured(s, seen).initialized = s.initialized
           /\ \A p \in Profiles : s.entries[p] # Nothing =>
                 Ensured(s, seen).entries[p] = s.entries[p]
BY DEF Ensured, Settings, Entries

LEMMA StoreType ==
    ASSUME TypeOK, NEW m \in Managers, NEW s \in Settings, NEW ok \in BOOLEAN,
           Store(m, s, ok)
    PROVE  mem' \in [Managers -> Settings] /\ file' \in Settings
           /\ failures' \in 0 .. MaxFailures
BY MaxFailuresAssumption DEF TypeOK, Store, Written

LEMMA RequestType ==
    ASSUME TypeOK, NEW t \in Threads, ui[t] # Idle
    PROVE  /\ ui[t] \in Request
           /\ ui[t].at \in {"listing", "ensure", "put"}
           /\ ui[t].manager \in Managers
           /\ ui[t].seen \in SUBSET Profiles
           /\ ui[t].value # Nothing => ui[t].profile \in Profiles /\ ui[t].value \in Values
           /\ ui[t].at = "put" => ui[t].profile \in Profiles /\ ui[t].value \in Values
BY DEF TypeOK, Request

LEMMA PutType ==
    ASSUME TypeOK, NEW t \in Threads, NEW ok \in BOOLEAN, Put(t, ok)
    PROVE  /\ ui[t] # Idle
           /\ ui[t].manager \in Managers
           /\ ui[t].profile \in Profiles
           /\ ui[t].value \in Values
           /\ mem' \in [Managers -> Settings]
           /\ mem'[ui[t].manager].initialized = mem[ui[t].manager].initialized
           /\ mem'[ui[t].manager].entries =
                 [mem[ui[t].manager].entries EXCEPT ![ui[t].profile] = ui[t].value]
           /\ \A m \in Managers \ {ui[t].manager} : mem'[m] = mem[m]
<1>1. ui[t] # Idle
    BY DEF Put, Idle
<1>2. ui[t].manager \in Managers /\ ui[t].profile \in Profiles /\ ui[t].value \in Values
    BY <1>1, RequestType DEF Put
<1>3. mem \in [Managers -> Settings]
    BY DEF TypeOK
<1>4. mem' = [mem EXCEPT ![ui[t].manager].entries[ui[t].profile] = ui[t].value]
    BY DEF Put
<1> QED BY <1>1, <1>2, <1>3, <1>4 DEF Settings, Entries

-----------------------------------------------------------------------------
LEMMA ProcessType ==
    ASSUME TypeOK, NEW m \in Managers, Process(m)
    PROVE  TypeOK'
<1>1. CASE Begin(m)
    BY <1>1 DEF Begin, Goto, TypeOK, disk, memory, past, Starting
<1>2. CASE MakeRoot(m)
    BY <1>2 DEF MakeRoot, Goto, TypeOK, memory, past, Starting
<1>3. CASE OpenMarker(m)
    BY <1>3 DEF OpenMarker, Goto, TypeOK, memory, past, Starting
<1>4. CASE WriteMarker(m)
    BY <1>4 DEF WriteMarker, Goto, TypeOK, memory, past, Starting
<1>5. CASE ReadMarker(m)
    BY <1>5 DEF ReadMarker, Goto, TypeOK, disk, memory, past, Starting
<1>6. CASE Acquire(m)
    BY <1>6 DEF Acquire, MayOwn, Goto, TypeOK, memory, past, Starting
<1>7. CASE Load(m)
    BY <1>7 DEF Load, Goto, TypeOK, disk, past, Loaded, Bootstrapping
<1>8. CASE SaveRegistry(m)
    BY <1>8 DEF SaveRegistry, TypeOK, past
<1>9. CASE Close(m)
    BY <1>9 DEF Close, Goto, TypeOK, disk, memory, past, Loaded
<1>10. CASE Release(m)
    BY <1>10 DEF Release, Goto, TypeOK, memory, past
<1>11. CASE Exit(m)
    <2>1. NoSettings \in Settings
        BY DEF NoSettings, Settings, Entries
    <2>2. cut' \subseteq {"marker", "presets", "late"}
        BY <1>11 DEF Exit, Cuts, TypeOK
    <2>3. ui' \in [Threads -> Request \cup {Idle}]
        BY <1>11 DEF Exit, TypeOK
    <2> QED BY <1>11, <2>1, <2>2, <2>3 DEF Exit, TypeOK
<1>12. ASSUME NEW p \in Profiles, Create(m, p) PROVE TypeOK'
    BY <1>12 DEF Create, TypeOK, disk, past
<1>13. ASSUME NEW ok \in BOOLEAN, SaveCreated(m, ok) PROVE TypeOK'
    <2>1. cut' \subseteq {"marker", "presets", "late"}
        BY <1>13 DEF SaveCreated, Cuts, TypeOK
    <2>2. pc' \in [Managers -> Starting \cup Loaded \cup {"off", "released"}]
        BY <1>13 DEF SaveCreated, AfterSave, TypeOK, Loaded, Bootstrapping
    <2>3. failures' \in 0 .. MaxFailures
        BY <1>13, MaxFailuresAssumption DEF SaveCreated, Written, TypeOK
    <2> QED BY <1>13, <2>1, <2>2, <2>3 DEF SaveCreated, TypeOK
<1>14. ASSUME NEW ok \in BOOLEAN, MarkInitialized(m, ok) PROVE TypeOK'
    <2>1. [mem[m] EXCEPT !.initialized = TRUE] \in Settings
        BY DEF TypeOK, Settings
    <2>2. mem' \in [Managers -> Settings] /\ file' \in Settings /\ failures' \in 0 .. MaxFailures
        BY <1>14, <2>1, StoreType DEF MarkInitialized
    <2>3. pc' \in [Managers -> Starting \cup Loaded \cup {"off", "released"}]
        BY <1>14 DEF MarkInitialized, TypeOK, Loaded, Bootstrapping
    <2> QED BY <1>14, <2>2, <2>3 DEF MarkInitialized, TypeOK
<1>15. ASSUME NEW ok \in BOOLEAN, EnsurePresets(m, ok) PROVE TypeOK'
    <2>1. Ensured(mem[m], Presets) \in Settings
        BY EnsuredType DEF TypeOK
    <2>2. mem' \in [Managers -> Settings] /\ file' \in Settings /\ failures' \in 0 .. MaxFailures
        BY <1>15, <2>1, StoreType DEF EnsurePresets
    <2> QED BY <1>15, <2>2 DEF EnsurePresets, Goto, TypeOK, Loaded, Bootstrapping
<1> QED
    BY <1>1, <1>2, <1>3, <1>4, <1>5, <1>6, <1>7, <1>8, <1>9, <1>10, <1>11, <1>12,
       <1>13, <1>14, <1>15 DEF Process

LEMMA ThreadType ==
    ASSUME TypeOK, NEW t \in Threads, Thread(t)
    PROVE  TypeOK'
<1>1. ASSUME NEW m \in Managers, NEW p \in Profiles \cup {Nothing},
             NEW v \in Values \cup {Nothing}, List(t, m, p, v)
      PROVE  TypeOK'
    <2>1. known[m] \in SUBSET Profiles
        BY DEF TypeOK
    <2>2. [at |-> "listing", manager |-> m, seen |-> known[m], profile |-> p, value |-> v]
            \in Request
        BY <1>1, <2>1 DEF List, Request
    <2> QED BY <1>1, <2>2 DEF List, TypeOK, disk, past
<1>2. CASE Listed(t)
    <2>1. ui[t] # Idle
        BY <1>2 DEF Listed, Idle
    <2>2. [ui[t] EXCEPT !.at = "ensure"] \in Request
        BY <2>1, RequestType DEF Request
    <2> QED BY <1>2, <2>2 DEF Listed, TypeOK, disk, past
<1>3. ASSUME NEW ok \in BOOLEAN, EnsureListed(t, ok) PROVE TypeOK'
    <2>1. ui[t] # Idle
        BY <1>3 DEF EnsureListed, Idle
    <2>2. ui[t].value # Nothing => [ui[t] EXCEPT !.at = "put", !.seen = {}] \in Request
        BY <2>1, RequestType DEF Request
    <2>3. ui' \in [Threads -> Request \cup {Idle}]
        BY <1>3, <2>2 DEF EnsureListed, TypeOK
    <2>4. ui[t].manager \in Managers /\ mem[ui[t].manager] \in Settings
        BY <2>1, RequestType DEF TypeOK
    <2>5. mem' \in [Managers -> Settings] /\ file' \in Settings /\ failures' \in 0 .. MaxFailures
        BY <1>3, <2>4, EnsuredType, StoreType DEF EnsureListed
    <2> QED BY <1>3, <2>3, <2>5 DEF EnsureListed, Late, TypeOK
<1>4. ASSUME NEW ok \in BOOLEAN, Put(t, ok) PROVE TypeOK'
    <2>1. mem' \in [Managers -> Settings] /\ ui[t].manager \in Managers
            /\ ui[t].profile \in Profiles /\ ui[t].value \in Values
        BY <1>4, PutType
    <2>2. file' \in Settings
        BY <1>4, <2>1 DEF Put, TypeOK
    <2>3. failures' \in 0 .. MaxFailures
        BY <1>4, MaxFailuresAssumption DEF Put, Written, TypeOK
    <2> QED BY <1>4, <2>1, <2>2, <2>3 DEF Put, Late, TypeOK
<1> QED BY <1>1, <1>2, <1>3, <1>4 DEF Thread

(* Every variable keeps its type (all of ServiceStart).                       *)
THEOREM TypeCorrect == Spec => []TypeOK
<1>1. TypeOK /\ [Next]_vars => TypeOK'
    <2>1. CASE UNCHANGED vars
        BY <2>1 DEF vars, TypeOK
    <2> QED BY <2>1, ProcessType, ThreadType DEF Next
<1> QED BY <1>1, InitType, PTL DEF Spec

-----------------------------------------------------------------------------
(* The mutex.                                                                *)
LEMMA OwnerProcess ==
    ASSUME TypeOK, Owner, KnownIsMore, NEW m \in Managers, Process(m)
    PROVE  Owner'
<1> USE DEF Owner, TypeOK, Loaded, Bootstrapping
<1>1. CASE Begin(m)
    BY <1>1 DEF Begin, Goto, disk, memory, past
<1>2. CASE MakeRoot(m)
    BY <1>2 DEF MakeRoot, Goto, memory, past
<1>3. CASE OpenMarker(m)
    BY <1>3 DEF OpenMarker, Goto, memory, past
<1>4. CASE WriteMarker(m)
    BY <1>4 DEF WriteMarker, Goto, memory, past
<1>5. CASE ReadMarker(m)
    BY <1>5 DEF ReadMarker, Goto, disk, memory, past
<1>6. CASE Acquire(m)
    BY <1>6, NothingAssumption DEF Acquire, Goto, memory, past, MayOwn
<1>7. CASE Load(m)
    BY <1>7 DEF Load, Goto, disk, past
<1>8. CASE SaveRegistry(m)
    BY <1>8 DEF SaveRegistry, past
<1>9. CASE Close(m)
    BY <1>9 DEF Close, Goto, disk, memory, past
<1>10. CASE Release(m)
    BY <1>10, NothingAssumption DEF Release, Goto, memory, past
<1>11. CASE Exit(m)
    BY <1>11, NothingAssumption DEF Exit
<1>12. ASSUME NEW p \in Profiles, Create(m, p) PROVE Owner'
    BY <1>12 DEF Create, disk, past
<1>13. ASSUME NEW ok \in BOOLEAN, SaveCreated(m, ok) PROVE Owner'
    BY <1>13 DEF SaveCreated, AfterSave, KnownIsMore
<1>14. ASSUME NEW ok \in BOOLEAN, MarkInitialized(m, ok) PROVE Owner'
    BY <1>14 DEF MarkInitialized
<1>15. ASSUME NEW ok \in BOOLEAN, EnsurePresets(m, ok) PROVE Owner'
    BY <1>15 DEF EnsurePresets, Goto
<1> QED
    BY <1>1, <1>2, <1>3, <1>4, <1>5, <1>6, <1>7, <1>8, <1>9, <1>10, <1>11, <1>12,
       <1>13, <1>14, <1>15 DEF Process

(* The owner's memory has the whole registry.                                *)
LEMMA KnownProcess ==
    ASSUME TypeOK, Owner, KnownIsMore, NEW m \in Managers, Process(m)
    PROVE  KnownIsMore'
<1> USE DEF KnownIsMore, TypeOK, Loaded, Bootstrapping
<1>1. CASE Begin(m)
    BY <1>1 DEF Begin, Goto, disk, memory, past
<1>2. CASE MakeRoot(m)
    BY <1>2 DEF MakeRoot, Goto, memory, past
<1>3. CASE OpenMarker(m)
    BY <1>3 DEF OpenMarker, Goto, memory, past
<1>4. CASE WriteMarker(m)
    BY <1>4 DEF WriteMarker, Goto, memory, past
<1>5. CASE ReadMarker(m)
    BY <1>5 DEF ReadMarker, Goto, disk, memory, past
<1>6. CASE Acquire(m)
    BY <1>6 DEF Acquire, Goto, memory, past
<1>7. CASE Load(m)
    BY <1>7 DEF Load, Goto, disk, past
<1>8. CASE SaveRegistry(m)
    BY <1>8 DEF SaveRegistry, past, Owner
<1>9. CASE Close(m)
    BY <1>9 DEF Close, Goto, disk, memory, past
<1>10. CASE Release(m)
    BY <1>10 DEF Release, Goto, memory, past
<1>11. CASE Exit(m)
    BY <1>11 DEF Exit
<1>12. ASSUME NEW p \in Profiles, Create(m, p) PROVE KnownIsMore'
    BY <1>12 DEF Create, disk, past
<1>13. ASSUME NEW ok \in BOOLEAN, SaveCreated(m, ok) PROVE KnownIsMore'
    BY <1>13 DEF SaveCreated, AfterSave, Owner
<1>14. ASSUME NEW ok \in BOOLEAN, MarkInitialized(m, ok) PROVE KnownIsMore'
    BY <1>14 DEF MarkInitialized
<1>15. ASSUME NEW ok \in BOOLEAN, EnsurePresets(m, ok) PROVE KnownIsMore'
    BY <1>15 DEF EnsurePresets, Goto
<1> QED
    BY <1>1, <1>2, <1>3, <1>4, <1>5, <1>6, <1>7, <1>8, <1>9, <1>10, <1>11, <1>12,
       <1>13, <1>14, <1>15 DEF Process

(* The marker.                                                               *)
LEMMA RootProcess ==
    ASSUME TypeOK, KnownIsMore, RefusedRootIsBeingMade, NEW m \in Managers, Process(m)
    PROVE  RefusedRootIsBeingMade'
<1> USE DEF RefusedRootIsBeingMade, TypeOK
<1>1. CASE Begin(m)
    BY <1>1 DEF Begin, Goto, disk, memory, past
<1>2. CASE MakeRoot(m)
    BY <1>2 DEF MakeRoot, Goto, memory, past
<1>3. CASE OpenMarker(m)
    BY <1>3 DEF OpenMarker, Goto, memory, past
<1>4. CASE WriteMarker(m)
    BY <1>4 DEF WriteMarker, Goto, memory, past
<1>5. CASE ReadMarker(m)
    BY <1>5 DEF ReadMarker, Goto, disk, memory, past
<1>6. CASE Acquire(m)
    BY <1>6 DEF Acquire, Goto, memory, past
<1>7. CASE Load(m)
    BY <1>7 DEF Load, Goto, disk, past
<1>8. CASE SaveRegistry(m)
    BY <1>8 DEF SaveRegistry, past
<1>9. CASE Close(m)
    BY <1>9 DEF Close, Goto, disk, memory, past
<1>10. CASE Release(m)
    BY <1>10 DEF Release, Goto, memory, past
<1>11. CASE Exit(m)
    BY <1>11 DEF Exit, Cuts
<1>12. ASSUME NEW p \in Profiles, Create(m, p) PROVE RefusedRootIsBeingMade'
    BY <1>12 DEF Create, disk, past
<1>13. ASSUME NEW ok \in BOOLEAN, SaveCreated(m, ok) PROVE RefusedRootIsBeingMade'
    BY <1>13 DEF SaveCreated, AfterSave, KnownIsMore, Cuts
<1>14. ASSUME NEW ok \in BOOLEAN, MarkInitialized(m, ok) PROVE RefusedRootIsBeingMade'
    BY <1>14 DEF MarkInitialized
<1>15. ASSUME NEW ok \in BOOLEAN, EnsurePresets(m, ok) PROVE RefusedRootIsBeingMade'
    BY <1>15 DEF EnsurePresets, Goto
<1> QED
    BY <1>1, <1>2, <1>3, <1>4, <1>5, <1>6, <1>7, <1>8, <1>9, <1>10, <1>11, <1>12,
       <1>13, <1>14, <1>15 DEF Process

(* What was created.                                                         *)
LEMMA CreatedProcess ==
    ASSUME TypeOK, KnownIsMore, Owner, CreatedIsKept, NEW m \in Managers, Process(m)
    PROVE  CreatedIsKept'
<1> USE DEF CreatedIsKept, TypeOK, Loaded, Bootstrapping
<1>1. CASE Begin(m)
    BY <1>1 DEF Begin, Goto, disk, memory, past
<1>2. CASE MakeRoot(m)
    BY <1>2 DEF MakeRoot, Goto, memory, past
<1>3. CASE OpenMarker(m)
    BY <1>3 DEF OpenMarker, Goto, memory, past
<1>4. CASE WriteMarker(m)
    BY <1>4 DEF WriteMarker, Goto, memory, past
<1>5. CASE ReadMarker(m)
    BY <1>5 DEF ReadMarker, Goto, disk, memory, past
<1>6. CASE Acquire(m)
    BY <1>6 DEF Acquire, Goto, memory, past
<1>7. CASE Load(m)
    BY <1>7 DEF Load, Goto, disk, past
<1>8. CASE SaveRegistry(m)
    BY <1>8 DEF SaveRegistry, past, KnownIsMore
<1>9. CASE Close(m)
    BY <1>9 DEF Close, Goto, disk, memory, past
<1>10. CASE Release(m)
    BY <1>10 DEF Release, Goto, memory, past
<1>11. CASE Exit(m)
    BY <1>11 DEF Exit
<1>12. ASSUME NEW p \in Profiles, Create(m, p) PROVE CreatedIsKept'
    BY <1>12 DEF Create, disk, past
<1>13. ASSUME NEW ok \in BOOLEAN, SaveCreated(m, ok) PROVE CreatedIsKept'
    BY <1>13 DEF SaveCreated, AfterSave, KnownIsMore
<1>14. ASSUME NEW ok \in BOOLEAN, MarkInitialized(m, ok) PROVE CreatedIsKept'
    BY <1>14 DEF MarkInitialized
<1>15. ASSUME NEW ok \in BOOLEAN, EnsurePresets(m, ok) PROVE CreatedIsKept'
    BY <1>15 DEF EnsurePresets, Goto
<1> QED
    BY <1>1, <1>2, <1>3, <1>4, <1>5, <1>6, <1>7, <1>8, <1>9, <1>10, <1>11, <1>12,
       <1>13, <1>14, <1>15 DEF Process

(* The processes of requests.                                                *)
LEMMA ThreadsProcess ==
    ASSUME TypeOK, KnownIsMore, ThreadsInv, NEW m \in Managers, Process(m)
    PROVE  ThreadsInv'
<1> USE DEF ThreadsInv, TypeOK
<1>1. CASE Begin(m)
    BY <1>1, RequestType DEF Begin, Goto, disk, memory, past
<1>2. CASE MakeRoot(m)
    BY <1>2, RequestType DEF MakeRoot, Goto, memory, past
<1>3. CASE OpenMarker(m)
    BY <1>3, RequestType DEF OpenMarker, Goto, memory, past
<1>4. CASE WriteMarker(m)
    BY <1>4, RequestType DEF WriteMarker, Goto, memory, past
<1>5. CASE ReadMarker(m)
    BY <1>5, RequestType DEF ReadMarker, Goto, disk, memory, past
<1>6. CASE Acquire(m)
    BY <1>6, RequestType DEF Acquire, Goto, memory, past
<1>7. CASE Load(m)
    BY <1>7, RequestType DEF Load, Goto, disk, past
<1>8. CASE SaveRegistry(m)
    BY <1>8, RequestType DEF SaveRegistry, past
<1>9. CASE Close(m)
    BY <1>9, RequestType DEF Close, Goto, disk, memory, past
<1>10. CASE Release(m)
    BY <1>10, RequestType DEF Release, Goto, memory, past
<1>11. CASE Exit(m)
    BY <1>11, RequestType DEF Exit
<1>12. ASSUME NEW p \in Profiles, Create(m, p) PROVE ThreadsInv'
    BY <1>12, RequestType DEF Create, disk, past
<1>13. ASSUME NEW ok \in BOOLEAN, SaveCreated(m, ok) PROVE ThreadsInv'
    BY <1>13, RequestType DEF SaveCreated, AfterSave, KnownIsMore
<1>14. ASSUME NEW ok \in BOOLEAN, MarkInitialized(m, ok) PROVE ThreadsInv'
    BY <1>14, RequestType DEF MarkInitialized
<1>15. ASSUME NEW ok \in BOOLEAN, EnsurePresets(m, ok) PROVE ThreadsInv'
    BY <1>15, RequestType DEF EnsurePresets, Goto
<1> QED
    BY <1>1, <1>2, <1>3, <1>4, <1>5, <1>6, <1>7, <1>8, <1>9, <1>10, <1>11, <1>12,
       <1>13, <1>14, <1>15 DEF Process

(* The presets.                                                              *)
LEMMA PresetsProcess ==
    ASSUME TypeOK, Owner, KnownIsMore, PresetsInv, NEW m \in Managers, Process(m)
    PROVE  PresetsInv'
<1> USE DEF PresetsInv, Complete, Booted, TypeOK, Owner, KnownIsMore, Loaded, Bootstrapping
<1>1. CASE Begin(m)
    BY <1>1 DEF Begin, Goto, disk, memory, past
<1>2. CASE MakeRoot(m)
    BY <1>2 DEF MakeRoot, Goto, memory, past
<1>3. CASE OpenMarker(m)
    BY <1>3 DEF OpenMarker, Goto, memory, past
<1>4. CASE WriteMarker(m)
    BY <1>4 DEF WriteMarker, Goto, memory, past
<1>5. CASE ReadMarker(m)
    BY <1>5 DEF ReadMarker, Goto, disk, memory, past
<1>6. CASE Acquire(m)
    BY <1>6 DEF Acquire, Goto, memory, past
<1>7. CASE Load(m)
    BY <1>7 DEF Load, Goto, disk, past
<1>8. CASE SaveRegistry(m)
    BY <1>8 DEF SaveRegistry, past
<1>9. CASE Close(m)
    BY <1>9 DEF Close, Goto, disk, memory, past
<1>10. CASE Release(m)
    BY <1>10 DEF Release, Goto, memory, past
<1>11. CASE Exit(m)
    BY <1>11 DEF Exit, Cuts, NoSettings
<1>12. ASSUME NEW p \in Profiles, Create(m, p) PROVE PresetsInv'
    BY <1>12 DEF Create, disk, past
<1>13. ASSUME NEW ok \in BOOLEAN, SaveCreated(m, ok) PROVE PresetsInv'
    BY <1>13, PresetsAssumption DEF SaveCreated, AfterSave, Cuts, KnownIsMore
<1>14. ASSUME NEW ok \in BOOLEAN, MarkInitialized(m, ok) PROVE PresetsInv'
    BY <1>14, StoreType DEF MarkInitialized, Store, Settings
<1>15. ASSUME NEW ok \in BOOLEAN, EnsurePresets(m, ok) PROVE PresetsInv'
    BY <1>15, EnsuredType, StoreType DEF EnsurePresets, Goto, Store
<1> QED
    BY <1>1, <1>2, <1>3, <1>4, <1>5, <1>6, <1>7, <1>8, <1>9, <1>10, <1>11, <1>12,
       <1>13, <1>14, <1>15 DEF Process

(* The settings.                                                             *)
LEMMA SettingsProcess ==
    ASSUME TypeOK, Owner, KnownIsMore, SettingsInv, NEW m \in Managers, Process(m)
    PROVE  SettingsInv'
<1> USE DEF SettingsInv, TypeOK, Owner, Loaded, Bootstrapping
<1>1. CASE Begin(m)
    BY <1>1 DEF Begin, Goto, disk, memory, past
<1>2. CASE MakeRoot(m)
    BY <1>2 DEF MakeRoot, Goto, memory, past
<1>3. CASE OpenMarker(m)
    BY <1>3 DEF OpenMarker, Goto, memory, past
<1>4. CASE WriteMarker(m)
    BY <1>4 DEF WriteMarker, Goto, memory, past
<1>5. CASE ReadMarker(m)
    BY <1>5 DEF ReadMarker, Goto, disk, memory, past
<1>6. CASE Acquire(m)
    BY <1>6 DEF Acquire, Goto, memory, past
<1>7. CASE Load(m)
    BY <1>7 DEF Load, Goto, disk, past
<1>8. CASE SaveRegistry(m)
    BY <1>8 DEF SaveRegistry, past
<1>9. CASE Close(m)
    BY <1>9 DEF Close, Goto, disk, memory, past
<1>10. CASE Release(m)
    BY <1>10 DEF Release, Goto, memory, past
<1>11. CASE Exit(m)
    BY <1>11 DEF Exit, Cuts, NoSettings
<1>12. ASSUME NEW p \in Profiles, Create(m, p) PROVE SettingsInv'
    BY <1>12 DEF Create, disk, past
<1>13. ASSUME NEW ok \in BOOLEAN, SaveCreated(m, ok) PROVE SettingsInv'
    BY <1>13 DEF SaveCreated, AfterSave, Cuts, KnownIsMore
<1>14. ASSUME NEW ok \in BOOLEAN, MarkInitialized(m, ok) PROVE SettingsInv'
    BY <1>14 DEF MarkInitialized, Store, Settings
<1>15. ASSUME NEW ok \in BOOLEAN, EnsurePresets(m, ok) PROVE SettingsInv'
    BY <1>15, EnsuredType, StoreType DEF EnsurePresets, Goto, Store
<1> QED
    BY <1>1, <1>2, <1>3, <1>4, <1>5, <1>6, <1>7, <1>8, <1>9, <1>10, <1>11, <1>12,
       <1>13, <1>14, <1>15 DEF Process

-----------------------------------------------------------------------------
(* A request of a thread leaves the marker, the mutex and the registry alone. *)
LEMMA ThreadLeaves ==
    ASSUME NEW t \in Threads, Thread(t)
    PROVE  /\ UNCHANGED <<root, holder, registry, pc, known, adding, created>>
           /\ cut \subseteq cut' /\ cut' \subseteq cut \cup {"late"}
<1>1. ASSUME NEW m \in Managers, NEW p \in Profiles \cup {Nothing},
             NEW v \in Values \cup {Nothing}, List(t, m, p, v)
      PROVE  /\ UNCHANGED <<root, holder, registry, pc, known, adding, created>>
             /\ UNCHANGED cut
    BY <1>1 DEF List, disk, past
<1>2. CASE Listed(t)
    BY <1>2 DEF Listed, disk, past
<1>3. ASSUME NEW ok \in BOOLEAN, EnsureListed(t, ok) \/ Put(t, ok)
      PROVE  /\ UNCHANGED <<root, holder, registry, pc, known, adding, created>>
             /\ cut \subseteq cut' /\ cut' \subseteq cut \cup {"late"}
    BY <1>3 DEF EnsureListed, Put, Late
<1> QED BY <1>1, <1>2, <1>3 DEF Thread

LEMMA ThreadsThread ==
    ASSUME TypeOK, ThreadsInv, NEW t \in Threads, Thread(t)
    PROVE  ThreadsInv'
<1> USE DEF ThreadsInv
<1>0. UNCHANGED pc
    BY ThreadLeaves
<1>1. ASSUME NEW m \in Managers, NEW p \in Profiles \cup {Nothing},
             NEW v \in Values \cup {Nothing}, List(t, m, p, v)
      PROVE  ThreadsInv'
    BY <1>0, <1>1 DEF List, TypeOK
<1>2. ASSUME ui'[t] = Idle \/ (ui[t] # Idle /\ ui'[t].manager = ui[t].manager),
             \A u \in Threads : u # t => ui'[u] = ui[u]
      PROVE  ThreadsInv'
    BY <1>0, <1>2
<1>3. CASE Listed(t)
    <2>1. ui[t] # Idle
        BY <1>3 DEF Listed, Idle
    <2>2. ui'[t] = Idle \/ ui'[t].manager = ui[t].manager
        BY <1>3, <2>1, RequestType DEF Listed, TypeOK, Request
    <2> QED BY <1>2, <1>3, <2>1, <2>2 DEF Listed, TypeOK
<1>4. ASSUME NEW ok \in BOOLEAN, EnsureListed(t, ok) PROVE ThreadsInv'
    <2>1. ui[t] # Idle
        BY <1>4 DEF EnsureListed, Idle
    <2>2. ui'[t] = Idle \/ ui'[t].manager = ui[t].manager
        BY <1>4, <2>1, RequestType DEF EnsureListed, TypeOK, Request
    <2> QED BY <1>2, <1>4, <2>1, <2>2 DEF EnsureListed, TypeOK
<1>5. ASSUME NEW ok \in BOOLEAN, Put(t, ok) PROVE ThreadsInv'
    BY <1>2, <1>5 DEF Put, TypeOK
<1> QED BY <1>1, <1>3, <1>4, <1>5 DEF Thread

(* The settings a thread writes are initialised when they were.              *)
LEMMA PresetsThread ==
    ASSUME TypeOK, PresetsInv, NEW t \in Threads, Thread(t)
    PROVE  PresetsInv'
<1>1. UNCHANGED <<registry, pc>> /\ (Complete => Complete')
    BY ThreadLeaves DEF Complete
<1>2. ASSUME /\ \A m \in Managers : mem'[m].initialized => mem[m].initialized
             /\ file' = file \/ \E m \in Managers : file' = mem'[m]
      PROVE  PresetsInv'
    BY <1>1, <1>2 DEF PresetsInv
<1>3. ASSUME NEW ok \in BOOLEAN, EnsureListed(t, ok) PROVE PresetsInv'
    <2>1. ui[t].manager \in Managers
        BY <1>3, RequestType DEF EnsureListed, Idle
    <2>2. mem[ui[t].manager] \in Settings
        BY <2>1 DEF TypeOK
    <2> QED BY <1>2, <1>3, <2>1, <2>2, EnsuredType DEF EnsureListed, Store, TypeOK
<1>4. ASSUME NEW ok \in BOOLEAN, Put(t, ok) PROVE PresetsInv'
    <2>1. \A m \in Managers : mem'[m].initialized = mem[m].initialized
        BY <1>4, PutType
    <2>2. file' = file \/ file' = mem'[ui[t].manager]
        BY <1>4 DEF Put
    <2> QED BY <1>2, <1>4, <2>1, <2>2, PutType
<1> QED BY <1>2, <1>3, <1>4 DEF Thread, List, Listed, disk, past

(* In time, a thread works on the owner's memory.                            *)
LEMMA SettingsThread ==
    ASSUME TypeOK, Owner, ThreadsInv, SettingsInv, NEW t \in Threads, Thread(t)
    PROVE  SettingsInv'
<1>1. UNCHANGED <<pc, holder>> /\ cut \subseteq cut'
    BY ThreadLeaves
<1> SUFFICES ASSUME "late" \notin cut' PROVE SettingsInv'
    BY DEF SettingsInv
<1>2. \A p \in Profiles : answered[p] # Nothing =>
        /\ answered[p] \in Values
        /\ file.entries[p] = answered[p]
        /\ \A m \in Managers : pc[m] \in Loaded => mem[m].entries[p] = answered[p]
    BY <1>1 DEF SettingsInv, TypeOK
<1>3. ASSUME NEW ok \in BOOLEAN, EnsureListed(t, ok) PROVE SettingsInv'
    <2> DEFINE o == ui[t].manager
    <2>1. o \in Managers /\ holder = o
        BY <1>3, RequestType DEF EnsureListed, Idle, Late
    <2>2. pc[o] \in Loaded
        BY <1>3, <2>1 DEF EnsureListed, Idle, ThreadsInv, Owner, Loaded, Bootstrapping
    <2>3. mem[o] \in Settings /\ mem \in [Managers -> Settings]
        BY <2>1 DEF TypeOK
    <2>4. mem' = [mem EXCEPT ![o] = Ensured(mem[o], ui[t].seen)] /\ answered' = answered
        BY <1>3 DEF EnsureListed, Store
    <2>5. file' = file \/ file' = mem'[o]
        BY <1>3, <2>3, <2>4, <2>1 DEF EnsureListed, Store
    <2>6. \A p \in Profiles : answered[p] # Nothing => mem'[o].entries[p] = answered[p]
        BY <1>2, <2>1, <2>2, <2>3, <2>4, EnsuredType, NothingAssumption
    <2> QED BY <1>1, <1>2, <2>1, <2>3, <2>4, <2>5, <2>6 DEF SettingsInv
<1>4. ASSUME NEW ok \in BOOLEAN, Put(t, ok) PROVE SettingsInv'
    <2> DEFINE o == ui[t].manager
    <2>1. o \in Managers /\ holder = o
        BY <1>4, PutType DEF Put, Late
    <2>2. pc[o] \in Loaded
        <3>1. pc[o] \in {"serving", "closing", "released"}
            BY <1>4, PutType DEF ThreadsInv
        <3>2. pc[o] \in Loaded \cup {"load"}
            BY <2>1 DEF Owner
        <3> QED BY <3>1, <3>2 DEF Loaded, Bootstrapping
    <2>3. \A m \in Managers : pc[m] \in Loaded => m = o
        BY <2>1 DEF Owner
    <2>4. /\ mem[o].entries \in Entries
          /\ mem'[o].entries = [mem[o].entries EXCEPT ![ui[t].profile] = ui[t].value]
        BY <1>4, <2>1, PutType DEF TypeOK, Settings
    <2>5. /\ answered' = [answered EXCEPT ![ui[t].profile] =
                            IF ok THEN ui[t].value ELSE Nothing]
          /\ file' = IF ok THEN mem'[o] ELSE file
        BY <1>4 DEF Put
    <2>6. ui[t].profile \in Profiles /\ ui[t].value \in Values
        BY <1>4, PutType
    <2>7. ASSUME NEW p \in Profiles, answered'[p] # Nothing
          PROVE  file'.entries[p] = answered'[p] /\ mem'[o].entries[p] = answered'[p]
        <3>1. answered \in [Profiles -> Values \cup {Nothing}]
            BY DEF TypeOK
        <3>2. CASE p = ui[t].profile
            BY <2>4, <2>5, <2>6, <2>7, <3>1, <3>2 DEF Entries
        <3>3. CASE p # ui[t].profile
            BY <1>2, <2>1, <2>2, <2>4, <2>5, <2>6, <2>7, <3>1, <3>3 DEF Entries
        <3> QED BY <3>2, <3>3
    <2> QED BY <1>1, <2>3, <2>7 DEF SettingsInv
<1> QED BY <1>1, <1>2, <1>3, <1>4 DEF SettingsInv, Thread, List, Listed, disk, past

-----------------------------------------------------------------------------
Inv ==
    /\ TypeOK /\ Owner /\ KnownIsMore /\ ThreadsInv
    /\ RefusedRootIsBeingMade /\ CreatedIsKept /\ PresetsInv /\ SettingsInv

LEMMA InvInit == Init => Inv
<1> SUFFICES ASSUME Init PROVE Inv
    OBVIOUS
<1>1. TypeOK
    BY InitType
<1> QED
    BY <1>1, NothingAssumption
    DEF Init, Inv, Owner, KnownIsMore, ThreadsInv, RefusedRootIsBeingMade, CreatedIsKept,
        PresetsInv, SettingsInv, NoSettings, Loaded, Bootstrapping, Booted

LEMMA InvNext == Inv /\ [Next]_vars => Inv'
<1> SUFFICES ASSUME Inv, [Next]_vars PROVE Inv'
    OBVIOUS
<1> USE DEF Inv
<1>1. ASSUME NEW m \in Managers, Process(m) PROVE Inv'
    BY <1>1, ProcessType, OwnerProcess, KnownProcess, ThreadsProcess, RootProcess,
       CreatedProcess, PresetsProcess, SettingsProcess
<1>2. ASSUME NEW t \in Threads, Thread(t) PROVE Inv'
    <2>1. TypeOK' /\ ThreadsInv' /\ PresetsInv' /\ SettingsInv'
        BY <1>2, ThreadType, ThreadsThread, PresetsThread, SettingsThread
    <2>2. Owner' /\ KnownIsMore' /\ RefusedRootIsBeingMade' /\ CreatedIsKept'
        BY <1>2, ThreadLeaves DEF Owner, KnownIsMore, RefusedRootIsBeingMade, CreatedIsKept
    <2> QED BY <2>1, <2>2
<1>3. CASE UNCHANGED vars
    BY <1>3 DEF vars, TypeOK, Owner, KnownIsMore, ThreadsInv, RefusedRootIsBeingMade,
                CreatedIsKept, PresetsInv, Complete, SettingsInv
<1> QED BY <1>1, <1>2, <1>3 DEF Next

LEMMA InvHolds == Spec => []Inv
BY InvInit, InvNext, PTL DEF Spec

(* Whatever starts race, a data root that every start refuses is being made,  *)
(* or a process was cut while it made it (data_root.py 35-45, 57-71).         *)
THEOREM RootIsMade == Spec => []RefusedRootIsBeingMade
<1>1. Inv => RefusedRootIsBeingMade
    BY DEF Inv
<1> QED BY <1>1, InvHolds, PTL

(* With any number of processes started on one directory, no created profile  *)
(* is lost (instance_lock.py 38-61; profile_manager.py 289-294, 361-394).     *)
THEOREM CreationsStay == Spec => []CreatedIsKept
<1>1. Inv => CreatedIsKept
    BY DEF Inv
<1> QED BY <1>1, InvHolds, PTL

(* A service that serves has all presets, or a bootstrap was cut              *)
(* (local_management_ui.py 78-95).                                            *)
THEOREM PresetsAreThere == Spec => []PresetsUnlessCut
<1>1. Inv => PresetsUnlessCut
    BY DEF Inv, PresetsInv, Complete, Booted, PresetsUnlessCut, KnownIsMore, Loaded
<1> QED BY <1>1, InvHolds, PTL

(* Until a thread writes late, the file has what each profile's last          *)
(* successful PUT set (local_management_ui.py 45-76, 127-150).                *)
THEOREM SettingsStay == Spec => []SettingsKept
<1>1. Inv => SettingsKept
    BY DEF Inv, SettingsInv, SettingsKept
<1> QED BY <1>1, InvHolds, PTL

=============================================================================
