----------------------------- MODULE ServiceStart -----------------------------
(*****************************************************************************)
(* Manager processes that are started on one data directory: the marker of    *)
(* the directory (data_root.py), the mutex that one process may hold          *)
(* (instance_lock.py), the presets of the first start and the settings of the *)
(* management page (local_management_ui.py), in the order of server.py.       *)
(*                                                                            *)
(* The event loop creates profiles; requests for settings run on threads of   *)
(* their own, which list the profiles without a lock, and which outlive the   *)
(* mutex until the process ends. Any write to the disk may fail, and a        *)
(* process may die at any step. A file is replaced as a whole, except the     *)
(* marker. The process is started with the product's ports.                   *)
(*****************************************************************************)
EXTENDS Naturals

CONSTANTS
    Managers,   \* processes
    Threads,    \* threads of the UI servers
    Profiles,   \* profile ids
    Presets,    \* those that the first start creates
    Values,     \* what a PUT may set for a profile
    Default,    \* what ensure_profiles sets
    MaxFailures, \* bound on failing writes; deaths have none
    Nothing     \* no process, profile or value

ASSUME PresetsAssumption == Presets \subseteq Profiles /\ Presets # {}
ASSUME MaxFailuresAssumption == MaxFailures \in Nat
ASSUME NothingAssumption ==
    /\ Nothing \notin Managers \cup Profiles \cup Values \cup {Default}
    /\ Default \notin Values

VARIABLES
    root,      \* the data directory and its marker
    holder,    \* the process that owns the mutex
    registry,  \* registry.json: the profiles in it
    file,      \* ui-settings.json
    pc,        \* where a process is
    known,     \* its manager's _records
    adding,    \* the profile its create has put there and not yet saved
    mem,       \* its UISettingsStore._data
    ui,        \* the requests for settings
    created,   \* the profiles whose creation was answered with success
    answered,  \* what the last successful PUT of a profile set
    failures,  \* the writes that failed
    cut        \* what deaths, failures and late threads did

disk == <<root, holder, registry, file>>
memory == <<known, adding, mem, ui>>
past == <<created, answered, failures, cut>>
vars == <<root, holder, registry, file, pc, known, adding, mem, ui, created,
          answered, failures, cut>>

-----------------------------------------------------------------------------
Entries == [Profiles -> Values \cup {Default, Nothing}]
Settings == [initialized : BOOLEAN, entries : Entries]

NoSettings == [initialized |-> FALSE, entries |-> [p \in Profiles |-> Nothing]]

(* A PUT sets a value for a profile. GET, and a PUT that is refused as        *)
(* invalid, do no more than ensure_profiles: they have neither.               *)
Request ==
    [at : {"listing", "ensure"}, manager : Managers, seen : SUBSET Profiles,
     profile : {Nothing}, value : {Nothing}]
    \cup [at : {"listing", "ensure", "put"}, manager : Managers, seen : SUBSET Profiles,
          profile : Profiles, value : Values]
Idle == [at |-> "idle"]

Starting == {"mkdir", "open", "write", "read", "lock", "load"}
Bootstrapping == {"presets", "marknew", "ensure", "mark"}

(* The places at which a process has the files in memory.                     *)
Loaded == Bootstrapping \cup {"serving", "closing", "failed"}

TypeOK ==
    /\ root \in {"absent", "unmarked", "torn", "marked"}
    /\ holder \in Managers \cup {Nothing}
    /\ registry \subseteq Profiles
    /\ file \in Settings
    /\ pc \in [Managers -> Starting \cup Loaded \cup {"off", "released"}]
    /\ known \in [Managers -> SUBSET Profiles]
    /\ adding \in [Managers -> Profiles \cup {Nothing}]
    /\ mem \in [Managers -> Settings]
    /\ ui \in [Threads -> Request \cup {Idle}]
    /\ created \subseteq Profiles
    /\ answered \in [Profiles -> Values \cup {Nothing}]
    /\ failures \in 0 .. MaxFailures
    /\ cut \subseteq {"marker", "presets", "late"}

Init ==
    /\ root = "absent"
    /\ holder = Nothing
    /\ registry = {}
    /\ file = NoSettings
    /\ pc = [m \in Managers |-> "off"]
    /\ known = [m \in Managers |-> {}]
    /\ adding = [m \in Managers |-> Nothing]
    /\ mem = [m \in Managers |-> NoSettings]
    /\ ui = [t \in Threads |-> Idle]
    /\ created = {}
    /\ answered = [p \in Profiles |-> Nothing]
    /\ failures = 0
    /\ cut = {}

Goto(m, from, to) == pc[m] = from /\ pc' = [pc EXCEPT ![m] = to]

-----------------------------------------------------------------------------
(* The data root. Looking whether it exists, making it and writing its marker *)
(* are steps that two processes may mix: nobody holds the mutex yet.          *)
Begin(m) ==
    /\ Goto(m, "off", IF root = "absent" THEN "mkdir" ELSE "read")
    /\ UNCHANGED <<disk, memory, past>>

(* Mutant of MakeRoot: the new directory gets no marker.                     *)
MakeRootOnly(m) ==
    /\ Goto(m, "mkdir", "read")
    /\ root' = IF root = "absent" THEN "unmarked" ELSE root
    /\ UNCHANGED <<holder, registry, file, memory, past>>

MakeRoot(m) ==
    /\ Goto(m, "mkdir", "open")
    /\ root' = IF root = "absent" THEN "unmarked" ELSE root
    /\ UNCHANGED <<holder, registry, file, memory, past>>

(* write_text opens the marker, which empties it, and then fills it.          *)
OpenMarker(m) ==
    /\ Goto(m, "open", "write")
    /\ root' = "torn"
    /\ UNCHANGED <<holder, registry, file, memory, past>>

WriteMarker(m) ==
    /\ Goto(m, "write", "read")
    /\ root' = "marked"
    /\ UNCHANGED <<holder, registry, file, memory, past>>

ReadMarker(m) ==
    /\ Goto(m, "read", IF root = "marked" THEN "lock" ELSE "off")
    /\ UNCHANGED <<disk, memory, past>>

(* Mutant of MayOwn: the answer of the wait is not looked at.                *)
MayOwnAlways(m) == holder # m

(* The mutex is not waited for.                                              *)
MayOwn(m) == holder = Nothing

Acquire(m) ==
    /\ Goto(m, "lock", IF MayOwn(m) THEN "load" ELSE "off")
    /\ holder' = IF MayOwn(m) THEN m ELSE holder
    /\ UNCHANGED <<root, registry, file, memory, past>>

-----------------------------------------------------------------------------
(* ProfileManager and UISettingsStore read their files, and bootstrap_presets *)
(* decides what to do.                                                        *)
Load(m) ==
    /\ Goto(m, "load", IF registry = {} /\ ~file.initialized THEN "presets" ELSE "mark")
    /\ known' = [known EXCEPT ![m] = registry]
    /\ mem' = [mem EXCEPT ![m] = file]
    /\ UNCHANGED <<disk, adding, ui, past>>

(* create, up to its save: another thread may list the profile already.       *)
Create(m, p) ==
    /\ \/ pc[m] = "presets" /\ p \in Presets
       \/ pc[m] = "serving"
    /\ adding[m] = Nothing /\ p \notin known[m]
    /\ known' = [known EXCEPT ![m] = @ \cup {p}]
    /\ adding' = [adding EXCEPT ![m] = p]
    /\ UNCHANGED <<disk, pc, mem, ui, past>>

(* A write, which may fail.                                                  *)
Written(ok) ==
    /\ ok \/ failures < MaxFailures
    /\ failures' = IF ok THEN failures ELSE failures + 1

(* What the end of process m, or of its start, leaves half done.             *)
Cuts(m) ==
    IF pc[m] \in {"open", "write"} THEN {"marker"}
    ELSE IF pc[m] = "presets" /\ registry # {} THEN {"presets"} ELSE {}

(* Mutant of AfterSave: one preset is enough.                                *)
AfterFirst(m, ok) ==
    IF pc[m] = "serving" THEN "serving"
    ELSE IF ~ok THEN "failed"
    ELSE IF Presets \cap known[m] # {} THEN "marknew" ELSE "presets"

(* Where the bootstrap goes on when the save of a create ended.               *)
AfterSave(m, ok) ==
    IF pc[m] = "serving" THEN "serving"
    ELSE IF ~ok THEN "failed"
    ELSE IF Presets \subseteq known[m] THEN "marknew" ELSE "presets"

SaveCreated(m, ok) ==
    /\ adding[m] # Nothing
    /\ Written(ok)
    /\ pc' = [pc EXCEPT ![m] = AfterSave(m, ok)]
    /\ adding' = [adding EXCEPT ![m] = Nothing]
    /\ registry' = IF ok THEN known[m] ELSE registry
    /\ created' = IF ok THEN created \cup {adding[m]} ELSE created
    /\ cut' = IF ok THEN cut ELSE cut \cup Cuts(m)
    /\ UNCHANGED <<root, holder, file, known, mem, ui, answered>>

(* Any other save of the registry, by a call of the API or by stop_all.       *)
SaveRegistry(m) ==
    /\ pc[m] \in {"serving", "closing"} /\ adding[m] = Nothing
    /\ registry' = known[m]
    /\ UNCHANGED <<root, holder, file, pc, known, adding, mem, ui, past>>

(* Under the lock of the settings: they are changed in memory, then saved.    *)
Store(m, settings, ok) ==
    /\ mem' = [mem EXCEPT ![m] = settings]
    /\ settings = mem[m] => ok
    /\ Written(ok)
    /\ file' = IF ok /\ settings # mem[m] THEN settings ELSE file

MarkInitialized(m, ok) ==
    /\ pc[m] \in {"mark", "marknew"}
    /\ pc' = [pc EXCEPT ![m] = IF ~ok THEN "failed"
                               ELSE IF pc[m] = "mark" THEN "serving" ELSE "ensure"]
    /\ Store(m, [mem[m] EXCEPT !.initialized = TRUE], ok)
    /\ UNCHANGED <<root, holder, registry, known, adding, ui, created, answered, cut>>

(* Mutant of Ensured: profiles that have settings get the defaults again.    *)
EnsuredAgain(settings, seen) ==
    [settings EXCEPT !.entries =
        [p \in Profiles |-> IF p \in seen THEN Default ELSE @[p]]]

Ensured(settings, seen) ==
    [settings EXCEPT !.entries =
        [p \in Profiles |-> IF p \in seen /\ @[p] = Nothing THEN Default ELSE @[p]]]

EnsurePresets(m, ok) ==
    /\ Goto(m, "ensure", IF ok THEN "serving" ELSE "failed")
    /\ Store(m, Ensured(mem[m], Presets), ok)
    /\ UNCHANGED <<root, holder, registry, known, adding, ui, created, answered, cut>>

-----------------------------------------------------------------------------
(* A thread of the UI server starts to go over the records.                   *)
List(t, m, p, v) ==
    /\ ui[t] = Idle /\ pc[m] = "serving"
    /\ p = Nothing <=> v = Nothing
    /\ ui' = [ui EXCEPT ![t] = [at |-> "listing", manager |-> m, seen |-> known[m],
                                profile |-> p, value |-> v]]
    /\ UNCHANGED <<disk, pc, known, adding, mem, past>>

(* It fails when the event loop added one meanwhile, and update refuses a     *)
(* profile that is not listed.                                                *)
Listed(t) ==
    /\ ui[t].at = "listing"
    /\ ui' = [ui EXCEPT ![t] =
                IF known[@.manager] = @.seen /\ @.profile \in @.seen \cup {Nothing}
                THEN [@ EXCEPT !.at = "ensure"] ELSE Idle]
    /\ UNCHANGED <<disk, pc, known, adding, mem, past>>

(* A thread writes after its process has let another one take the directory.  *)
Late(m) == IF holder = m THEN {} ELSE {"late"}

(* Mutant of EnsureListed: an invalid PUT goes on.                           *)
EnsureUnchecked(t, ok) ==
    LET r == ui[t] IN
    /\ r.at = "ensure"
    /\ Store(r.manager, Ensured(mem[r.manager], r.seen), ok)
    /\ ui' = [ui EXCEPT ![t] = IF ok THEN [r EXCEPT !.at = "put", !.seen = {}] ELSE Idle]
    /\ cut' = cut \cup Late(r.manager)
    /\ UNCHANGED <<root, holder, registry, pc, known, adding, created, answered>>

EnsureListed(t, ok) ==
    LET r == ui[t] IN
    /\ r.at = "ensure"
    /\ Store(r.manager, Ensured(mem[r.manager], r.seen), ok)
    /\ ui' = [ui EXCEPT ![t] = IF ok /\ r.value # Nothing
                               THEN [r EXCEPT !.at = "put", !.seen = {}] ELSE Idle]
    /\ cut' = cut \cup Late(r.manager)
    /\ UNCHANGED <<root, holder, registry, pc, known, adding, created, answered>>

(* A PUT that fails to save has changed the memory all the same.             *)
Put(t, ok) ==
    LET r == ui[t] IN
    /\ r.at = "put"
    /\ Written(ok)
    /\ mem' = [mem EXCEPT ![r.manager].entries[r.profile] = r.value]
    /\ file' = IF ok THEN mem'[r.manager] ELSE file
    /\ answered' = [answered EXCEPT ![r.profile] = IF ok THEN r.value ELSE Nothing]
    /\ ui' = [ui EXCEPT ![t] = Idle]
    /\ cut' = cut \cup Late(r.manager)
    /\ UNCHANGED <<root, holder, registry, pc, known, adding, created>>

-----------------------------------------------------------------------------
(* The console interrupts the service; its UI takes no more requests. A start *)
(* that failed ends without stop_all.                                         *)
Close(m) ==
    /\ Goto(m, "serving", "closing")
    /\ adding[m] = Nothing
    /\ UNCHANGED <<disk, memory, past>>

Release(m) ==
    /\ \E from \in {"closing", "failed"} : Goto(m, from, "released")
    /\ holder' = Nothing
    /\ UNCHANGED <<root, registry, file, memory, past>>

(* The process ends, in order or not, and its threads with it. Windows frees  *)
(* the mutex.                                                                 *)
Exit(m) ==
    /\ pc[m] # "off"
    /\ pc' = [pc EXCEPT ![m] = "off"]
    /\ holder' = IF holder = m THEN Nothing ELSE holder
    /\ known' = [known EXCEPT ![m] = {}]
    /\ adding' = [adding EXCEPT ![m] = Nothing]
    /\ mem' = [mem EXCEPT ![m] = NoSettings]
    /\ ui' = [t \in Threads |->
                IF ui[t] # Idle /\ ui[t].manager = m THEN Idle ELSE ui[t]]
    /\ cut' = cut \cup Cuts(m)
    /\ UNCHANGED <<root, registry, file, created, answered, failures>>

-----------------------------------------------------------------------------
Process(m) ==
    \/ Begin(m) \/ MakeRoot(m) \/ OpenMarker(m) \/ WriteMarker(m) \/ ReadMarker(m)
    \/ Acquire(m) \/ Load(m) \/ SaveRegistry(m) \/ Close(m) \/ Release(m) \/ Exit(m)
    \/ \E p \in Profiles : Create(m, p)
    \/ \E ok \in BOOLEAN :
          SaveCreated(m, ok) \/ MarkInitialized(m, ok) \/ EnsurePresets(m, ok)

Thread(t) ==
    \/ \E m \in Managers, p \in Profiles \cup {Nothing}, v \in Values \cup {Nothing} :
          List(t, m, p, v)
    \/ Listed(t)
    \/ \E ok \in BOOLEAN : EnsureListed(t, ok) \/ Put(t, ok)

Next == (\E m \in Managers : Process(m)) \/ (\E t \in Threads : Thread(t))

Spec == Init /\ [][Next]_vars

-----------------------------------------------------------------------------
(* A data directory without a whole marker, which every start refuses, is     *)
(* being made by some process, unless one died (or could not write) just      *)
(* there (data_root.py 35-45, 57-71).                                         *)
RefusedRootIsBeingMade ==
    root \in {"unmarked", "torn"} =>
        ("marker" \in cut \/ \E m \in Managers : pc[m] \in {"open", "write"})

(* Two processes never write one registry: a profile whose creation was       *)
(* answered stays in it, whatever fails and whoever takes the directory next  *)
(* (instance_lock.py 38-61, profile_manager.py 289-294, 361-394).             *)
CreatedIsKept == created \subseteq registry

(* A service that serves knows all presets, unless an earlier bootstrap was   *)
(* cut after its first profile; the next start takes that for a registry of   *)
(* its user (server.py 104-108; local_management_ui.py 78-95).                *)
PresetsUnlessCut ==
    \A m \in Managers :
        pc[m] = "serving" /\ "presets" \notin cut => Presets \subseteq known[m]

(* What a PUT was told to be stored stays in the file until the next PUT for  *)
(* the profile: neither defaults, nor threads that store something else, nor  *)
(* a restart lose it, unless a thread wrote after its process had released    *)
(* the directory (local_management_ui.py 45-76, 127-150; server.py 170-181).  *)
SettingsKept ==
    "late" \in cut \/
    \A p \in Profiles : answered[p] \in {Nothing, file.entries[p]}

=============================================================================
