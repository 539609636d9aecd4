------------------------------ MODULE ProxyRoute ------------------------------
(*****************************************************************************)
(* The network route of a profile and its proxy credentials: PUT network      *)
(* (api.py), configure_network (profile_manager.py), the credential store     *)
(* (proxy_secret_store.py), and what a launch takes from them. The route is   *)
(* kept in the registry file and the credentials in a file of their own, each *)
(* written whole by a replace that may fail; the manager may die between the  *)
(* two.                                                                       *)
(*                                                                            *)
(* PUT network has no await: nothing comes between its steps but the death of *)
(* the manager. The lifecycle of ProfileLifecycle is reduced to stopped and   *)
(* up (any other status), with its one case where "stopped" is written over a *)
(* living browser (Mistake of ProfileSpec): a basic route is launched by      *)
(* Playwright (server.py 94-99), and the monitor of such a run may outlive it *)
(* (profile_manager.py 937-955).                                              *)
(*****************************************************************************)
EXTENDS Naturals

CONSTANTS
    Profiles,
    Basic,     \* the fixed routes with authentication "basic"
    Plain,     \* the other ones
    Direct,    \* {"mode": "direct"}, one of Plain
    NoRoute, NoProfile

ASSUME RouteAssumption == Direct \in Plain /\ Basic \cap Plain = {} /\ NoRoute \notin Basic \cup Plain
ASSUME NullAssumption == NoProfile \notin Profiles

Routes == Basic \cup Plain

(* A pair of user name and password is the route it was sent with.           *)
Credentials == Basic \cup {NoRoute}

NoChange == [profile |-> NoProfile, route |-> NoRoute, given |-> FALSE]

Change == [profile : Profiles, route : Routes, given : BOOLEAN] \cup {NoChange}

NoBrowser == [route |-> NoRoute, credentials |-> NoRoute]

VARIABLES
    status,     \* of each profile: "stopped", "up"
    network,    \* record["network"]
    registry,   \* the same in the registry file
    secrets,    \* _data["profiles"] of the store
    secretFile, \* the same in its file
    put,        \* the PUT whose credentials are dealt with; given: it has some
    browser,    \* the route and the credentials each browser was launched with
    driven,     \* the profiles that Playwright has run since the manager started
    stray,      \* those whose living browser was recorded as stopped
    torn        \* the profiles with a change that failed or was cut short, and
                \* none since that set the credentials or needs none

life == <<status, browser, driven, stray>>
vars == <<status, network, registry, secrets, secretFile, put, browser, driven, stray, torn>>

TypeOK ==
    /\ status \in [Profiles -> {"stopped", "up"}]
    /\ network \in [Profiles -> Routes]
    /\ registry \in [Profiles -> Routes]
    /\ secrets \in [Profiles -> Credentials]
    /\ secretFile \in [Profiles -> Credentials]
    /\ put \in Change
    /\ browser \in [Profiles -> [route : Routes \cup {NoRoute}, credentials : Credentials]]
    /\ driven \subseteq Profiles
    /\ stray \subseteq Profiles
    /\ torn \subseteq Profiles

(* Mutant of Loaded: a record without a network stays as it is.              *)
LoadedAsIs(file) == file

(* A record from before this module has no network; _load makes it direct.   *)
Loaded(file) == [p \in Profiles |-> IF file[p] = NoRoute THEN Direct ELSE file[p]]

(* The end of _load, over a registry of new and of old records.              *)
Init ==
    /\ status = [p \in Profiles |-> "stopped"]
    /\ \E file \in [Profiles -> {Direct, NoRoute}] : network = Loaded(file)
    /\ registry = network
    /\ secrets = [p \in Profiles |-> NoRoute]
    /\ secretFile = secrets
    /\ put = NoChange
    /\ browser = [p \in Profiles |-> NoBrowser]
    /\ driven = {} /\ stray = {} /\ torn = {}

-----------------------------------------------------------------------------
(* PUT network                                                               *)

(* Mutant of MayKeep: the route is not compared.                             *)
KeepsAny(p, route) == secrets[p] # NoRoute

(* A basic route without new credentials: only the one there is.             *)
MayKeep(p, route) == route = network[p] /\ secrets[p] # NoRoute

Begun(p, route, given) == [profile |-> p, route |-> route, given |-> given]

(* set and clear change the table and then write it, with the other profiles; *)
(* when the write raises, the request ends, and the table stays changed.      *)
StoreSecret(p, route, given, secret) ==
    /\ secrets' = [secrets EXCEPT ![p] = secret]
    /\ \/ secretFile' = secrets' /\ put' = Begun(p, route, given) /\ UNCHANGED torn
       \/ torn' = torn \cup {p} /\ UNCHANGED <<secretFile, put>>

KeepSecret(p, route) ==
    /\ put' = Begun(p, route, FALSE)
    /\ UNCHANGED <<secrets, secretFile, torn>>

PutNetwork(p, route, given) ==
    /\ put = NoChange
    /\ status[p] = "stopped"
    /\ \/ route \in Basic /\ given /\ StoreSecret(p, route, TRUE, route)
       \/ route \in Basic /\ ~given /\ MayKeep(p, route) /\ KeepSecret(p, route)
       \/ route \in Plain /\ ~given /\ secrets[p] # NoRoute /\ StoreSecret(p, route, FALSE, NoRoute)
       \/ route \in Plain /\ ~given /\ secrets[p] = NoRoute /\ KeepSecret(p, route)
    /\ UNCHANGED <<life, network, registry>>

Repaired == IF put.given \/ put.route \in Plain THEN torn \ {put.profile} ELSE torn

(* Mutant of ConfigureNetwork: the registry is left to the next save.        *)
ConfigureUnsaved ==
    /\ put # NoChange
    /\ network' = [network EXCEPT ![put.profile] = put.route]
    /\ torn' = Repaired
    /\ put' = NoChange
    /\ UNCHANGED <<life, registry, secrets, secretFile>>

(* configure_network and the answer; or its save raises.                     *)
ConfigureNetwork ==
    /\ put # NoChange
    /\ network' = [network EXCEPT ![put.profile] = put.route]
    /\ \/ registry' = network' /\ torn' = Repaired
       \/ UNCHANGED registry /\ torn' = torn \cup {put.profile}
    /\ put' = NoChange
    /\ UNCHANGED <<life, secrets, secretFile>>

-----------------------------------------------------------------------------
(* The life of the profile and of the manager                                *)

(* What an attempt takes; proxy_credentials_missing ends it.                 *)
Launched(p) ==
    IF network[p] \in Plain THEN [route |-> network[p], credentials |-> NoRoute]
    ELSE IF secrets[p] = NoRoute THEN NoBrowser
    ELSE [route |-> network[p], credentials |-> secrets[p]]

(* The preflight lets no attempt begin where a browser lives.                *)
Opened(p) == IF browser[p] = NoBrowser THEN Launched(p) ELSE browser[p]

IsDriven(p) == driven' = IF browser'[p].route \in Basic THEN driven \cup {p} ELSE driven

(* Mutant of Start: the browser is launched before the record is saved.      *)
StartUnsaved(p) ==
    /\ put = NoChange
    /\ status[p] = "stopped"
    /\ status' = [status EXCEPT ![p] = "up"]
    /\ browser' = [browser EXCEPT ![p] = Opened(p)] /\ IsDriven(p)
    /\ UNCHANGED <<registry, network, secrets, secretFile, put, stray, torn>>

(* The record is saved before the first attempt; when that raises, the start  *)
(* ends with the record no longer stopped.                                    *)
Start(p) ==
    /\ put = NoChange
    /\ status[p] = "stopped"
    /\ status' = [status EXCEPT ![p] = "up"]
    /\ \/ registry' = network /\ browser' = [browser EXCEPT ![p] = Opened(p)] /\ IsDriven(p)
       \/ UNCHANGED <<registry, browser, driven>>
    /\ UNCHANGED <<network, secrets, secretFile, put, stray, torn>>

BrowserExits(p) ==
    /\ browser[p] # NoBrowser
    /\ browser' = [browser EXCEPT ![p] = NoBrowser]
    /\ stray' = stray \ {p}
    /\ UNCHANGED <<status, network, registry, secrets, secretFile, put, driven, torn>>

(* A profile is recorded as stopped when its browser is gone; or by the        *)
(* monitor of an earlier run under Playwright, over the browser of a later one. *)
Stop(p) ==
    /\ put = NoChange
    /\ status[p] = "up"
    /\ status' = [status EXCEPT ![p] = "stopped"]
    /\ \/ browser[p] = NoBrowser /\ UNCHANGED stray
       \/ browser[p] # NoBrowser /\ p \in driven /\ stray' = stray \cup {p}
    /\ UNCHANGED <<network, registry, secrets, secretFile, put, browser, driven, torn>>

(* A save for any other reason: of a status, a name, a new profile.          *)
Save ==
    /\ put = NoChange
    /\ registry' = network
    /\ UNCHANGED <<life, network, secrets, secretFile, put, torn>>

(* The manager dies, maybe within a PUT, and is started again. A profile whose *)
(* browser lives is recovery_required.                                        *)
Restart ==
    /\ network' = Loaded(registry)
    /\ registry' = network'
    /\ secrets' = secretFile
    /\ put' = NoChange
    /\ torn' = torn \cup ({put.profile} \ {NoProfile})
    /\ status' \in [Profiles -> {"stopped", "up"}]
    /\ \A p \in Profiles : browser[p] # NoBrowser => status'[p] = "up"
    /\ driven' = {}
    /\ UNCHANGED <<secretFile, browser, stray>>

Next ==
    \/ \E p \in Profiles :
           \/ \E route \in Routes, given \in BOOLEAN : PutNetwork(p, route, given)
           \/ Start(p) \/ BrowserExits(p) \/ Stop(p)
    \/ ConfigureNetwork \/ Save \/ Restart

Spec == Init /\ [][Next]_vars

-----------------------------------------------------------------------------
(* Properties                                                                *)

(* No proxy is sent credentials that were entered for another one: the ones   *)
(* that a launch would take, and those that a browser has, belong to the      *)
(* route, and a basic route has some. The exception is a profile with a       *)
(* change that failed, or that the death of the manager cut short, and was    *)
(* not made good since: then the two files may be of two changes. (A browser  *)
(* launched with such a mixture, recorded as stopped and still alive, keeps it *)
(* when the change is made good.)                                             *)
CredentialsOfRoute ==
    \A p \in Profiles \ (torn \cup {put.profile}) :
        /\ network[p] \in Basic => secrets[p] = network[p]
        /\ browser[p].route \in Basic /\ p \notin stray =>
               browser[p].credentials = browser[p].route

(* The route that the API shows for a profile is the one its living browser    *)
(* uses, also after failed writes and when the manager died and was restarted  *)
(* ("applies_on": "next_start"). The exception is a browser that was recorded  *)
(* as stopped while it lived: then PUT network is accepted, and changes what   *)
(* is shown (profile_manager.py 395-407, 951).                                *)
LiveRouteIsShown ==
    \A p \in Profiles \ stray : browser[p] # NoBrowser => network[p] = browser[p].route

(* A route that was answered with success stays until the next change of the   *)
(* profile: neither the death of the manager nor what happens to other        *)
(* profiles changes it.                                                       *)
RouteIsKept ==
    [][\A p \in Profiles \ torn : network'[p] # network[p] => put.profile = p]_vars

=============================================================================
