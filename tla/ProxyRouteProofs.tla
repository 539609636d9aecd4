--------------------------- MODULE ProxyRouteProofs ---------------------------
(*****************************************************************************)
(* Proofs about ProxyRoute: credentials stay with their route, and the route  *)
(* shown is the one in use but for a browser recorded as stopped, for any      *)
(* number of profiles and routes.                                             *)
(*****************************************************************************)
EXTENDS ProxyRoute, TLAPS

(* A change is of a stopped profile.                                         *)
ChangeInv == put # NoChange => status[put.profile] = "stopped"

(* A browser runs with the route in memory and in the file, of a profile that *)
(* no change can touch; but for one that was recorded as stopped.             *)
BrowserInv ==
    \A p \in Profiles \ stray :
        browser[p] # NoBrowser =>
            /\ status[p] = "up"
            /\ network[p] = browser[p].route
            /\ registry[p] = browser[p].route

(* Credentials that came with the change are in the table and in its file.    *)
GivenInv ==
    (put # NoChange /\ put.given) =>
        /\ put.route \in Basic
        /\ secrets[put.profile] = put.route
        /\ secretFile[put.profile] = put.route

(* Without a failed change, the files agree with the memory, and credentials  *)
(* with their route: the one of the change while it goes on.                  *)
AgreeInv ==
    \A p \in Profiles \ torn :
        LET route == IF put.profile = p THEN put.route ELSE network[p]
        IN  /\ registry[p] = network[p]
            /\ route \in Basic => secrets[p] = route /\ secretFile[p] = route
            /\ browser[p].route \in Basic /\ p \notin stray =>
                   browser[p].credentials = browser[p].route

IInv == TypeOK /\ ChangeInv /\ BrowserInv /\ GivenInv /\ AgreeInv

-----------------------------------------------------------------------------
(* The null values are told from the others.                                 *)
LEMMA Nulls ==
    /\ \A c \in Change : c # NoChange => c.profile \in Profiles /\ c.route \in Routes
    /\ NoChange.profile \notin Profiles
    /\ NoBrowser.route = NoRoute /\ NoBrowser.credentials = NoRoute
    /\ NoRoute \notin Routes /\ NoRoute \notin Basic
    /\ Direct \in Routes
  BY RouteAssumption, NullAssumption DEF Change, NoChange, NoBrowser, Routes

LEMMA BegunFields ==
    ASSUME NEW p \in Profiles, NEW route \in Routes, NEW given \in BOOLEAN
    PROVE  /\ Begun(p, route, given) \in Change
           /\ Begun(p, route, given) # NoChange
           /\ Begun(p, route, given).profile = p
           /\ Begun(p, route, given).route = route
           /\ Begun(p, route, given).given = given
  BY NullAssumption DEF Begun, Change, NoChange

(* After _load the registry is what it was.                                  *)
LEMMA LoadedSame ==
    ASSUME TypeOK
    PROVE  Loaded(registry) = registry
  BY Nulls DEF TypeOK, Loaded

LEMMA InitInvariant == Init => IInv
  <1> SUFFICES ASSUME Init PROVE IInv
    OBVIOUS
  <1>1. PICK file \in [Profiles -> {Direct, NoRoute}] : network = Loaded(file)
    BY DEF Init
  <1>2. \A p \in Profiles : network[p] = Direct
    BY <1>1 DEF Loaded
  <1>3. TypeOK
    BY <1>1, Nulls DEF Init, TypeOK, Loaded, Credentials, NoBrowser, Change
  <1>4. ChangeInv /\ BrowserInv /\ GivenInv
    BY DEF Init, ChangeInv, BrowserInv, GivenInv
  <1>5. AgreeInv
    BY <1>2, Nulls, RouteAssumption DEF Init, AgreeInv
  <1> QED BY <1>3, <1>4, <1>5 DEF IInv

-----------------------------------------------------------------------------
(* The steps                                                                 *)

(* The store is written, or only changed in memory.                          *)
LEMMA StoreStep ==
    ASSUME IInv, NEW p \in Profiles, NEW route \in Routes, NEW given \in BOOLEAN,
           NEW secret \in Credentials,
           put = NoChange, status[p] = "stopped",
           route \in Basic => secret = route,
           given => route \in Basic,
           StoreSecret(p, route, given, secret),
           UNCHANGED <<life, network, registry>>
    PROVE  IInv'
  <1> USE DEF life
  <1>1. /\ secrets' \in [Profiles -> Credentials]
        /\ secrets'[p] = secret
        /\ \A q \in Profiles \ {p} : secrets'[q] = secrets[q]
    BY DEF IInv, TypeOK, StoreSecret
  <1>2. CASE secretFile' = secrets' /\ put' = Begun(p, route, given) /\ UNCHANGED torn
    <2>1. TypeOK'
      BY <1>1, <1>2, BegunFields DEF IInv, TypeOK
    <2>2. ChangeInv' /\ BrowserInv' /\ GivenInv'
      BY <1>1, <1>2, BegunFields DEF IInv, ChangeInv, BrowserInv, GivenInv
    <2>3. AgreeInv'
      BY <1>1, <1>2, BegunFields, Nulls DEF IInv, AgreeInv
    <2> QED BY <2>1, <2>2, <2>3 DEF IInv
  <1>3. CASE torn' = torn \cup {p} /\ UNCHANGED <<secretFile, put>>
    <2>1. TypeOK'
      BY <1>1, <1>3 DEF IInv, TypeOK
    <2>2. ChangeInv' /\ BrowserInv' /\ GivenInv'
      BY <1>3 DEF IInv, ChangeInv, BrowserInv, GivenInv
    <2>3. AgreeInv'
      BY <1>1, <1>3 DEF IInv, AgreeInv
    <2> QED BY <2>1, <2>2, <2>3 DEF IInv
  <1> QED BY <1>2, <1>3 DEF StoreSecret

LEMMA KeepStep ==
    ASSUME IInv, NEW p \in Profiles, NEW route \in Routes,
           put = NoChange, status[p] = "stopped",
           route \in Basic => route = network[p],
           KeepSecret(p, route),
           UNCHANGED <<life, network, registry>>
    PROVE  IInv'
  <1> USE DEF life
  <1>1. /\ put' = Begun(p, route, FALSE)
        /\ UNCHANGED <<secrets, secretFile, torn>>
    BY DEF KeepSecret
  <1>2. TypeOK'
    BY <1>1, BegunFields DEF IInv, TypeOK
  <1>3. ChangeInv' /\ BrowserInv' /\ GivenInv'
    BY <1>1, BegunFields DEF IInv, ChangeInv, BrowserInv, GivenInv
  <1>4. AgreeInv'
    <2> SUFFICES ASSUME NEW q \in Profiles, q \notin torn
                 PROVE  LET r == IF put'.profile = q THEN put'.route ELSE network[q]
                        IN  /\ registry[q] = network[q]
                            /\ r \in Basic => secrets[q] = r /\ secretFile[q] = r
                            /\ browser[q].route \in Basic /\ q \notin stray =>
                                   browser[q].credentials = browser[q].route
      BY <1>1 DEF AgreeInv
    <2>1. /\ registry[q] = network[q]
          /\ network[q] \in Basic => secrets[q] = network[q] /\ secretFile[q] = network[q]
          /\ browser[q].route \in Basic /\ q \notin stray =>
                 browser[q].credentials = browser[q].route
      BY Nulls DEF IInv, AgreeInv
    <2>2. put'.profile = p /\ put'.route = route
      BY <1>1, BegunFields
    <2> QED BY <2>1, <2>2
  <1> QED BY <1>2, <1>3, <1>4 DEF IInv

LEMMA PutStep ==
    ASSUME IInv, NEW p \in Profiles, NEW route \in Routes, NEW given \in BOOLEAN,
           PutNetwork(p, route, given)
    PROVE  IInv'
  <1>1. CASE route \in Basic /\ given /\ StoreSecret(p, route, TRUE, route)
    BY <1>1, StoreStep DEF PutNetwork, Credentials
  <1>2. CASE route \in Basic /\ ~given /\ MayKeep(p, route) /\ KeepSecret(p, route)
    BY <1>2, KeepStep DEF PutNetwork, MayKeep
  <1>3. CASE /\ route \in Plain /\ ~given /\ secrets[p] # NoRoute
             /\ StoreSecret(p, route, FALSE, NoRoute)
    BY <1>3, StoreStep, RouteAssumption DEF PutNetwork, Credentials
  <1>4. CASE route \in Plain /\ ~given /\ secrets[p] = NoRoute /\ KeepSecret(p, route)
    BY <1>4, KeepStep, RouteAssumption DEF PutNetwork
  <1> QED BY <1>1, <1>2, <1>3, <1>4 DEF PutNetwork

(* The second half of a change; its profile has no browser, or a stray one.   *)
LEMMA ConfigureStep ==
    ASSUME IInv, ConfigureNetwork
    PROVE  IInv'
  <1> DEFINE p == put.profile
  <1>1. /\ put # NoChange /\ p \in Profiles /\ put.route \in Routes
        /\ network' = [network EXCEPT ![p] = put.route]
        /\ put' = NoChange
        /\ UNCHANGED <<status, browser, driven, stray, secrets, secretFile>>
    BY Nulls DEF IInv, TypeOK, ConfigureNetwork, life
  <1>2. /\ network' \in [Profiles -> Routes]
        /\ network'[p] = put.route
        /\ \A q \in Profiles \ {p} : network'[q] = network[q]
    BY <1>1 DEF IInv, TypeOK
  <1>3. browser[p] = NoBrowser \/ p \in stray
    BY <1>1 DEF IInv, ChangeInv, BrowserInv
  <1>4. p \notin torn => (put.route \in Basic => secrets[p] = put.route /\ secretFile[p] = put.route)
    BY <1>1 DEF IInv, AgreeInv
  <1>5. put.given => secrets[p] = put.route /\ secretFile[p] = put.route
    BY <1>1 DEF IInv, GivenInv
  <1>6. put' # NoChange => FALSE
    BY <1>1
  <1> HIDE DEF p
  <1>7. CASE registry' = network' /\ torn' = Repaired
    <2>1. TypeOK'
      BY <1>1, <1>2, <1>7 DEF IInv, TypeOK, Change, Repaired
    <2>2. ChangeInv' /\ BrowserInv' /\ GivenInv'
      BY <1>1, <1>2, <1>3, <1>7 DEF IInv, ChangeInv, BrowserInv, GivenInv
    <2>3. p \notin torn' => (put.route \in Basic => secrets[p] = put.route /\ secretFile[p] = put.route)
      BY <1>4, <1>5, <1>7, RouteAssumption DEF Repaired, p
    <2>4. \A q \in Profiles \ {p} : q \notin torn' => q \notin torn
      BY <1>7 DEF Repaired, p
    <2>5. AgreeInv'
      <3> SUFFICES ASSUME NEW q \in Profiles, q \notin torn'
                   PROVE  /\ registry'[q] = network'[q]
                          /\ network'[q] \in Basic => secrets[q] = network'[q] /\ secretFile[q] = network'[q]
                          /\ browser[q].route \in Basic /\ q \notin stray =>
                                 browser[q].credentials = browser[q].route
        BY <1>1, Nulls DEF AgreeInv
      <3>1. CASE q = p
        BY <3>1, <1>2, <1>3, <1>7, <2>3, Nulls
      <3>2. CASE q # p
        BY <3>2, <1>2, <1>7, <2>4 DEF IInv, AgreeInv, p
      <3> QED BY <3>1, <3>2
    <2> QED BY <2>1, <2>2, <2>5 DEF IInv
  <1>8. CASE UNCHANGED registry /\ torn' = torn \cup {put.profile}
    <2>1. TypeOK'
      BY <1>1, <1>2, <1>8 DEF IInv, TypeOK, Change, p
    <2>2. ChangeInv' /\ BrowserInv' /\ GivenInv'
      BY <1>1, <1>2, <1>3, <1>8 DEF IInv, ChangeInv, BrowserInv, GivenInv
    <2>3. AgreeInv'
      BY <1>1, <1>2, <1>8, Nulls DEF IInv, AgreeInv, p
    <2> QED BY <2>1, <2>2, <2>3 DEF IInv
  <1> QED BY <1>7, <1>8 DEF ConfigureNetwork

(* What a browser is launched with agrees with memory and file.              *)
LEMMA StartStep ==
    ASSUME IInv, NEW p \in Profiles, Start(p)
    PROVE  IInv'
  <1>1. /\ put = NoChange /\ status[p] = "stopped"
        /\ status' = [status EXCEPT ![p] = "up"]
        /\ UNCHANGED <<network, secrets, secretFile, put, stray, torn>>
    BY DEF Start
  <1>2. /\ Launched(p) \in [route : Routes \cup {NoRoute}, credentials : Credentials]
        /\ Launched(p) # NoBrowser => Launched(p).route = network[p]
        /\ Launched(p).route \in Basic => Launched(p).credentials = secrets[p]
    BY Nulls, RouteAssumption DEF IInv, TypeOK, Launched, NoBrowser, Credentials, Routes
  <1>3. p \notin stray => Opened(p) = Launched(p)
    BY <1>1 DEF IInv, BrowserInv, Opened
  <1>4. Opened(p) \in [route : Routes \cup {NoRoute}, credentials : Credentials]
    BY <1>2 DEF IInv, TypeOK, Opened
  <1>5. \A q \in Profiles : registry'[q] = network[q] \/ registry'[q] = registry[q]
    BY DEF Start
  <1>6. GivenInv' /\ ChangeInv'
    BY <1>1 DEF GivenInv, ChangeInv
  <1>7. CASE /\ registry' = network /\ browser' = [browser EXCEPT ![p] = Opened(p)]
             /\ IsDriven(p)
    <2>1. TypeOK'
      BY <1>1, <1>4, <1>7 DEF IInv, TypeOK, IsDriven
    <2>2. BrowserInv'
      <3> SUFFICES ASSUME NEW q \in Profiles \ stray, browser'[q] # NoBrowser
                   PROVE  status'[q] = "up" /\ network[q] = browser'[q].route
        BY <1>1, <1>7 DEF BrowserInv
      <3>1. CASE q = p
        BY <3>1, <1>1, <1>2, <1>7, <1>3 DEF IInv, TypeOK
      <3>2. CASE q # p
        BY <3>2, <1>1, <1>7 DEF IInv, TypeOK, BrowserInv
      <3> QED BY <3>1, <3>2
    <2>3. AgreeInv'
      <3> SUFFICES ASSUME NEW q \in Profiles \ torn
                   PROVE  /\ network[q] \in Basic => secrets[q] = network[q] /\ secretFile[q] = network[q]
                          /\ browser'[q].route \in Basic /\ q \notin stray =>
                                 browser'[q].credentials = browser'[q].route
        BY <1>1, <1>7, Nulls DEF AgreeInv
      <3>1. network[q] \in Basic => secrets[q] = network[q] /\ secretFile[q] = network[q]
        BY <1>1, Nulls DEF IInv, AgreeInv
      <3>2. CASE q = p
        BY <3>1, <3>2, <1>2, <1>7, <1>3, Nulls DEF IInv, TypeOK
      <3>3. CASE q # p
        BY <3>1, <3>3, <1>7 DEF IInv, TypeOK, AgreeInv
      <3> QED BY <3>1, <3>2, <3>3
    <2> QED BY <1>6, <2>1, <2>2, <2>3 DEF IInv
  <1>8. CASE UNCHANGED <<registry, browser, driven>>
    <2>1. TypeOK' /\ AgreeInv'
      BY <1>1, <1>8 DEF IInv, TypeOK, AgreeInv
    <2>2. BrowserInv'
      BY <1>1, <1>8 DEF IInv, TypeOK, BrowserInv
    <2> QED BY <1>6, <2>1, <2>2 DEF IInv
  <1> QED BY <1>7, <1>8 DEF Start

LEMMA LifeStep ==
    ASSUME IInv, (\E p \in Profiles : BrowserExits(p) \/ Stop(p)) \/ Save
    PROVE  IInv'
  <1>1. ASSUME NEW p \in Profiles, BrowserExits(p)
        PROVE  IInv'
    <2>1. TypeOK' /\ ChangeInv' /\ GivenInv'
      BY <1>1, Nulls DEF IInv, BrowserExits, TypeOK, ChangeInv, GivenInv, NoBrowser, Credentials
    <2>2. \A q \in Profiles : \/ browser'[q] = NoBrowser
                              \/ browser'[q] = browser[q] /\ (q \notin stray' => q \notin stray)
      BY <1>1 DEF IInv, TypeOK, BrowserExits
    <2>3. BrowserInv'
      BY <1>1, <2>2 DEF IInv, BrowserExits, BrowserInv
    <2>4. AgreeInv'
      BY <1>1, <2>2, Nulls DEF IInv, BrowserExits, AgreeInv
    <2> QED BY <2>1, <2>3, <2>4 DEF IInv
  <1>2. ASSUME NEW p \in Profiles, Stop(p)
        PROVE  IInv'
    <2>1. /\ put = NoChange /\ status' = [status EXCEPT ![p] = "stopped"]
          /\ UNCHANGED <<network, registry, secrets, secretFile, put, browser, driven, torn>>
          /\ browser[p] # NoBrowser => p \in stray'
          /\ stray \subseteq stray' /\ stray' \subseteq Profiles
      BY <1>2 DEF IInv, TypeOK, Stop
    <2>2. TypeOK'
      BY <2>1 DEF IInv, TypeOK
    <2>3. ChangeInv' /\ GivenInv'
      BY <2>1 DEF IInv, ChangeInv, GivenInv
    <2>4. AgreeInv'
      BY <2>1 DEF IInv, AgreeInv
    <2>5. BrowserInv'
      BY <2>1 DEF IInv, TypeOK, BrowserInv
    <2> QED BY <2>2, <2>3, <2>4, <2>5 DEF IInv
  <1>3. CASE Save
    BY <1>3 DEF IInv, Save, life, TypeOK, ChangeInv, GivenInv, BrowserInv, AgreeInv
  <1> QED BY <1>1, <1>2, <1>3

(* The files say again what the memory said, but for the changes cut short.   *)
LEMMA RestartStep ==
    ASSUME IInv, Restart
    PROVE  IInv'
  <1>1. /\ network' = registry /\ registry' = registry
        /\ secrets' = secretFile /\ secretFile' = secretFile
        /\ put' = NoChange /\ browser' = browser /\ driven' = {} /\ stray' = stray
        /\ torn' = torn \cup ({put.profile} \ {NoProfile})
        /\ status' \in [Profiles -> {"stopped", "up"}]
        /\ \A p \in Profiles : browser[p] # NoBrowser => status'[p] = "up"
    BY LoadedSame DEF IInv, Restart
  <1>2. torn' \subseteq Profiles
    BY <1>1, Nulls DEF IInv, TypeOK, NoChange
  <1>3. TypeOK'
    BY <1>1, <1>2 DEF IInv, TypeOK, Change
  <1>4. ChangeInv' /\ BrowserInv' /\ GivenInv'
    BY <1>1 DEF IInv, ChangeInv, BrowserInv, GivenInv
  <1>5. AgreeInv'
    BY <1>1, Nulls, NullAssumption DEF IInv, AgreeInv
  <1> QED BY <1>3, <1>4, <1>5 DEF IInv

LEMMA NextInvariant == IInv /\ [Next]_vars => IInv'
  <1> SUFFICES ASSUME IInv, [Next]_vars PROVE IInv'
    OBVIOUS
  <1>1. CASE \E p \in Profiles, route \in Routes, given \in BOOLEAN : PutNetwork(p, route, given)
    BY <1>1, PutStep
  <1>2. CASE ConfigureNetwork
    BY <1>2, ConfigureStep
  <1>3. CASE \E p \in Profiles : Start(p)
    BY <1>3, StartStep
  <1>4. CASE (\E p \in Profiles : BrowserExits(p) \/ Stop(p)) \/ Save
    BY <1>4, LifeStep
  <1>5. CASE Restart
    BY <1>5, RestartStep
  <1>6. CASE UNCHANGED vars
    BY <1>6 DEF vars, life, IInv, TypeOK, ChangeInv, BrowserInv, GivenInv, AgreeInv
  <1> QED BY <1>1, <1>2, <1>3, <1>4, <1>5, <1>6 DEF Next

-----------------------------------------------------------------------------
(* The theorems                                                              *)

(* The inductive invariant holds.                                            *)
THEOREM Invariance == Spec => []IInv
  BY InitInvariant, NextInvariant, PTL DEF Spec

(* Type correctness, for any profiles and routes.                            *)
THEOREM TypeCorrect == Spec => []TypeOK
  <1>1. IInv => TypeOK
    BY DEF IInv
  <1> QED BY <1>1, Invariance, PTL

(* Unless a change failed or was cut short, credentials stay with the route    *)
(* they were sent with, in memory and in every browser that is not recorded as *)
(* stopped.                                                                   *)
THEOREM CredentialsStay == Spec => []CredentialsOfRoute
  <1>1. IInv => CredentialsOfRoute
    BY DEF IInv, AgreeInv, CredentialsOfRoute
  <1> QED BY <1>1, Invariance, PTL

(* The route shown is the one in use, whatever failed, unless the living       *)
(* browser was recorded as stopped.                                           *)
THEOREM ShownRouteIsUsed == Spec => []LiveRouteIsShown
  <1>1. IInv => LiveRouteIsShown
    BY DEF IInv, BrowserInv, LiveRouteIsShown
  <1> QED BY <1>1, Invariance, PTL

(* A successful route is kept by restarts and by what happens to others.      *)
THEOREM RouteStays == Spec => RouteIsKept
  <1> DEFINE Kept == \A p \in Profiles \ torn : network'[p] # network[p] => put.profile = p
  <1>1. ASSUME IInv, Next PROVE Kept
    <2>1. CASE Restart
      BY <1>1, <2>1, LoadedSame DEF IInv, AgreeInv, Restart
    <2>2. CASE ConfigureNetwork
      BY <1>1, <2>2 DEF IInv, TypeOK, ConfigureNetwork
    <2>3. CASE UNCHANGED network
      BY <2>3
    <2> QED BY <1>1, <2>1, <2>2, <2>3
         DEF Next, PutNetwork, Start, BrowserExits, Stop, Save, life
  <1>2. IInv /\ [Next]_vars => [Kept]_vars
    BY <1>1
  <1> HIDE DEF Kept
  <1>3. Spec => [][Kept]_vars
    BY <1>2, Invariance, PTL DEF Spec
  <1> QED BY <1>3 DEF RouteIsKept, Kept

=============================================================================
