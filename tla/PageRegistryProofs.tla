-------------------------- MODULE PageRegistryProofs --------------------------
(*****************************************************************************)
(* Proofs about PageRegistry: a handle means one page, for any number of      *)
(* pages, addresses and runs of the browser. Then about PageRequests: the     *)
(* requests leave the registry to its own steps, so that the same is true of  *)
(* it under them, and locks, dialogs and events rest on it.                   *)
(*****************************************************************************)
EXTENDS PageRequests, FiniteSetTheorems, TLAPS

(* The registry holds handles as they were given.                            *)
RegistryAsGiven == \A h \in Handles : registry[h] # NoPage => registry[h] = given[h]

(* The handles below the counter have been given, to different pages.        *)
GivenInOrder == \A h \in Handles : given[h] # NoPage <=> h < next

GivenOnce ==
    \A h, k \in Handles : (given[h] = given[k] /\ given[h] # NoPage) => h = k

(* Why no page is given a second handle: a page that was given one and is     *)
(* still open is in the registry, and a page that opens is a new object.      *)
OpenStaysRegistered ==
    \A h \in Handles :
        given[h] # NoPage =>
            /\ addr[given[h]] # NoAddress
            /\ given[h] \in live => registry[h] = given[h]

LiveHaveAddresses == \A p \in live : addr[p] # NoAddress

IInv ==
    /\ TypeOK
    /\ RegistryAsGiven
    /\ GivenInOrder
    /\ GivenOnce
    /\ OpenStaysRegistered
    /\ LiveHaveAddresses

LEMMA PagesFinite == IsFiniteSet(Pages) /\ Cardinality(Pages) \in Nat
  BY PagesAreFinite, FS_CardinalityType

LEMMA InvariantImplies == IInv => TypeOK /\ HandleMeansOnePage
  <1> SUFFICES ASSUME IInv PROVE HandleMeansOnePage
    BY DEF IInv
  <1> SUFFICES ASSUME NEW h \in Handles, registry[h] # NoPage
               PROVE  /\ registry[h] = given[h]
                      /\ \A k \in Handles : registry[k] = registry[h] => k = h
    BY DEF HandleMeansOnePage
  <1>1. registry[h] = given[h]
    BY DEF IInv, RegistryAsGiven
  <1>2. ASSUME NEW k \in Handles, registry[k] = registry[h] PROVE k = h
    BY <1>1, <1>2 DEF IInv, RegistryAsGiven, GivenOnce
  <1> QED BY <1>1, <1>2

LEMMA InitInvariant == Init => IInv
  <1> SUFFICES ASSUME Init PROVE IInv
    OBVIOUS
  <1>1. TypeOK
    <2>1. 1 \in 1 .. Cardinality(Pages) + 1
      BY PagesFinite
    <2> QED BY <2>1 DEF Init, TypeOK, NoHandle
  <1>2. \A h \in Handles : given[h] = NoPage /\ registry[h] = NoPage /\ ~(h < next)
    BY PagesFinite DEF Init, Handles
  <1>3. LiveHaveAddresses
    BY DEF Init, LiveHaveAddresses
  <1> QED BY <1>1, <1>2, <1>3 DEF IInv, RegistryAsGiven, GivenInOrder, GivenOnce,
                                 OpenStaysRegistered

-----------------------------------------------------------------------------
(* What _sync_pages does                                                     *)

(* It keeps the handle of every live page, and what it numbers has no handle. *)
LEMMA KeptFacts ==
    ASSUME IInv
    PROVE  /\ \A h \in Handles : Kept[h] \in {registry[h], NoPage}
           /\ \A h \in Handles : registry[h] \in live => Kept[h] = registry[h]
           /\ Unregistered \subseteq Pages
           /\ \A p \in Unregistered : p \in live /\ \A h \in Handles : given[h] # p
  <1>1. \A h \in Handles : Kept[h] \in {registry[h], NoPage}
    BY DEF Kept
  <1>2. \A h \in Handles : registry[h] \in live => Kept[h] = registry[h]
    BY DEF Kept
  <1>3. Unregistered \subseteq Pages /\ Unregistered \subseteq live
    BY DEF Unregistered, IInv, TypeOK
  <1>4. ASSUME NEW p \in Unregistered, NEW h \in Handles, given[h] = p
        PROVE  FALSE
    <2>1. p \in live /\ p # NoPage
      BY <1>3, NullAssumption
    <2>2. registry[h] = p
      BY <2>1, <1>4 DEF IInv, OpenStaysRegistered
    <2>3. Kept[h] = p
      BY <2>1, <2>2, <1>2
    <2> QED BY <2>3 DEF Unregistered
  <1> QED BY <1>1, <1>2, <1>3, <1>4

(* There are enough handles: the pages given one and the new ones are         *)
(* different pages.                                                           *)
LEMMA EnoughHandles ==
    ASSUME IInv
    PROVE  /\ IsFiniteSet(Unregistered) /\ Cardinality(Unregistered) \in Nat
           /\ next + Cardinality(Unregistered) \in 1 .. Cardinality(Pages) + 1
  <1> DEFINE U == Unregistered
             G == {given[h] : h \in 1 .. next - 1}
             f == [h \in 1 .. next - 1 |-> given[h]]
  <1>1. IsFiniteSet(U) /\ Cardinality(U) \in Nat
    BY KeptFacts, PagesFinite, FS_Subset, FS_CardinalityType
  <1>2. next \in Nat /\ next >= 1 /\ 1 .. next - 1 \subseteq Handles
    BY PagesFinite DEF IInv, TypeOK, Handles
  <1>3. f \in Bijection(1 .. next - 1, G)
    <2>1. f \in [1 .. next - 1 -> G]
      OBVIOUS
    <2>2. ASSUME NEW h \in 1 .. next - 1, NEW k \in 1 .. next - 1, f[h] = f[k]
          PROVE  h = k
      BY <1>2, <2>2 DEF IInv, GivenInOrder, GivenOnce
    <2>3. \A p \in G : \E h \in 1 .. next - 1 : f[h] = p
      OBVIOUS
    <2> QED BY <2>1, <2>2, <2>3 DEF Bijection, Injection, Surjection, IsInjective
  <1>4. IsFiniteSet(G) /\ Cardinality(G) = next - 1
    <2> HIDE DEF f, G
    <2>1. next - 1 \in Nat /\ ExistsBijection(1 .. next - 1, G)
      BY <1>2, <1>3 DEF ExistsBijection
    <2> QED BY <2>1, FS_CountingElements, FS_NatBijection
  <1>5. G \subseteq Pages /\ G \cap U = {}
    BY <1>2, KeptFacts DEF IInv, TypeOK, GivenInOrder
  <1>6. Cardinality(G \cup U) = Cardinality(G) + Cardinality(U)
    <2>1. Cardinality(G \cup U) = Cardinality(G) + Cardinality(U) - Cardinality(G \cap U)
      BY <1>1, <1>4, FS_Union
    <2>2. Cardinality(G \cap U) = 0
      BY <1>5, FS_EmptySet
    <2> QED BY <1>1, <1>2, <1>4, <2>1, <2>2
  <1>7. Cardinality(G \cup U) <= Cardinality(Pages)
    BY <1>5, KeptFacts, PagesFinite, FS_Subset
  <1> QED BY <1>1, <1>2, <1>4, <1>6, <1>7, PagesFinite

(* The registry and the given handles after it, for one order of new pages.  *)
LEMMA ExtendedFacts ==
    ASSUME IInv,
           NEW order \in Bijection(1 .. Cardinality(Unregistered), Unregistered),
           NEW h \in Handles
    PROVE  /\ h < next => Extended(order)[h] = Kept[h]
           /\ h >= next =>
                  \/ /\ h < next + Cardinality(Unregistered)
                     /\ h - next + 1 \in 1 .. Cardinality(Unregistered)
                     /\ Extended(order)[h] = order[h - next + 1]
                     /\ Extended(order)[h] \in Unregistered
                  \/ /\ h >= next + Cardinality(Unregistered)
                     /\ Extended(order)[h] = NoPage
           /\ Extended(order)[h] \in Pages \cup {NoPage}
  <1> DEFINE n == Cardinality(Unregistered)
  <1>1. n \in Nat /\ next \in Nat /\ h \in Nat
    BY EnoughHandles DEF IInv, TypeOK, Handles
  <1>2. order \in [1 .. n -> Unregistered]
    BY DEF Bijection, Injection
  <1>3. Extended(order)[h] = IF h >= next /\ h < next + n THEN order[h - next + 1] ELSE Kept[h]
    BY DEF Extended
  <1>4. registry[h] \in Pages \cup {NoPage} /\ Kept[h] \in {registry[h], NoPage}
    BY KeptFacts DEF IInv, TypeOK
  <1> HIDE DEF n
  <1>5. CASE h < next
    BY <1>1, <1>3, <1>4, <1>5 DEF n
  <1>6. CASE h >= next /\ h < next + n
    <2>1. h - next + 1 \in 1 .. n
      BY <1>1, <1>6
    <2> QED BY <1>1, <1>2, <1>3, <1>6, <2>1, KeptFacts DEF n
  <1>7. CASE h >= next + n
    <2>1. registry[h] = NoPage
      BY <1>1, <1>7 DEF IInv, GivenInOrder, RegistryAsGiven
    <2> QED BY <1>1, <1>3, <1>4, <1>7, <2>1 DEF n
  <1> QED BY <1>1, <1>5, <1>6, <1>7

LEMMA SyncInvariant ==
    ASSUME IInv, SyncPages
    PROVE  IInv'
  <1> DEFINE n == Cardinality(Unregistered)
  <1> PICK order \in Bijection(1 .. n, Unregistered) :
             /\ registry' = Extended(order)
             /\ KeepOrMoveDefault(Extended(order))
             /\ given' = [h \in Handles |->
                             IF given[h] = NoPage THEN Extended(order)[h] ELSE given[h]]
    BY DEF SyncPages
  <1>1. n \in Nat /\ next \in Nat /\ next' = next + n /\ next' \in 1 .. Cardinality(Pages) + 1
    BY EnoughHandles DEF SyncPages, IInv, TypeOK
  <1>2. UNCHANGED <<running, live, addr, past>>
    BY DEF SyncPages
  <1>3. \A h \in Handles : h \in Nat
    BY DEF Handles
  <1>4. ASSUME NEW h \in Handles, h < next
        PROVE  /\ registry'[h] \in {registry[h], NoPage}
               /\ registry[h] \in live => registry'[h] = registry[h]
               /\ given'[h] = given[h] /\ given[h] # NoPage
    BY <1>4, ExtendedFacts, KeptFacts DEF IInv, GivenInOrder
  <1>5. ASSUME NEW h \in Handles, h >= next, h < next'
        PROVE  /\ h - next + 1 \in 1 .. n
               /\ given'[h] = order[h - next + 1]
               /\ registry'[h] = given'[h]
               /\ given'[h] \in Unregistered
    <2>1. given[h] = NoPage
      BY <1>1, <1>3, <1>5 DEF IInv, GivenInOrder
    <2> QED BY <1>1, <1>3, <1>5, <2>1, ExtendedFacts
  <1>6. ASSUME NEW h \in Handles, h >= next'
        PROVE  registry'[h] = NoPage /\ given'[h] = NoPage
    <2>1. given[h] = NoPage
      BY <1>1, <1>3, <1>6 DEF IInv, GivenInOrder
    <2> QED BY <1>1, <1>3, <1>6, <2>1, ExtendedFacts
  <1>7. Unregistered \subseteq Pages /\ Unregistered \subseteq live
    BY KeptFacts
  <1>8. \A i, j \in 1 .. n : order[i] = order[j] => i = j
    BY DEF Bijection, Injection, IsInjective
  <1>0. \A h \in Handles : Extended(order)[h] \in Pages \cup {NoPage}
    BY ExtendedFacts
  <1> HIDE DEF n
  <1>9. TypeOK'
    <2>1. registry' \in [Handles -> Pages \cup {NoPage}]
      <3>1. DOMAIN registry' = Handles /\ registry' = [h \in Handles |-> registry'[h]]
        BY DEF Extended
      <3>2. \A h \in Handles : registry'[h] \in Pages \cup {NoPage}
        BY <1>0
      <3> QED BY <3>1, <3>2
    <2>2. given' \in [Handles -> Pages \cup {NoPage}]
      BY <1>0 DEF IInv, TypeOK
    <2>3. default' \in Handles \cup {NoHandle}
      BY DEF KeepOrMoveDefault
    <2>4. closedIds' \subseteq Handles
      BY DEF SyncPages, IInv, TypeOK
    <2>5. attached' \subseteq Addresses
      BY DEF SyncPages, AttachPageEvents, IInv, TypeOK, LiveHaveAddresses
    <2>6. listeners' \in [Pages -> Nat]
      BY DEF SyncPages, AttachPageEvents, IInv, TypeOK
    <2> QED BY <1>1, <1>2, <2>1, <2>2, <2>3, <2>4, <2>5, <2>6 DEF IInv, TypeOK
  <1>10. RegistryAsGiven'
    BY <1>1, <1>3, <1>4, <1>5, <1>6 DEF IInv, RegistryAsGiven
  <1>11. GivenInOrder'
    BY <1>1, <1>3, <1>4, <1>5, <1>6, <1>7, NullAssumption DEF GivenInOrder
  <1>12. GivenOnce'
    <2> SUFFICES ASSUME NEW h \in Handles, NEW k \in Handles,
                        given'[h] = given'[k], given'[h] # NoPage
                 PROVE  h = k
      BY DEF GivenOnce
    <2>1. CASE h < next /\ k < next
      BY <1>4, <2>1 DEF IInv, GivenOnce
    <2>2. CASE h >= next /\ k >= next
      <3>1. h < next' /\ k < next'
        BY <1>1, <1>3, <1>6
      <3>2. h - next + 1 = k - next + 1
        BY <1>5, <1>8, <2>2, <3>1
      <3> QED BY <1>1, <1>3, <3>2
    <2>3. CASE h < next /\ k >= next
      BY <1>1, <1>3, <1>4, <1>5, <1>6, <2>3, KeptFacts
    <2>4. CASE h >= next /\ k < next
      BY <1>1, <1>3, <1>4, <1>5, <1>6, <2>4, KeptFacts
    <2> QED BY <1>1, <1>3, <2>1, <2>2, <2>3, <2>4
  <1>13. OpenStaysRegistered'
    <2> SUFFICES ASSUME NEW h \in Handles, given'[h] # NoPage
                 PROVE  /\ addr[given'[h]] # NoAddress
                        /\ given'[h] \in live => registry'[h] = given'[h]
      BY <1>2 DEF OpenStaysRegistered
    <2>1. CASE h < next
      BY <1>4, <2>1 DEF IInv, OpenStaysRegistered
    <2>2. CASE h >= next
      BY <1>1, <1>3, <1>5, <1>6, <1>7, <2>2 DEF IInv, LiveHaveAddresses
    <2> QED BY <1>1, <1>3, <2>1, <2>2
  <1>14. LiveHaveAddresses'
    BY <1>2 DEF IInv, LiveHaveAddresses
  <1> QED BY <1>9, <1>10, <1>11, <1>12, <1>13, <1>14 DEF IInv

-----------------------------------------------------------------------------
(* The other steps                                                           *)

LEMMA PageOpensInvariant ==
    ASSUME IInv, NEW p \in Pages, NEW a \in Addresses, PageOpens(p, a)
    PROVE  IInv'
  <1>1. /\ addr[p] = NoAddress /\ a # NoAddress
        /\ \A q \in Pages : q # p => addr'[q] = addr[q]
        /\ addr'[p] = a
        /\ live' = live \cup {p}
        /\ UNCHANGED <<registry, next, given>>
    BY NullAssumption DEF PageOpens, IInv, TypeOK
  <1>2. TypeOK'
    BY DEF PageOpens, IInv, TypeOK
  <1>3. \A h \in Handles : given[h] \in Pages \cup {NoPage}
    BY DEF IInv, TypeOK
  <1>4. OpenStaysRegistered'
    BY <1>1, <1>3 DEF IInv, OpenStaysRegistered
  <1>5. LiveHaveAddresses'
    BY <1>1 DEF IInv, TypeOK, LiveHaveAddresses
  <1> QED BY <1>1, <1>2, <1>4, <1>5 DEF IInv, RegistryAsGiven, GivenInOrder, GivenOnce

LEMMA PageClosesInvariant ==
    ASSUME IInv, NEW p \in Pages, PageCloses(p)
    PROVE  IInv'
  BY DEF PageCloses, IInv, TypeOK, RegistryAsGiven, GivenInOrder, GivenOnce,
     OpenStaysRegistered, LiveHaveAddresses

(* The steps that begin or end a run leave no page open.                     *)
LEMMA RunInvariant ==
    ASSUME IInv, live' = {}, UNCHANGED <<addr, next, given>>,
           \A h \in Handles : registry'[h] \in {registry[h], NoPage}, TypeOK'
    PROVE  IInv'
  BY DEF IInv, RegistryAsGiven, GivenInOrder, GivenOnce, OpenStaysRegistered, LiveHaveAddresses

LEMMA LifecycleInvariant ==
    ASSUME IInv, Start \/ Stop \/ Restart \/ RunLost
    PROVE  IInv'
  <1> USE DEF IInv
  <1>1. CASE running /\ Start
    BY <1>1 DEF Start, KeepProfilePages, TypeOK, RegistryAsGiven, GivenInOrder, GivenOnce,
                OpenStaysRegistered, LiveHaveAddresses
  <1>2. ASSUME ~running, Start PROVE IInv'
    <2>1. KeepProfilePages /\ NewRun
      BY <1>2 DEF Start
    <2>2. TypeOK'
      BY <2>1 DEF KeepProfilePages, NewRun, TypeOK
    <2> QED BY <2>1, <2>2, RunInvariant DEF KeepProfilePages, NewRun
  <1>3. CASE Stop \/ Restart
    <2>1. /\ live' = {} /\ UNCHANGED addr /\ running' \in BOOLEAN /\ past' \subseteq Handles
      BY <1>3 DEF Stop, Restart, NewRun, EndOfRun, TypeOK
    <2>2. ClearProfilePages
      BY <1>3 DEF Stop, Restart
    <2>3. TypeOK'
      BY <2>1, <2>2 DEF ClearProfilePages, TypeOK
    <2> QED BY <2>1, <2>2, <2>3, RunInvariant DEF ClearProfilePages
  <1>4. CASE RunLost
    <2>1. TypeOK'
      BY <1>4 DEF RunLost, KeepProfilePages, EndOfRun, TypeOK
    <2> QED BY <1>4, <2>1, RunInvariant DEF RunLost, KeepProfilePages, EndOfRun
  <1> QED BY <1>1, <1>2, <1>3, <1>4

-----------------------------------------------------------------------------
(* Theorems                                                                  *)

LEMMA NextInvariant == IInv /\ [Next]_vars => IInv'
  <1> SUFFICES ASSUME IInv, [Next]_vars PROVE IInv'
    OBVIOUS
  <1>1. CASE UNCHANGED vars
    BY <1>1 DEF vars, IInv, TypeOK, RegistryAsGiven, GivenInOrder, GivenOnce,
                OpenStaysRegistered, LiveHaveAddresses
  <1> QED BY <1>1, PageOpensInvariant, PageClosesInvariant, SyncInvariant, LifecycleInvariant
          DEF Next

THEOREM Invariance == Spec => []IInv
  BY InitInvariant, NextInvariant, PTL DEF Spec

(* The types of the registry's variables; the numbers of the pages never run  *)
(* past the number of page objects.                                           *)
THEOREM TypeCorrect == Spec => []TypeOK
  <1>1. IInv => TypeOK
    BY DEF IInv
  <1> QED BY <1>1, Invariance, PTL

(* A handle means one page and a page has one handle, over all runs.         *)
THEOREM HandlesAreUnambiguous == Spec => []HandleMeansOnePage
  BY InvariantImplies, Invariance, PTL

(* No request and no restart moves an open page to another handle.           *)
LEMMA StepKeepsHandle ==
    ASSUME IInv, Next, NEW h \in Handles,
           registry[h] # NoPage, registry[h] \in live, registry[h] \in live'
    PROVE  registry'[h] = registry[h] /\ ((default = h) => (default' = h))
  <1>1. CASE \E p \in Pages : PageCloses(p) \/ \E a \in Addresses : PageOpens(p, a)
    BY <1>1 DEF PageCloses, PageOpens
  <1>2. CASE SyncPages
    <2> PICK order \in Bijection(1 .. Cardinality(Unregistered), Unregistered) :
               registry' = Extended(order) /\ KeepOrMoveDefault(Extended(order))
      BY <1>2 DEF SyncPages
    <2>1. h < next
      BY DEF IInv, RegistryAsGiven, GivenInOrder
    <2>2. Extended(order)[h] = registry[h]
      BY <2>1, ExtendedFacts, KeptFacts
    <2> QED BY <2>2 DEF KeepOrMoveDefault
  <1>3. CASE Start \/ Stop \/ Restart \/ RunLost
    BY <1>3 DEF Start, Stop, Restart, RunLost, NewRun, EndOfRun, KeepProfilePages
  <1> QED BY <1>1, <1>2, <1>3 DEF Next

(* A page that stays open keeps its handle, and the default stays.           *)
THEOREM HandlesAreStable == Spec => OpenPageKeepsHandle
  <1> DEFINE Keeps == \A h \in Handles :
                 (registry[h] # NoPage /\ registry[h] \in live /\ registry[h] \in live') =>
                     /\ registry'[h] = registry[h]
                     /\ (default = h) => (default' = h)
  <1>1. IInv /\ [Next]_vars => [Keeps]_vars
    BY StepKeepsHandle
  <1> HIDE DEF Keeps
  <1>2. Spec => [][Keeps]_vars
    BY <1>1, Invariance, PTL DEF Spec
  <1> QED BY <1>2 DEF OpenPageKeepsHandle, Keeps

-----------------------------------------------------------------------------
(* Listeners                                                                 *)

(* An address known as attached is that of a page that is listened to, and    *)
(* an open page that is listened to is known by its address.                  *)
HeardInv ==
    /\ HeardOnceUnlessReused
    /\ \A p \in Pages : listeners[p] \in {0, 1} /\ (listeners[p] = 1 => addr[p] # NoAddress)
    /\ \A p \in live : listeners[p] = 1 => addr[p] \in attached
    /\ \A a \in attached : \E q \in Pages : addr[q] = a /\ listeners[q] = 1

LEMMA HeardInit == Init => HeardInv
  BY DEF Init, HeardInv, HeardOnceUnlessReused

(* A step that attaches nothing, and forgets addresses only with all pages.  *)
LEMMA HeardSame ==
    ASSUME HeardInv, UNCHANGED <<addr, listeners>>, attached' \subseteq attached, live' \subseteq live,
           attached' = attached \/ live' = {},
           \A h \in Handles : registry'[h] \in {registry[h], NoPage}
    PROVE  HeardInv'
  BY DEF HeardInv, HeardOnceUnlessReused

LEMMA HeardSync ==
    ASSUME IInv, HeardInv, SyncPages
    PROVE  HeardInv'
  <1> USE DEF HeardInv
  <1>1. /\ UNCHANGED <<live, addr>> /\ attached' = attached \cup {addr[p] : p \in live}
        /\ \A p \in Pages : listeners'[p] = IF p \in live /\ addr[p] \notin attached
                                            THEN listeners[p] + 1 ELSE listeners[p]
        /\ live \subseteq Pages
    BY DEF SyncPages, AttachPageEvents, IInv, TypeOK
  <1>2. ASSUME NEW p \in Pages
        PROVE  /\ listeners[p] = 1 => listeners'[p] = 1
               /\ listeners'[p] \in {0, 1}
               /\ p \in live => addr[p] \in attached' /\ (addr[p] \notin attached => listeners'[p] = 1)
    BY <1>1, <1>2
  <1>3. \A p \in Pages : listeners'[p] = 1 => addr[p] # NoAddress
    BY <1>1 DEF IInv, LiveHaveAddresses
  <1>4. \A a \in attached' : \E q \in Pages : addr[q] = a /\ listeners'[q] = 1
    BY <1>1, <1>2
  <1>5. ASSUME NEW h \in Handles, registry'[h] # NoPage
        PROVE  \/ listeners'[registry'[h]] = 1
               \/ /\ listeners'[registry'[h]] = 0
                  /\ \E q \in Pages \ {registry'[h]} :
                         addr[q] = addr[registry'[h]] /\ listeners'[q] = 1
    <2> DEFINE p == registry'[h]
    <2>1. p \in Pages
      BY <1>5, SyncInvariant DEF IInv, TypeOK
    <2>2. CASE p \in live
      BY <1>2, <1>4, <2>1, <2>2
    <2>3. CASE p \notin live
      <3>1. p = registry[h]
        <4> PICK order \in Bijection(1 .. Cardinality(Unregistered), Unregistered) :
                   registry' = Extended(order)
          BY DEF SyncPages
        <4>1. h \in Nat /\ next \in Nat
          BY DEF IInv, TypeOK, Handles
        <4>2. \A q \in Unregistered : q \in live
          BY KeptFacts
        <4>3. h < next /\ p = Kept[h]
          <5> HIDE DEF p
          <5> QED BY <1>5, <2>3, <4>1, <4>2, ExtendedFacts DEF p
        <4> QED BY <1>5, <4>3, KeptFacts
      <3>2. listeners'[p] = listeners[p]
        BY <1>1, <2>1, <2>3
      <3> QED BY <1>2, <1>5, <3>1, <3>2 DEF HeardOnceUnlessReused
    <2> QED BY <2>2, <2>3
  <1>6. HeardOnceUnlessReused'
    BY <1>1, <1>5 DEF HeardOnceUnlessReused
  <1> QED BY <1>1, <1>2, <1>3, <1>4, <1>6

LEMMA HeardNext ==
    ASSUME IInv, HeardInv, [Next]_vars
    PROVE  HeardInv'
  <1>1. CASE UNCHANGED vars
    BY <1>1, HeardSame DEF vars
  <1>2. CASE SyncPages
    BY <1>2, HeardSync
  <1>3. CASE \E p \in Pages : PageCloses(p)
    BY <1>3, HeardSame DEF PageCloses
  <1>4. CASE \E p \in Pages, a \in Addresses : PageOpens(p, a)
    <2> PICK p \in Pages, a \in Addresses : PageOpens(p, a)
      BY <1>4
    <2>1. /\ addr[p] = NoAddress /\ live' = live \cup {p}
          /\ \A q \in Pages : q # p => addr'[q] = addr[q]
          /\ addr'[p] # NoAddress
          /\ UNCHANGED <<registry, attached, listeners>>
      BY NullAssumption DEF PageOpens, IInv, TypeOK
    <2>2. live \subseteq Pages /\ attached \subseteq Addresses
      BY DEF IInv, TypeOK
    <2>3. listeners[p] = 0
      BY <2>1 DEF HeardInv
    <2>4. \A q \in Pages : listeners[q] = 1 => q # p
      BY <2>3
    <2>5. \A h \in Handles : registry[h] # NoPage => registry[h] \in Pages \ {p}
      BY <2>1 DEF IInv, TypeOK, RegistryAsGiven, OpenStaysRegistered
    <2>6. HeardOnceUnlessReused'
      BY <2>1, <2>4, <2>5 DEF HeardInv, HeardOnceUnlessReused
    <2>7. \A b \in attached' : \E q \in Pages : addr'[q] = b /\ listeners'[q] = 1
      BY <2>1, <2>4 DEF HeardInv
    <2> QED BY <2>1, <2>2, <2>3, <2>4, <2>6, <2>7 DEF HeardInv
  <1>5. CASE Start \/ RunLost
    BY <1>5, HeardSame DEF Start, RunLost, KeepProfilePages, NewRun, EndOfRun
  <1>6. CASE Stop \/ Restart
    <2>1. /\ live' = {} /\ UNCHANGED <<addr, listeners>> /\ attached' \subseteq attached
          /\ registry' = [h \in Handles |-> NoPage]
      BY <1>6 DEF Stop, Restart, ClearProfilePages, NewRun, EndOfRun
    <2> QED BY <2>1, HeardSame
  <1> QED BY <1>1, <1>2, <1>3, <1>4, <1>5, <1>6 DEF Next

(* A page is listened to once, or its address was taken over.                *)
THEOREM PagesAreHeardOnce == Spec => []HeardOnceUnlessReused
  <1>1. HeardInv => HeardOnceUnlessReused
    BY DEF HeardInv
  <1> QED BY <1>1, HeardInit, HeardNext, Invariance, PTL DEF Spec

-----------------------------------------------------------------------------
(* Under requests                                                            *)

(* Whoever acts holds the lock of its key, and an id is still the page's.    *)
LocksHeld ==
    \A r \in Requests :
        req[r].pc = "acting" =>
            /\ locks[req[r].key] = r
            /\ req[r].key \in Handles => given[req[r].key] = req[r].page

(* Each POST pages has a page of its own.                                    *)
Posts(r) == req[r].pc \in {"opening", "navigating"}
NewPagesApart ==
    \A r \in Requests : Posts(r) =>
        /\ addr[req[r].page] # NoAddress
        /\ \A s \in Requests : s # r /\ Posts(s) => req[s].page # req[r].page

(* Each dialog takes one number.                                             *)
Numbered == {d \in Dialogs : dialogPage[d] # NoPage} \ announced
DialogsCounted == Cardinality(Numbered) = nextDialog - 1

(* What is listed or open has been shown, and what is open is on a live page. *)
DialogsKnown ==
    /\ \A n \in DialogIds :
           dialogs[n].dialog # NoDialog => n < nextDialog /\ dialogPage[dialogs[n].dialog] # NoPage
    /\ \A d \in announced : dialogPage[d] # NoPage
    /\ \A d \in open : dialogPage[d] \in live

(* The entry of a dialog under answer is of that dialog, or has been cleared. *)
AnswersKnown ==
    \A r \in Requests :
        req[r].pc \in {"answering", "answered"} =>
            /\ req[r].number \in DialogIds /\ req[r].number < nextDialog
            /\ req[r].dialog \in Dialogs /\ dialogPage[req[r].dialog] # NoPage
            /\ dialogs[req[r].number].dialog \in {NoDialog, req[r].dialog}
            /\ req[r].pc = "answered" => req[r].dialog \notin open

(* Who has been listened to was given a handle, and who showed a dialog.     *)
HeardHaveHandles ==
    /\ \A p \in Pages : listeners[p] > 0 => \E h \in Handles : given[h] = p
    /\ \A d \in Dialogs : dialogPage[d] # NoPage => \E h \in Handles : given[h] = dialogPage[d]

EventsGiven ==
    \A e \in events :
        /\ e.source \in Handles => given[e.source] # NoPage
        /\ e.new \in Handles => given[e.new] # NoPage

PopupsHaveOpeners == \A p \in popups : opener[p] # NoPage

-----------------------------------------------------------------------------
(* The registry under requests                                               *)

LEMMA RequestStep == [NextRequests]_allVars => [Next]_vars
  <1> SUFFICES ASSUME NextRequests PROVE Next \/ UNCHANGED vars
    BY DEF allVars
  <1>1. CASE \E p \in Pages :
                \/ Closes(p)
                \/ \E a \in Addresses : \/ Opens(p, a) \/ \E q \in Pages : PopupOpens(q, p, a)
                                        \/ \E r \in Requests : NewPageOpens(r, p, a)
    BY <1>1 DEF Next, Closes, Opens, PopupOpens, NewPageOpens
  <1>2. CASE Sync \/ (\E p \in Pages : RegisterPopup(p))
                  \/ (\E r \in Requests : \/ EndAction(r) \/ NavigateNewPage(r) \/ EndPost(r)
                                          \/ \E k \in Keys : BeginAction(r, k))
    BY <1>2 DEF Next, Sync, RegisterPopup, BeginAction, EndAction, NavigateNewPage, EndPost
  <1>3. CASE Lifecycle
    BY <1>3 DEF Next, Lifecycle
  <1>4. CASE \/ \E p \in Pages : \E d \in Dialogs : DialogOpens(d, p)
             \/ \E d \in Dialogs : RegisterDialog(d)
             \/ \E r \in Requests : \/ BrowserAnswers(r) \/ EndAnswer(r)
                                    \/ \E n \in DialogIds : BeginAnswer(r, n)
    BY <1>4 DEF DialogOpens, RegisterDialog, BrowserAnswers, EndAnswer, BeginAnswer
  <1> QED BY <1>1, <1>2, <1>3, <1>4 DEF NextRequests

(* The requests use the registry by its own steps only: what is proved of it  *)
(* alone holds of it under them.                                              *)
THEOREM RequestsUseRegistry == SpecRequests => Spec
  <1>1. InitRequests => Init
    BY DEF InitRequests
  <1> QED BY <1>1, RequestStep, PTL DEF SpecRequests, Spec

(* What _sync_pages promises to the requests.                                *)
LEMMA SyncFacts ==
    ASSUME IInv, SyncPages
    PROVE  /\ UNCHANGED <<running, live>> /\ default' \in Keys
           /\ closedIds \subseteq closedIds'
           /\ \A p \in live : \E h \in Handles : registry'[h] = p
           /\ \A h \in Handles : /\ registry[h] # NoPage => registry'[h] # NoPage \/ h \in closedIds'
                                 /\ given[h] # NoPage => given'[h] = given[h]
                                 /\ registry'[h] # NoPage => given'[h] = registry'[h]
                                 /\ registry'[h] \in Pages \cup {NoPage}
  <1> DEFINE n == Cardinality(Unregistered)
  <1> PICK order \in Bijection(1 .. n, Unregistered) :
             /\ registry' = Extended(order)
             /\ KeepOrMoveDefault(Extended(order))
             /\ given' = [h \in Handles |->
                             IF given[h] = NoPage THEN Extended(order)[h] ELSE given[h]]
    BY DEF SyncPages
  <1>1. UNCHANGED <<running, live>> /\ closedIds \subseteq closedIds'
    BY DEF SyncPages
  <1>2. default' \in Keys
    BY DEF KeepOrMoveDefault, Keys, DefaultKey
  <1>3. n \in Nat /\ next \in Nat /\ next >= 1 /\ next + n \in 1 .. Cardinality(Pages) + 1
    BY EnoughHandles DEF IInv, TypeOK
  <1>4. ASSUME NEW h \in Handles, registry[h] # NoPage
        PROVE  h < next /\ registry'[h] = Kept[h]
    BY <1>4, ExtendedFacts DEF IInv, RegistryAsGiven, GivenInOrder
  <1>5. ASSUME NEW p \in live PROVE \E h \in Handles : registry'[h] = p
    <2>1. p \in Pages /\ p # NoPage
      BY NullAssumption DEF IInv, TypeOK
    <2>2. CASE p \in Unregistered
      <3>1. PICK i \in 1 .. n : order[i] = p
        BY <2>2 DEF Bijection, Surjection
      <3> DEFINE h == next + i - 1
      <3>2. h \in Nat /\ h >= next /\ h < next + n /\ h - next + 1 = i
        BY <1>3
      <3>3. h \in Handles
        BY <1>3, <3>2, PagesFinite DEF Handles
      <3>4. Extended(order)[h] = order[h - next + 1]
        <4> HIDE DEF h, n
        <4> QED BY <3>2, <3>3 DEF Extended, n
      <3> HIDE DEF h
      <3> QED BY <3>1, <3>2, <3>3, <3>4
    <2>3. CASE p \notin Unregistered
      <3>1. PICK h \in Handles : Kept[h] = p
        BY <2>3 DEF Unregistered
      <3>2. registry[h] = p
        BY <2>1, <3>1, KeptFacts
      <3> QED BY <2>1, <3>1, <3>2, <1>4
    <2> QED BY <2>2, <2>3
  <1>6. \A h \in Handles : registry[h] # NoPage => registry'[h] # NoPage \/ h \in closedIds'
    BY <1>4 DEF SyncPages
  <1>7. \A h \in Handles : given[h] # NoPage => given'[h] = given[h]
    OBVIOUS
  <1>8. \A h \in Handles : /\ registry'[h] # NoPage => given'[h] = registry'[h]
                           /\ registry'[h] \in Pages \cup {NoPage}
    BY SyncInvariant, ExtendedFacts DEF IInv, RegistryAsGiven
  <1> QED BY <1>1, <1>2, <1>5, <1>6, <1>7, <1>8

LEMMA GivenStays ==
    ASSUME IInv, [NextRequests]_allVars
    PROVE  \A h \in Handles : given[h] # NoPage => given'[h] = given[h]
  <1> USE RequestStep
  <1>1. CASE UNCHANGED vars
    BY <1>1 DEF vars
  <1>2. CASE SyncPages
    BY <1>2, SyncFacts
  <1>3. CASE \E p \in Pages : PageCloses(p) \/ \E a \in Addresses : PageOpens(p, a)
    BY <1>3 DEF PageCloses, PageOpens
  <1>4. CASE Start \/ Stop \/ Restart \/ RunLost
    BY <1>4 DEF Start, Stop, Restart, RunLost, KeepProfilePages, ClearProfilePages
  <1> QED BY <1>1, <1>2, <1>3, <1>4 DEF Next

LEMMA IdOfFacts ==
    ASSUME NEW pages, NEW p, p # NoPage
    PROVE  /\ IdOf(pages, p) \in Keys
           /\ IdOf(pages, p) \in Handles => pages[IdOf(pages, p)] = p
           /\ (\E h \in Handles : pages[h] = p) => IdOf(pages, p) \in Handles
  <1>1. NoHandle \notin Handles
    BY DEF NoHandle, Handles
  <1>2. CASE \E h \in Handles : pages[h] = p
    <2>1. IdOf(pages, p) \in Handles /\ pages[IdOf(pages, p)] = p
      BY <1>2 DEF IdOf
    <2> QED BY <2>1 DEF Keys
  <1>3. CASE ~\E h \in Handles : pages[h] = p
    BY <1>1, <1>3 DEF IdOf, Keys, DefaultKey
  <1> QED BY <1>2, <1>3

-----------------------------------------------------------------------------
(* Types and numbers of dialogs                                              *)

TypedInv == TypeOKRequests /\ DialogsCounted /\ DialogsKnown

LEMMA DialogsFinite ==
    /\ IsFiniteSet(Dialogs) /\ Cardinality(Dialogs) \in Nat
    /\ IsFiniteSet(Numbered) /\ Cardinality(Numbered) \in Nat
    /\ Cardinality(Numbered) <= Cardinality(Dialogs)
  <1>1. IsFiniteSet(Dialogs) /\ Cardinality(Dialogs) \in Nat
    BY DialogsAreFinite, FS_CardinalityType
  <1>2. Numbered \subseteq Dialogs
    BY DEF Numbered
  <1> QED BY <1>1, <1>2, FS_Subset, FS_CardinalityType

LEMMA InitTyped == InitRequests => TypedInv
  <1> SUFFICES ASSUME InitRequests PROVE TypedInv
    OBVIOUS
  <1>1. TypeOKRequests
    BY DialogsFinite DEF InitRequests, TypeOKRequests, Idle, NoEntry, Keys, DefaultKey
  <1>2. Numbered = {}
    BY DEF InitRequests, Numbered
  <1>3. DialogsCounted
    BY <1>2, FS_EmptySet DEF InitRequests, DialogsCounted
  <1>4. DialogsKnown
    BY DEF InitRequests, DialogsKnown, NoEntry
  <1> QED BY <1>1, <1>3, <1>4 DEF TypedInv

(* A number for a dialog that has none.                                      *)
LEMMA RegisterCounted ==
    ASSUME TypedInv, NEW d \in Dialogs, RegisterDialog(d)
    PROVE  /\ Cardinality(Numbered) + 1 = Cardinality(Numbered')
           /\ nextDialog \in DialogIds
           /\ DialogsCounted'
           /\ nextDialog' \in 1 .. Cardinality(Dialogs) + 1
  <1>1. dialogPage[d] # NoPage /\ d \in announced
    BY DEF RegisterDialog, TypedInv, DialogsKnown
  <1>2. Numbered' = Numbered \cup {d} /\ d \notin Numbered
    BY <1>1 DEF RegisterDialog, Numbered
  <1>3. Cardinality(Numbered') = Cardinality(Numbered) + 1
    BY <1>2, DialogsFinite, FS_AddElement
  <1>4. Numbered' \subseteq Dialogs
    BY DEF Numbered
  <1>5. Cardinality(Numbered') <= Cardinality(Dialogs)
    BY <1>4, DialogsFinite, FS_Subset
  <1>6. nextDialog \in Nat /\ nextDialog' = nextDialog + 1 /\ Cardinality(Numbered) = nextDialog - 1
    BY DEF RegisterDialog, TypedInv, TypeOKRequests, DialogsCounted
  <1> QED BY <1>3, <1>5, <1>6, DialogsFinite DEF DialogIds, DialogsCounted

(* The other steps leave the numbers alone.                                  *)
LEMMA SameNumbers ==
    ASSUME DialogsCounted, UNCHANGED <<dialogPage, announced, nextDialog>>
    PROVE  DialogsCounted'
  <1>1. Numbered' = Numbered
    BY DEF Numbered
  <1> QED BY <1>1 DEF DialogsCounted

LEMMA NewPageEventsTyped ==
    ASSUME NEW e \in NewPageEvents
    PROVE  e \in Event /\ e.type = "new_page" /\ e.source = NoHandle /\ e.new \in Handles
               /\ registry'[e.new] # NoPage
  BY DEF NewPageEvents, Event, Keys, DefaultKey

LEMMA TypedStep ==
    ASSUME IInv, TypedInv, [NextRequests]_allVars, IInv'
    PROVE  TypedInv'
  <1> USE DEF TypedInv
  <1>0. NoPage \notin Pages /\ NoPage \notin live /\ NoHandle \in Keys
    BY NullAssumption DEF IInv, TypeOK, Keys, DefaultKey
  <1>1. CASE UNCHANGED allVars
    <2>1. DialogsCounted'
      BY <1>1, SameNumbers DEF allVars, requestVars
    <2> QED BY <1>1, <2>1 DEF allVars, requestVars, vars, TypeOKRequests, DialogsKnown
  <1>2. CASE \E p \in Pages, a \in Addresses : Opens(p, a)
    <2>1. UNCHANGED requestVars /\ live \subseteq live'
      BY <1>2 DEF Opens, PageOpens
    <2>2. DialogsCounted'
      BY <2>1, SameNumbers DEF requestVars
    <2> QED BY <2>1, <2>2 DEF requestVars, TypeOKRequests, DialogsKnown
  <1>3. CASE \E p, q \in Pages, a \in Addresses : PopupOpens(q, p, a)
    <2> PICK p \in Pages, q \in Pages, a \in Addresses : PopupOpens(q, p, a)
      BY <1>3
    <2>1. /\ UNCHANGED <<dialogPage, open, announced, dialogs, nextDialog, events, locks, req>>
          /\ live \subseteq live'
          /\ opener' = [opener EXCEPT ![p] = q] /\ popups' \subseteq popups \cup {p}
      BY DEF PopupOpens, PageOpens
    <2>2. DialogsCounted'
      BY <2>1, SameNumbers
    <2> QED BY <2>1, <2>2 DEF TypeOKRequests, DialogsKnown
  <1>4. CASE \E p \in Pages : Closes(p)
    <2>1. /\ UNCHANGED <<opener, popups, dialogPage, announced, dialogs, nextDialog, events, locks,
                         req>>
          /\ open' = {d \in open : dialogPage[d] \in live'}
      BY <1>4 DEF Closes, DialogsGo
    <2>2. DialogsCounted'
      BY <2>1, SameNumbers
    <2> QED BY <2>1, <2>2 DEF TypeOKRequests, DialogsKnown
  <1>5. CASE \E p \in Pages, d \in Dialogs : DialogOpens(d, p)
    <2> PICK p \in Pages, d \in Dialogs : DialogOpens(d, p)
      BY <1>5
    <2>1. /\ UNCHANGED <<opener, popups, dialogs, nextDialog, events, locks, req, live>>
          /\ dialogPage' = [dialogPage EXCEPT ![d] = p] /\ dialogPage[d] = NoPage
          /\ open' = open \cup {d} /\ announced' = announced \cup {d} /\ p \in live
      BY DEF DialogOpens, vars
    <2>2. TypeOKRequests'
      BY <2>1 DEF TypeOKRequests
    <2>3. Numbered' = Numbered
      BY <2>1 DEF Numbered, TypeOKRequests
    <2>4. DialogsCounted'
      BY <2>1, <2>3 DEF DialogsCounted
    <2>5. DialogsKnown'
      <3>1. \A e \in Dialogs : dialogPage[e] # NoPage => dialogPage'[e] = dialogPage[e]
        BY <2>1 DEF TypeOKRequests
      <3>2. \A e \in Dialogs : e # d => dialogPage'[e] = dialogPage[e]
        BY <2>1 DEF TypeOKRequests
      <3>3. dialogPage'[d] = p
        BY <2>1 DEF TypeOKRequests
      <3>4. \A n \in DialogIds : dialogs[n].dialog \in Dialogs \cup {NoDialog}
        BY DEF TypeOKRequests
      <3>5. open \subseteq Dialogs /\ announced \subseteq Dialogs
        BY DEF TypeOKRequests
      <3> QED BY <1>0, <2>1, <3>1, <3>2, <3>3, <3>4, <3>5 DEF DialogsKnown
    <2> QED BY <2>2, <2>4, <2>5
  <1>6. CASE \E d \in Dialogs : RegisterDialog(d)
    <2> PICK d \in Dialogs : RegisterDialog(d)
      BY <1>6
    <2>1. /\ DialogsCounted' /\ nextDialog \in DialogIds
          /\ nextDialog' \in 1 .. Cardinality(Dialogs) + 1
      BY RegisterCounted
    <2>2. d \in announced /\ dialogPage[d] # NoPage /\ d # NoDialog /\ live' = live
      BY NullRequestAssumption DEF RegisterDialog, DialogsKnown, vars
    <2> DEFINE e == [dialog |-> d, page |-> IdOf(registry, dialogPage[d])]
    <2>3. e \in [dialog : Dialogs \cup {NoDialog}, page : Keys] /\ e.dialog = d
      BY <2>2, IdOfFacts
    <2>4. /\ dialogs' = [dialogs EXCEPT ![nextDialog] = e] /\ nextDialog' = nextDialog + 1
          /\ announced' = announced \ {d}
          /\ UNCHANGED <<opener, popups, dialogPage, open, events, locks, req>>
      BY DEF RegisterDialog
    <2> HIDE DEF e
    <2>5. TypeOKRequests'
      BY <2>1, <2>3, <2>4 DEF TypeOKRequests
    <2>6. DialogsKnown'
      <3>1. ASSUME NEW n \in DialogIds, dialogs'[n].dialog # NoDialog
            PROVE  n < nextDialog' /\ dialogPage'[dialogs'[n].dialog] # NoPage
        <4>1. n \in Nat /\ nextDialog \in Nat /\ nextDialog' = nextDialog + 1
          BY <2>4 DEF DialogIds, TypeOKRequests
        <4>2. CASE n = nextDialog
          BY <2>1, <2>2, <2>3, <2>4, <4>1, <4>2 DEF TypeOKRequests
        <4>3. CASE n # nextDialog
          BY <2>4, <3>1, <4>1, <4>3 DEF TypeOKRequests, DialogsKnown
        <4> QED BY <4>2, <4>3
      <3> QED BY <2>2, <2>4, <3>1 DEF DialogsKnown
    <2> QED BY <2>1, <2>5, <2>6
  <1>7. CASE \E p \in Pages : RegisterPopup(p)
    <2> PICK p \in Pages : RegisterPopup(p)
      BY <1>7
    <2>1. /\ UNCHANGED <<opener, dialogPage, open, announced, dialogs, nextDialog, locks, req, live>>
          /\ popups' \subseteq popups
      BY SyncFacts DEF RegisterPopup, vars
    <2>2. events' \subseteq Event
      <3>1. CASE SyncPages /\ events' = events \cup NewPageEvents \cup
                {[type |-> "popup", source |-> SourceOf(p), new |-> IdOf(registry', p)]}
        <4>1. IdOf(registry', p) \in Keys
          BY <1>0, IdOfFacts
        <4>2. SourceOf(p) \in Keys
          BY DEF SourceOf, IdOf, Keys, DefaultKey
        <4>3. events \subseteq Event
          BY DEF TypeOKRequests
        <4> QED BY <3>1, <4>1, <4>2, <4>3, NewPageEventsTyped DEF Event
      <3>2. CASE events' = events
        BY <3>2 DEF TypeOKRequests
      <3> QED BY <3>1, <3>2 DEF RegisterPopup
    <2>3. DialogsCounted'
      BY <2>1, SameNumbers
    <2> QED BY <2>1, <2>2, <2>3 DEF TypeOKRequests, DialogsKnown
  <1>8. CASE Sync
    <2>1. /\ UNCHANGED <<opener, popups, dialogPage, open, announced, dialogs, nextDialog, locks, req,
                         live>>
          /\ events' \subseteq Event
      BY <1>8, SyncFacts, NewPageEventsTyped DEF Sync, TypeOKRequests
    <2>2. DialogsCounted'
      BY <2>1, SameNumbers
    <2> QED BY <2>1, <2>2 DEF TypeOKRequests, DialogsKnown
  <1>9. CASE \E r \in Requests, k \in Keys : BeginAction(r, k)
    <2> PICK r \in Requests, k \in Keys : BeginAction(r, k)
      BY <1>9
    <2>1. /\ UNCHANGED <<opener, popups, dialogPage, open, announced, dialogs, nextDialog, live>>
          /\ events' \subseteq Event
          /\ locks' = [locks EXCEPT ![k] = r]
          /\ req' = [req EXCEPT ![r] = [pc |-> "acting", key |-> k, page |-> Addressed(k),
                                        number |-> 0, dialog |-> NoDialog]]
      BY SyncFacts, NewPageEventsTyped DEF BeginAction, TypeOKRequests, Acting
    <2>2. Addressed(k) \in Pages
      <3>1. Addressed(k) # NoPage
        BY DEF BeginAction
      <3>2. default' \in Keys /\ \A h \in Handles : registry'[h] \in Pages \cup {NoPage}
        BY SyncFacts DEF BeginAction
      <3> QED BY <3>1, <3>2 DEF Addressed, Keys, DefaultKey
    <2>3. DialogsCounted'
      BY <2>1, SameNumbers
    <2>4. TypeOKRequests'
      BY <2>1, <2>2 DEF TypeOKRequests
    <2> QED BY <2>1, <2>3, <2>4 DEF DialogsKnown
  <1>10. CASE \E r \in Requests : EndAction(r)
    <2> PICK r \in Requests : EndAction(r)
      BY <1>10
    <2>1. /\ UNCHANGED <<opener, popups, dialogPage, open, announced, dialogs, nextDialog, live>>
          /\ locks' = [locks EXCEPT ![req[r].key] = NoRequest]
          /\ req' = [req EXCEPT ![r] = [pc |-> "idle", key |-> DefaultKey, page |-> NoPage,
                                        number |-> 0, dialog |-> NoDialog]]
      BY SyncFacts DEF EndAction, vars, Idle
    <2>2. events' \subseteq Event
      BY NewPageEventsTyped DEF EndAction, TypeOKRequests
    <2>3. DialogsCounted'
      BY <2>1, SameNumbers
    <2>4. TypeOKRequests'
      BY <1>0, <2>1, <2>2 DEF TypeOKRequests, Keys
    <2> QED BY <2>1, <2>3, <2>4 DEF DialogsKnown
  <1>11. CASE \E r \in Requests, n \in DialogIds : BeginAnswer(r, n)
    <2> PICK r \in Requests, n \in DialogIds : BeginAnswer(r, n)
      BY <1>11
    <2>1. /\ UNCHANGED <<opener, popups, dialogPage, open, announced, dialogs, nextDialog, events,
                         locks, live>>
          /\ req' = [req EXCEPT ![r] = [pc |-> "answering", key |-> DefaultKey, page |-> NoPage,
                                        number |-> n, dialog |-> dialogs[n].dialog]]
      BY DEF BeginAnswer, vars, Answering
    <2>2. DialogsCounted'
      BY <2>1, SameNumbers
    <2>3. dialogs[n].dialog \in Dialogs \cup {NoDialog}
      BY DEF TypeOKRequests
    <2>4. TypeOKRequests'
      BY <1>0, <2>1, <2>3 DEF TypeOKRequests, Keys
    <2> QED BY <2>1, <2>2, <2>4 DEF DialogsKnown
  <1>12. CASE \E r \in Requests : BrowserAnswers(r)
    <2> PICK r \in Requests : BrowserAnswers(r)
      BY <1>12
    <2>1. /\ UNCHANGED <<opener, popups, dialogPage, announced, dialogs, nextDialog, events, locks,
                         live>>
          /\ open' \subseteq open
      BY DEF BrowserAnswers, vars
    <2>2. \/ req' = [req EXCEPT ![r].pc = "answered"]
          \/ req' = [req EXCEPT ![r] = [pc |-> "idle", key |-> DefaultKey, page |-> NoPage,
                                        number |-> 0, dialog |-> NoDialog]]
      BY DEF BrowserAnswers, Idle
    <2>3. DialogsCounted'
      BY <2>1, SameNumbers
    <2>4. TypeOKRequests'
      BY <1>0, <2>1, <2>2 DEF TypeOKRequests, Keys
    <2> QED BY <2>1, <2>3, <2>4 DEF DialogsKnown
  <1>13. CASE \E r \in Requests : EndAnswer(r)
    <2> PICK r \in Requests : EndAnswer(r)
      BY <1>13
    <2>1. /\ UNCHANGED <<opener, popups, dialogPage, open, announced, nextDialog, events, locks, live>>
          /\ dialogs' = [dialogs EXCEPT ![req[r].number] = [dialog |-> NoDialog, page |-> NoHandle]]
          /\ req' = [req EXCEPT ![r] = [pc |-> "idle", key |-> DefaultKey, page |-> NoPage,
                                        number |-> 0, dialog |-> NoDialog]]
      BY DEF EndAnswer, vars, Idle, NoEntry
    <2>2. DialogsCounted'
      BY <2>1, SameNumbers
    <2>3. TypeOKRequests'
      BY <1>0, <2>1 DEF TypeOKRequests, Keys
    <2>4. \A n \in DialogIds : dialogs'[n] \in {dialogs[n], [dialog |-> NoDialog, page |-> NoHandle]}
      BY <2>1 DEF TypeOKRequests
    <2>5. DialogsKnown'
      BY <2>1, <2>4 DEF DialogsKnown
    <2> QED BY <2>2, <2>3, <2>5
  <1>14. CASE Lifecycle
    <2>1. /\ UNCHANGED <<opener, popups, dialogPage, announced, nextDialog, locks, req>>
          /\ open' = {d \in open : dialogPage[d] \in live'}
          /\ events' \subseteq events
          /\ dialogs' \in {dialogs, [n \in DialogIds |-> [dialog |-> NoDialog, page |-> NoHandle]]}
      BY <1>14 DEF Lifecycle, DialogsGo, ClearEvents, NoEntry
    <2>2. DialogsCounted'
      BY <2>1, SameNumbers
    <2>3. TypeOKRequests'
      BY <1>0, <2>1 DEF TypeOKRequests
    <2>4. DialogsKnown'
      BY <2>1 DEF DialogsKnown
    <2> QED BY <2>2, <2>3, <2>4
  <1>15. CASE \E r \in Requests, p \in Pages, a \in Addresses : NewPageOpens(r, p, a)
    <2> PICK r \in Requests, p \in Pages, a \in Addresses : NewPageOpens(r, p, a)
      BY <1>15
    <2>1. /\ UNCHANGED <<opener, popups, dialogPage, open, announced, dialogs, nextDialog, events,
                         locks>>
          /\ live \subseteq live'
          /\ req' = [req EXCEPT ![r] = [pc |-> "opening", key |-> DefaultKey, page |-> p,
                                        number |-> 0, dialog |-> NoDialog]]
      BY DEF NewPageOpens, PageOpens, Posting
    <2>2. DialogsCounted'
      BY <2>1, SameNumbers
    <2>3. TypeOKRequests'
      BY <1>0, <2>1 DEF TypeOKRequests, Keys
    <2> QED BY <2>1, <2>2, <2>3 DEF DialogsKnown
  <1>16. CASE \E r \in Requests : NavigateNewPage(r)
    <2> PICK r \in Requests : NavigateNewPage(r)
      BY <1>16
    <2>1. UNCHANGED <<opener, popups, dialogPage, open, announced, dialogs, nextDialog, locks, live>>
      BY SyncFacts DEF NavigateNewPage, vars
    <2>2. events' \subseteq Event
      BY NewPageEventsTyped DEF NavigateNewPage, TypeOKRequests
    <2>3. req[r].page \in Pages
      BY DEF NavigateNewPage, TypeOKRequests
    <2>4. \/ req' = [req EXCEPT ![r] = [pc |-> "idle", key |-> DefaultKey, page |-> NoPage,
                                        number |-> 0, dialog |-> NoDialog]]
          \/ req' = [req EXCEPT ![r] = [pc |-> "navigating", key |-> DefaultKey, page |-> req[r].page,
                                        number |-> 0, dialog |-> NoDialog]]
      BY DEF NavigateNewPage, Posting, Idle
    <2>5. DialogsCounted'
      BY <2>1, SameNumbers
    <2>6. TypeOKRequests'
      BY <1>0, <2>1, <2>2, <2>3, <2>4 DEF TypeOKRequests, Keys
    <2> QED BY <2>1, <2>5, <2>6 DEF DialogsKnown
  <1>17. CASE \E r \in Requests : EndPost(r)
    <2> PICK r \in Requests : EndPost(r)
      BY <1>17
    <2>1. /\ UNCHANGED <<opener, popups, dialogPage, open, announced, dialogs, nextDialog, locks, live>>
          /\ req' = [req EXCEPT ![r] = [pc |-> "idle", key |-> DefaultKey, page |-> NoPage,
                                        number |-> 0, dialog |-> NoDialog]]
      BY SyncFacts DEF EndPost, vars, Idle
    <2>2. events' \subseteq Event
      BY NewPageEventsTyped DEF EndPost, TypeOKRequests
    <2>3. DialogsCounted'
      BY <2>1, SameNumbers
    <2>4. TypeOKRequests'
      BY <1>0, <2>1, <2>2 DEF TypeOKRequests, Keys
    <2> QED BY <2>1, <2>3, <2>4 DEF DialogsKnown
  <1> QED BY <1>1, <1>2, <1>3, <1>4, <1>5, <1>6, <1>7, <1>8, <1>9, <1>10, <1>11, <1>12, <1>13, <1>14,
             <1>15, <1>16, <1>17
          DEF NextRequests

-----------------------------------------------------------------------------
(* Locks                                                                     *)

LEMMA LocksExclude ==
    ASSUME IInv, TypedInv, LocksHeld, NewPagesApart
    PROVE  ActionsExcludeEachOther
  <1> SUFFICES ASSUME NEW r \in Requests, NEW s \in Requests, r # s, Works(r), Works(s),
                      req[r].page = req[s].page, Way(r) = Way(s)
               PROVE  FALSE
    BY DEF ActionsExcludeEachOther
  <1>1. ~(req[r].pc = "navigating" /\ req[s].pc = "navigating")
    BY DEF NewPagesApart, Posts
  <1>2. req[r].pc = "acting" /\ req[s].pc = "acting"
    BY <1>1 DEF Works, Way
  <1>3. req[r].key # req[s].key
    BY <1>2 DEF LocksHeld
  <1>4. req[r].key \in Handles \cup {DefaultKey} /\ req[s].key \in Handles \cup {DefaultKey}
    BY DEF TypedInv, TypeOKRequests, Keys
  <1>5. req[r].page \in Pages /\ NoPage \notin Pages
    BY <1>2, NullAssumption DEF TypedInv, TypeOKRequests
  <1>6. ~(req[r].key \in Handles /\ req[s].key \in Handles)
    BY <1>2, <1>3, <1>5 DEF LocksHeld, IInv, GivenOnce
  <1> QED BY <1>2, <1>3, <1>4, <1>6 DEF Way

LEMMA LocksStep ==
    ASSUME IInv, TypedInv, LocksHeld, [NextRequests]_allVars
    PROVE  LocksHeld'
  <1>1. ASSUME NEW s \in Requests, req[s].pc = "acting"
        PROVE  req[s].key \in Handles => given'[req[s].key] = req[s].page
    BY <1>1, GivenStays, NullAssumption DEF LocksHeld, TypedInv, TypeOKRequests
  <1>2. CASE UNCHANGED <<locks, req>>
    BY <1>1, <1>2 DEF LocksHeld
  <1>3. CASE \E r \in Requests, k \in Keys : BeginAction(r, k)
    <2> PICK r \in Requests, k \in Keys : BeginAction(r, k)
      BY <1>3
    <2>1. locks[k] = NoRequest /\ locks' = [locks EXCEPT ![k] = r] /\ Addressed(k) # NoPage
      BY DEF BeginAction, Locked
    <2>2. req' = [req EXCEPT ![r] = Acting(k, Addressed(k))]
      BY DEF BeginAction
    <2>3. Acting(k, Addressed(k)).key = k /\ Acting(k, Addressed(k)).page = Addressed(k)
      BY DEF Acting
    <2>4. k \in Handles => given'[k] = Addressed(k)
      <3>1. k \in Handles => Addressed(k) = registry'[k]
        BY DEF Addressed, DefaultKey, NoHandle, Handles
      <3> QED BY <2>1, <3>1, SyncFacts DEF BeginAction
    <2>5. locks \in [Keys -> Requests \cup {NoRequest}] /\ DOMAIN req = Requests
      BY DEF TypedInv, TypeOKRequests
    <2>6. ASSUME NEW s \in Requests, s # r, req'[s].pc = "acting"
          PROVE  locks'[req'[s].key] = s
                     /\ (req'[s].key \in Handles => given'[req'[s].key] = req'[s].page)
      <3>1. req'[s] = req[s]
        BY <2>2, <2>5, <2>6
      <3>2. locks[req[s].key] = s /\ req[s].key # k
        BY <2>1, <2>6, <3>1, NullRequestAssumption DEF LocksHeld
      <3> QED BY <1>1, <2>1, <2>5, <2>6, <3>1, <3>2
    <2>7. locks'[req'[r].key] = r /\ (req'[r].key \in Handles => given'[req'[r].key] = req'[r].page)
      BY <2>1, <2>2, <2>3, <2>4, <2>5
    <2> QED BY <2>6, <2>7 DEF LocksHeld
  <1>4. CASE \E r \in Requests : EndAction(r)
    <2> PICK r \in Requests : EndAction(r)
      BY <1>4
    <2>1. /\ req[r].pc = "acting" /\ locks' = [locks EXCEPT ![req[r].key] = NoRequest]
          /\ req' = [req EXCEPT ![r] = Idle] /\ Idle.pc = "idle"
      BY DEF EndAction, Idle
    <2>2. \A s \in Requests : req'[s].pc = "acting" => s # r /\ req'[s] = req[s]
      BY <2>1 DEF TypedInv, TypeOKRequests
    <2> QED BY <1>1, <2>1, <2>2 DEF LocksHeld, TypedInv, TypeOKRequests
  <1>5. CASE \E r \in Requests : \/ BrowserAnswers(r) \/ EndAnswer(r)
                                 \/ \E n \in DialogIds : BeginAnswer(r, n)
                                 \/ NavigateNewPage(r) \/ EndPost(r)
                                 \/ \E p \in Pages, a \in Addresses : NewPageOpens(r, p, a)
    <2>0. PICK r \in Requests :
              \E q : UNCHANGED locks /\ req' = [req EXCEPT ![r] = q] /\ q.pc # "acting"
      <3>1. Idle.pc = "idle" /\ \A n, d : Answering(n, d).pc = "answering"
        BY DEF Idle, Answering
      <3>2. ASSUME NEW r \in Requests, NEW n \in DialogIds, BeginAnswer(r, n)
            PROVE  \E q : UNCHANGED locks /\ req' = [req EXCEPT ![r] = q] /\ q.pc # "acting"
        <4>1. /\ UNCHANGED locks /\ req' = [req EXCEPT ![r] = Answering(n, dialogs[n].dialog)]
              /\ Answering(n, dialogs[n].dialog).pc # "acting"
          BY <3>1, <3>2 DEF BeginAnswer
        <4> QED BY <4>1
      <3>3. CASE \E r \in Requests : EndAnswer(r)
        BY <3>1, <3>3 DEF EndAnswer
      <3>4. ASSUME NEW r \in Requests, BrowserAnswers(r)
            PROVE  \E q : UNCHANGED locks /\ req' = [req EXCEPT ![r] = q] /\ q.pc # "acting"
        <4> DEFINE a == [req[r] EXCEPT !.pc = "answered"]
        <4>1. a.pc = "answered"
          BY DEF TypedInv, TypeOKRequests
        <4>2. UNCHANGED locks /\ (req' = [req EXCEPT ![r] = a] \/ req' = [req EXCEPT ![r] = Idle])
          BY <3>4 DEF BrowserAnswers
        <4> HIDE DEF a
        <4> QED BY <3>1, <4>1, <4>2
      <3>5. ASSUME NEW r \in Requests, \/ NavigateNewPage(r) \/ EndPost(r)
                                       \/ \E p \in Pages, a \in Addresses : NewPageOpens(r, p, a)
            PROVE  \E q : UNCHANGED locks /\ req' = [req EXCEPT ![r] = q] /\ q.pc # "acting"
        <4>1. \A p : Posting("opening", p).pc = "opening" /\ Posting("navigating", p).pc = "navigating"
          BY DEF Posting
        <4>2. UNCHANGED locks
          BY <3>5 DEF NavigateNewPage, EndPost, NewPageOpens
        <4>3. \/ req' = [req EXCEPT ![r] = Idle]
              \/ \E p : \/ req' = [req EXCEPT ![r] = Posting("opening", p)]
                        \/ req' = [req EXCEPT ![r] = Posting("navigating", p)]
          BY <3>5 DEF NavigateNewPage, EndPost, NewPageOpens
        <4> HIDE DEF Posting
        <4> QED BY <3>1, <4>1, <4>2, <4>3
      <3> QED BY <1>5, <3>2, <3>3, <3>4, <3>5
    <2>1. PICK q : UNCHANGED locks /\ req' = [req EXCEPT ![r] = q] /\ q.pc # "acting"
      BY <2>0
    <2>2. \A s \in Requests : req'[s].pc = "acting" => req'[s] = req[s]
      BY <2>1 DEF TypedInv, TypeOKRequests
    <2> QED BY <1>1, <2>1, <2>2 DEF LocksHeld
  <1>6. CASE \/ Sync \/ Lifecycle
             \/ \E d \in Dialogs : RegisterDialog(d)
             \/ \E p \in Pages : \/ Closes(p) \/ RegisterPopup(p)
                                 \/ \E d \in Dialogs : DialogOpens(d, p)
                                 \/ \E a \in Addresses : \/ Opens(p, a)
                                                         \/ \E q \in Pages : PopupOpens(q, p, a)
    <2>1. UNCHANGED <<locks, req>>
      BY <1>6 DEF Sync, Lifecycle, RegisterDialog, Closes, RegisterPopup, DialogOpens, Opens,
                  PopupOpens, requestVars
    <2> QED BY <1>2, <2>1
  <1>7. CASE UNCHANGED allVars
    BY <1>2, <1>7 DEF allVars, requestVars
  <1> QED BY <1>3, <1>4, <1>5, <1>6, <1>7 DEF NextRequests

(* An address, once given, stays.                                            *)
LEMMA AddressStays ==
    ASSUME [NextRequests]_allVars, NEW p, addr[p] # NoAddress
    PROVE  addr'[p] = addr[p]
  <1>1. CASE UNCHANGED addr
    BY <1>1
  <1>2. CASE \E q \in Pages, a \in Addresses : PageOpens(q, a)
    BY <1>2 DEF PageOpens
  <1> QED BY <1>1, <1>2, RequestStep
      DEF vars, Next, PageCloses, SyncPages, Start, Stop, Restart, RunLost, NewRun, EndOfRun

(* A request that opens a page takes one that none has; the others keep theirs *)
(* or none.                                                                   *)
LEMMA NewPagesStep ==
    ASSUME IInv, TypedInv, NewPagesApart, [NextRequests]_allVars
    PROVE  NewPagesApart'
  <1>0. /\ Idle.pc = "idle" /\ \A n, d : Answering(n, d).pc = "answering"
        /\ \A k, p : Acting(k, p).pc = "acting"
        /\ \A pc, p : Posting(pc, p).pc = pc /\ Posting(pc, p).page = p
    BY DEF Idle, Answering, Acting, Posting
  <1>1. ASSUME \A r \in Requests : Posts(r)' => Posts(r) /\ req'[r].page = req[r].page
        PROVE  NewPagesApart'
    BY <1>1, AddressStays DEF NewPagesApart
  <1>2. CASE \E r \in Requests, p \in Pages, a \in Addresses : NewPageOpens(r, p, a)
    <2> PICK r \in Requests, p \in Pages, a \in Addresses : NewPageOpens(r, p, a)
      BY <1>2
    <2>1. /\ addr[p] = NoAddress /\ addr' = [addr EXCEPT ![p] = a] /\ a # NoAddress
          /\ req' = [req EXCEPT ![r] = Posting("opening", p)]
      BY NullAssumption DEF NewPageOpens, PageOpens
    <2>2. addr'[p] = a /\ req'[r].page = p
      BY <1>0, <2>1 DEF IInv, TypeOK, TypedInv, TypeOKRequests
    <2>3. \A s \in Requests : s # r => req'[s] = req[s]
      BY <2>1 DEF TypedInv, TypeOKRequests
    <2>4. \A s \in Requests : s # r /\ Posts(s)' => Posts(s) /\ req'[s].page # p
      BY <2>1, <2>3 DEF NewPagesApart, Posts
    <2> QED BY <2>1, <2>2, <2>3, <2>4, AddressStays DEF NewPagesApart
  <1>3. CASE UNCHANGED req
    BY <1>1, <1>3 DEF Posts
  <1>4. ASSUME NEW r \in Requests, NEW q, req' = [req EXCEPT ![r] = q],
               q.pc \notin {"opening", "navigating"} \/ (Posts(r) /\ q.page = req[r].page)
        PROVE  NewPagesApart'
    <2>1. \A s \in Requests : req'[s] = IF s = r THEN q ELSE req[s]
      BY <1>4 DEF TypedInv, TypeOKRequests
    <2> QED BY <1>1, <1>4, <2>1 DEF Posts
  <1>5. ASSUME NEW r \in Requests,
               \/ EndAction(r) \/ EndPost(r) \/ EndAnswer(r) \/ NavigateNewPage(r)
               \/ BrowserAnswers(r)
               \/ \E k \in Keys : BeginAction(r, k)
               \/ \E n \in DialogIds : BeginAnswer(r, n)
        PROVE  NewPagesApart'
    <2>1. CASE req' = [req EXCEPT ![r] = Idle]
      BY <1>0, <1>4, <2>1
    <2>2. CASE NavigateNewPage(r) /\ req' # [req EXCEPT ![r] = Idle]
      <3> DEFINE q == Posting("navigating", req[r].page)
      <3>1. Posts(r) /\ req' = [req EXCEPT ![r] = q] /\ q.page = req[r].page
        BY <1>0, <2>2 DEF NavigateNewPage, Posts
      <3> HIDE DEF q
      <3> QED BY <1>4, <3>1
    <2>3. CASE \E k \in Keys : BeginAction(r, k)
      <3>1. PICK k \in Keys : req' = [req EXCEPT ![r] = Acting(k, Addressed(k))]
        BY <2>3 DEF BeginAction
      <3> QED BY <1>0, <1>4, <3>1
    <2>4. CASE \E n \in DialogIds : BeginAnswer(r, n)
      <3>1. PICK n \in DialogIds : req' = [req EXCEPT ![r] = Answering(n, dialogs[n].dialog)]
        BY <2>4 DEF BeginAnswer
      <3> QED BY <1>0, <1>4, <3>1
    <2>5. CASE BrowserAnswers(r) /\ req' # [req EXCEPT ![r] = Idle]
      <3> DEFINE a == [req[r] EXCEPT !.pc = "answered"]
      <3>1. req' = [req EXCEPT ![r] = a] /\ a.pc = "answered"
        BY <2>5 DEF BrowserAnswers, TypedInv, TypeOKRequests
      <3> HIDE DEF a
      <3> QED BY <1>4, <3>1
    <2> QED BY <1>5, <2>1, <2>2, <2>3, <2>4, <2>5 DEF EndAction, EndPost, EndAnswer
  <1>6. CASE \/ UNCHANGED allVars \/ Sync \/ Lifecycle
             \/ \E d \in Dialogs : RegisterDialog(d)
             \/ \E p \in Pages : \/ Closes(p) \/ RegisterPopup(p)
                                 \/ \E d \in Dialogs : DialogOpens(d, p)
                                 \/ \E a \in Addresses : \/ Opens(p, a)
                                                         \/ \E q \in Pages : PopupOpens(q, p, a)
    <2>1. UNCHANGED req
      BY <1>6 DEF allVars, Sync, Lifecycle, RegisterDialog, Closes, RegisterPopup, DialogOpens, Opens,
                  PopupOpens, requestVars
    <2> QED BY <1>3, <2>1
  <1> QED BY <1>2, <1>5, <1>6 DEF NextRequests

-----------------------------------------------------------------------------
(* Dialogs                                                                   *)

AnswerInv == AnswersKnown /\ HeardHaveHandles /\ OpenDialogIsListed

(* A page with a handle keeps it while it is open.                           *)
LEMMA RegistryKept ==
    ASSUME IInv, [NextRequests]_allVars, NEW h \in Handles,
           registry[h] # NoPage, registry[h] \in live, registry[h] \in live'
    PROVE  registry'[h] = registry[h]
  BY RequestStep, StepKeepsHandle DEF vars

LEMMA HeardStep ==
    ASSUME IInv, TypedInv, HeardHaveHandles, [NextRequests]_allVars
    PROVE  HeardHaveHandles'
  <1>1. ASSUME NEW p \in Pages, listeners'[p] > 0 PROVE \E h \in Handles : given'[h] = p
    <2>0. listeners \in [Pages -> Nat] /\ p # NoPage
      BY NullAssumption DEF IInv, TypeOK
    <2>1. CASE listeners[p] > 0
      BY <2>0, <2>1, GivenStays DEF HeardHaveHandles
    <2>2. CASE ~(listeners[p] > 0)
      <3>1. SyncPages
        <4>1. listeners'[p] # listeners[p]
          BY <1>1, <2>2
        <4> QED BY <4>1, RequestStep DEF vars, Next, PageOpens, PageCloses, Start, Stop, Restart,
                    RunLost, KeepProfilePages, ClearProfilePages
      <3>2. p \in live
        BY <1>1, <2>0, <2>2, <3>1 DEF SyncPages, AttachPageEvents
      <3>3. PICK h \in Handles : registry'[h] = p
        BY <3>1, <3>2, SyncFacts
      <3> QED BY <2>0, <3>1, <3>3, SyncFacts
    <2> QED BY <2>1, <2>2
  <1>2. ASSUME NEW d \in Dialogs, dialogPage'[d] # NoPage
        PROVE  \E h \in Handles : given'[h] = dialogPage'[d]
    <2>1. CASE dialogPage'[d] = dialogPage[d]
      BY <1>2, <2>1, GivenStays DEF HeardHaveHandles
    <2>2. CASE dialogPage'[d] # dialogPage[d]
      <3>1. PICK p \in Pages, e \in Dialogs : DialogOpens(e, p)
        BY <2>2 DEF NextRequests, allVars, requestVars, Closes, RegisterPopup, Opens, PopupOpens,
                    RegisterDialog, BeginAction, BeginAnswer, EndAction, BrowserAnswers, EndAnswer,
                    Sync, Lifecycle, NewPageOpens, NavigateNewPage, EndPost
      <3>2. dialogPage'[d] = p /\ listeners[p] > 0
        BY <2>2, <3>1 DEF DialogOpens, TypedInv, TypeOKRequests
      <3>3. PICK h \in Handles : given[h] = p
        BY <3>2 DEF HeardHaveHandles
      <3> QED BY <1>2, <3>2, <3>3, GivenStays
    <2> QED BY <2>1, <2>2
  <1> QED BY <1>1, <1>2 DEF HeardHaveHandles

(* The steps that neither register nor answer a dialog: what stays open has   *)
(* stayed on an open page, which kept its handle.                             *)
LEMMA ListedStays ==
    ASSUME IInv, TypedInv, TypedInv', OpenDialogIsListed, [NextRequests]_allVars,
           NEW d \in (open \ announced), d \in open', dialogPage'[d] = dialogPage[d]
    PROVE  \E n \in DialogIds :
               /\ dialogs[n].dialog = d
               /\ dialogs[n].page \in Handles
               /\ registry'[dialogs[n].page] = dialogPage'[d]
  <1>1. PICK n \in DialogIds : /\ dialogs[n].dialog = d
                               /\ dialogs[n].page \in Handles
                               /\ registry[dialogs[n].page] = dialogPage[d]
    BY DEF OpenDialogIsListed
  <1>2. dialogPage[d] \in live /\ dialogPage[d] \in live' /\ dialogPage[d] # NoPage
    BY NullAssumption DEF TypedInv, DialogsKnown, IInv, TypeOK
  <1>3. registry'[dialogs[n].page] = registry[dialogs[n].page]
    BY <1>1, <1>2, RegistryKept
  <1> QED BY <1>1, <1>3

LEMMA SameAnswers ==
    ASSUME AnswersKnown, UNCHANGED <<dialogPage, dialogs, nextDialog, req>>, open' \subseteq open
    PROVE  AnswersKnown'
  BY DEF AnswersKnown

LEMMA AnswerStep ==
    ASSUME IInv, TypedInv, TypedInv', AnswerInv, [NextRequests]_allVars
    PROVE  AnswerInv'
  <1> USE DEF AnswerInv
  <1>0. HeardHaveHandles'
    BY HeardStep
  <1>1. ASSUME UNCHANGED <<dialogPage, dialogs, nextDialog, announced>>, open' \subseteq open
        PROVE  OpenDialogIsListed'
    <2> SUFFICES ASSUME NEW d \in (open' \ announced')
                 PROVE  \E n \in DialogIds : /\ dialogs'[n].dialog = d
                                             /\ dialogs'[n].page \in Handles
                                             /\ registry'[dialogs'[n].page] = dialogPage'[d]
      BY DEF OpenDialogIsListed
    <2> QED BY <1>1, ListedStays
  <1>2. CASE \/ UNCHANGED allVars \/ Sync
             \/ \E p \in Pages : \/ Closes(p) \/ RegisterPopup(p)
                                 \/ \E a \in Addresses : \/ Opens(p, a)
                                                         \/ \E q \in Pages : PopupOpens(q, p, a)
    <2>1. UNCHANGED <<dialogPage, dialogs, nextDialog, announced, req>> /\ open' \subseteq open
      BY <1>2 DEF allVars, requestVars, Sync, Closes, DialogsGo, RegisterPopup, Opens, PopupOpens
    <2> QED BY <1>0, <1>1, <2>1, SameAnswers
  <1>3. CASE Lifecycle
    <2>1. UNCHANGED <<dialogPage, announced, nextDialog, req>> /\ open' \subseteq open
      BY <1>3 DEF Lifecycle, DialogsGo, ClearEvents
    <2>2. CASE UNCHANGED dialogs
      BY <1>0, <1>1, <2>1, <2>2, SameAnswers
    <2>3. CASE (Stop \/ Restart) /\ ClearEvents
      <3>1. open' = {}
        BY <1>3, <2>3 DEF Lifecycle, DialogsGo, Stop, Restart, NewRun, EndOfRun
      <3>2. \A n \in DialogIds : dialogs'[n].dialog = NoDialog
        BY <2>3 DEF ClearEvents, NoEntry
      <3>3. AnswersKnown'
        BY <2>1, <3>1, <3>2 DEF AnswersKnown
      <3> QED BY <1>0, <3>1, <3>3 DEF OpenDialogIsListed
    <2> QED BY <1>3, <2>2, <2>3 DEF Lifecycle
  <1>4. CASE \E p \in Pages, d \in Dialogs : DialogOpens(d, p)
    <2> PICK p \in Pages, d \in Dialogs : DialogOpens(d, p)
      BY <1>4
    <2>1. /\ UNCHANGED <<dialogs, nextDialog, req>> /\ dialogPage[d] = NoPage /\ p # NoPage
          /\ dialogPage' = [dialogPage EXCEPT ![d] = p]
          /\ open' = open \cup {d} /\ announced' = announced \cup {d}
      BY NullAssumption DEF DialogOpens
    <2>2. \A e \in Dialogs : e # d => dialogPage'[e] = dialogPage[e]
      BY <2>1 DEF TypedInv, TypeOKRequests
    <2>3. AnswersKnown'
      <3> SUFFICES ASSUME NEW r \in Requests, req[r].pc \in {"answering", "answered"}
                   PROVE  /\ req[r].number \in DialogIds /\ req[r].number < nextDialog
                          /\ req[r].dialog \in Dialogs /\ dialogPage'[req[r].dialog] # NoPage
                          /\ dialogs[req[r].number].dialog \in {NoDialog, req[r].dialog}
                          /\ req[r].pc = "answered" => req[r].dialog \notin open'
        BY <2>1 DEF AnswersKnown
      <3>1. req[r].dialog # d
        BY <2>1 DEF AnswersKnown
      <3> QED BY <2>1, <2>2, <3>1 DEF AnswersKnown
    <2>4. OpenDialogIsListed'
      <3> SUFFICES ASSUME NEW e \in (open' \ announced')
                   PROVE  \E n \in DialogIds : /\ dialogs'[n].dialog = e
                                               /\ dialogs'[n].page \in Handles
                                               /\ registry'[dialogs'[n].page] = dialogPage'[e]
        BY DEF OpenDialogIsListed
      <3>1. e \in open \ announced /\ e # d /\ e \in Dialogs
        BY <2>1 DEF TypedInv, TypeOKRequests
      <3> QED BY <2>1, <2>2, <3>1, ListedStays
    <2> QED BY <1>0, <2>3, <2>4
  <1>5. CASE \E d \in Dialogs : RegisterDialog(d)
    <2> PICK d \in Dialogs : RegisterDialog(d)
      BY <1>5
    <2> DEFINE h == IdOf(registry, dialogPage[d])
    <2>1. /\ UNCHANGED <<vars, dialogPage, open, req>> /\ announced' = announced \ {d}
          /\ dialogs' = [dialogs EXCEPT ![nextDialog] = [dialog |-> d, page |-> h]]
          /\ nextDialog' = nextDialog + 1 /\ nextDialog \in DialogIds
      BY RegisterCounted DEF RegisterDialog
    <2>2. UNCHANGED <<live, registry>> /\ \A n \in DialogIds : n \in Nat
      BY <2>1 DEF vars, DialogIds
    <2>3. \A n \in DialogIds : n # nextDialog => dialogs'[n] = dialogs[n]
      BY <2>1 DEF TypedInv, TypeOKRequests
    <2>4. dialogs'[nextDialog] = [dialog |-> d, page |-> h]
      BY <2>1 DEF TypedInv, TypeOKRequests
    <2>5. AnswersKnown'
      <3> SUFFICES ASSUME NEW r \in Requests, req[r].pc \in {"answering", "answered"}
                   PROVE  /\ req[r].number \in DialogIds /\ req[r].number < nextDialog'
                          /\ req[r].dialog \in Dialogs /\ dialogPage[req[r].dialog] # NoPage
                          /\ dialogs'[req[r].number].dialog \in {NoDialog, req[r].dialog}
                          /\ req[r].pc = "answered" => req[r].dialog \notin open
        BY <2>1 DEF AnswersKnown
      <3>1. req[r].number \in DialogIds /\ req[r].number < nextDialog
        BY DEF AnswersKnown
      <3> QED BY <2>1, <2>2, <2>3, <3>1 DEF AnswersKnown
    <2>6. OpenDialogIsListed'
      <3> SUFFICES ASSUME NEW e \in (open \ announced')
                   PROVE  \E n \in DialogIds : /\ dialogs'[n].dialog = e
                                               /\ dialogs'[n].page \in Handles
                                               /\ registry[dialogs'[n].page] = dialogPage[e]
        BY <2>1, <2>2 DEF OpenDialogIsListed
      <3>1. CASE e = d
        <4>1. dialogPage[d] \in live /\ dialogPage[d] # NoPage
          BY <3>1, NullAssumption DEF TypedInv, DialogsKnown, IInv, TypeOK
        <4>2. \E k \in Handles : registry[k] = dialogPage[d]
          BY <4>1 DEF HeardHaveHandles, IInv, OpenStaysRegistered
        <4>3. h \in Handles /\ registry[h] = dialogPage[d]
          BY <4>1, <4>2, IdOfFacts
        <4> HIDE DEF h
        <4>4. dialogs'[nextDialog].dialog = d /\ dialogs'[nextDialog].page = h
          BY <2>4
        <4> QED BY <2>1, <3>1, <4>3, <4>4
      <3>2. CASE e # d
        <4>1. PICK n \in DialogIds : /\ dialogs[n].dialog = e
                                     /\ dialogs[n].page \in Handles
                                     /\ registry[dialogs[n].page] = dialogPage[e]
          BY <2>1, <3>2 DEF OpenDialogIsListed
        <4>2. n # nextDialog
          <5>1. e # NoDialog
            BY NullRequestAssumption DEF TypedInv, TypeOKRequests
          <5>2. n < nextDialog
            BY <4>1, <5>1 DEF TypedInv, DialogsKnown
          <5> QED BY <2>1, <2>2, <5>2
        <4> QED BY <2>3, <4>1, <4>2
      <3> QED BY <3>1, <3>2
    <2> QED BY <1>0, <2>5, <2>6
  <1>6. ASSUME NEW r \in Requests, \/ EndAction(r) \/ BrowserAnswers(r)
                                   \/ NavigateNewPage(r) \/ EndPost(r)
                                   \/ \E p \in Pages, a \in Addresses : NewPageOpens(r, p, a)
                                   \/ \E k \in Keys : BeginAction(r, k)
                                   \/ \E n \in DialogIds : BeginAnswer(r, n)
        PROVE  AnswerInv'
    <2>1. UNCHANGED <<dialogPage, dialogs, nextDialog, announced>> /\ open' \subseteq open
      BY <1>6 DEF EndAction, BrowserAnswers, BeginAction, BeginAnswer, NewPageOpens,
                  NavigateNewPage, EndPost
    <2>2. \A s \in Requests : s # r => req'[s] = req[s]
      BY <1>6 DEF EndAction, BrowserAnswers, BeginAction, BeginAnswer, NewPageOpens,
                  NavigateNewPage, EndPost, TypedInv, TypeOKRequests
    <2>3. \/ req'[r].pc \notin {"answering", "answered"}
          \/ /\ req'[r].number \in DialogIds /\ req'[r].number < nextDialog
             /\ req'[r].dialog \in Dialogs /\ dialogPage[req'[r].dialog] # NoPage
             /\ dialogs[req'[r].number].dialog \in {NoDialog, req'[r].dialog}
             /\ req'[r].pc = "answered" => req'[r].dialog \notin open'
      <3>1. Idle.pc = "idle" /\ DOMAIN req = Requests
        BY DEF Idle, TypedInv, TypeOKRequests
      <3>2. CASE EndAction(r)
        BY <3>1, <3>2 DEF EndAction
      <3>3. CASE \E k \in Keys : BeginAction(r, k)
        <4>1. \A k, p : Acting(k, p).pc = "acting"
          BY DEF Acting
        <4>2. PICK k \in Keys : req' = [req EXCEPT ![r] = Acting(k, Addressed(k))]
          BY <3>3 DEF BeginAction
        <4>3. req'[r] = Acting(k, Addressed(k))
          BY <3>1, <4>2
        <4> QED BY <4>1, <4>3
      <3>4. CASE \E n \in DialogIds : BeginAnswer(r, n)
        <4> PICK n \in DialogIds : BeginAnswer(r, n)
          BY <3>4
        <4>1. /\ req'[r] = Answering(n, dialogs[n].dialog)
              /\ dialogs[n].dialog \in Dialogs /\ dialogs[n].dialog # NoDialog
          BY <3>1 DEF BeginAnswer, TypedInv, TypeOKRequests
        <4>2. /\ req'[r].pc = "answering" /\ req'[r].number = n
              /\ req'[r].dialog = dialogs[n].dialog
          BY <4>1 DEF Answering
        <4> QED BY <4>1, <4>2 DEF TypedInv, DialogsKnown
      <3>5. CASE BrowserAnswers(r)
        <4>1. CASE req' = [req EXCEPT ![r] = Idle]
          BY <3>1, <4>1
        <4>2. CASE req' = [req EXCEPT ![r].pc = "answered"]
          <5>1. /\ req'[r].number = req[r].number /\ req'[r].dialog = req[r].dialog
            BY <4>2 DEF TypedInv, TypeOKRequests
          <5>2. req[r].pc = "answering" /\ req[r].dialog \notin open'
            BY <3>5 DEF BrowserAnswers
          <5> QED BY <5>1, <5>2 DEF AnswersKnown
        <4> QED BY <3>5, <4>1, <4>2 DEF BrowserAnswers
      <3>6. CASE \/ NavigateNewPage(r) \/ EndPost(r)
                 \/ \E p \in Pages, a \in Addresses : NewPageOpens(r, p, a)
        <4>1. \A p : Posting("opening", p).pc = "opening" /\ Posting("navigating", p).pc = "navigating"
          BY DEF Posting
        <4>2. \/ req'[r] = Idle
              \/ \E p : req'[r] = Posting("opening", p) \/ req'[r] = Posting("navigating", p)
          BY <3>1, <3>6 DEF NavigateNewPage, EndPost, NewPageOpens
        <4> QED BY <3>1, <4>1, <4>2
      <3> QED BY <1>6, <3>2, <3>3, <3>4, <3>5, <3>6
    <2>4. AnswersKnown'
      <3> SUFFICES ASSUME NEW s \in Requests, req'[s].pc \in {"answering", "answered"}
                   PROVE  /\ req'[s].number \in DialogIds /\ req'[s].number < nextDialog
                          /\ req'[s].dialog \in Dialogs /\ dialogPage[req'[s].dialog] # NoPage
                          /\ dialogs[req'[s].number].dialog \in {NoDialog, req'[s].dialog}
                          /\ req'[s].pc = "answered" => req'[s].dialog \notin open'
        BY <2>1 DEF AnswersKnown
      <3> QED BY <2>1, <2>2, <2>3 DEF AnswersKnown
    <2> QED BY <1>0, <1>1, <2>1, <2>4
  <1>7. CASE \E r \in Requests : EndAnswer(r)
    <2> PICK r \in Requests : EndAnswer(r)
      BY <1>7
    <2>1. /\ UNCHANGED <<vars, dialogPage, open, announced, nextDialog>> /\ req[r].pc = "answered"
          /\ dialogs' = [dialogs EXCEPT ![req[r].number] = NoEntry]
          /\ req' = [req EXCEPT ![r] = Idle] /\ Idle.pc = "idle" /\ NoEntry.dialog = NoDialog
      BY DEF EndAnswer, Idle, NoEntry
    <2>2. \A n \in DialogIds : /\ n # req[r].number => dialogs'[n] = dialogs[n]
                               /\ dialogs'[n].dialog \in {dialogs[n].dialog, NoDialog}
      BY <2>1 DEF TypedInv, TypeOKRequests
    <2>3. \A s \in Requests : req'[s].pc \in {"answering", "answered"} => req'[s] = req[s]
      BY <2>1 DEF TypedInv, TypeOKRequests
    <2>4. AnswersKnown'
      <3> SUFFICES ASSUME NEW s \in Requests, req[s].pc \in {"answering", "answered"}
                   PROVE  /\ req[s].number \in DialogIds /\ req[s].number < nextDialog
                          /\ req[s].dialog \in Dialogs /\ dialogPage[req[s].dialog] # NoPage
                          /\ dialogs'[req[s].number].dialog \in {NoDialog, req[s].dialog}
                          /\ req[s].pc = "answered" => req[s].dialog \notin open
        BY <2>1, <2>3 DEF AnswersKnown
      <3> QED BY <2>2 DEF AnswersKnown
    <2>5. OpenDialogIsListed'
      <3> SUFFICES ASSUME NEW e \in (open \ announced)
                   PROVE  \E n \in DialogIds : /\ dialogs'[n].dialog = e
                                               /\ dialogs'[n].page \in Handles
                                               /\ registry[dialogs'[n].page] = dialogPage[e]
        BY <2>1 DEF OpenDialogIsListed, vars
      <3>1. PICK n \in DialogIds : /\ dialogs[n].dialog = e
                                   /\ dialogs[n].page \in Handles
                                   /\ registry[dialogs[n].page] = dialogPage[e]
        BY DEF OpenDialogIsListed
      <3>2. e # NoDialog /\ e # req[r].dialog
        BY <2>1, NullRequestAssumption DEF AnswersKnown, TypedInv, TypeOKRequests
      <3>3. n # req[r].number
        BY <2>1, <3>1, <3>2 DEF AnswersKnown
      <3> QED BY <2>2, <3>1, <3>3
    <2> QED BY <1>0, <2>4, <2>5
  <1> QED BY <1>2, <1>3, <1>4, <1>5, <1>6, <1>7 DEF NextRequests

-----------------------------------------------------------------------------
(* Events                                                                    *)

EventInv == EventsGiven /\ PopupsHaveOpeners /\ EventsNameKnownPages /\ PopupNamesItsPages

(* A step that records nothing, and after which every page known is known.   *)
LEMMA SameEvents ==
    ASSUME IInv, TypedInv, EventInv, [NextRequests]_allVars, events' \subseteq events,
           popups' \subseteq popups, UNCHANGED opener,
           events' = {} \/ /\ closedIds \subseteq closedIds'
                           /\ \A h \in Handles :
                                  registry[h] # NoPage => registry'[h] # NoPage \/ h \in closedIds'
    PROVE  EventInv'
  <1> USE DEF EventInv
  <1>1. \A e \in events : e.source \in Handles \cup {NoHandle} /\ e.new \in Handles \cup {NoHandle}
    BY DEF TypedInv, TypeOKRequests, Event, Keys, DefaultKey
  <1>2. EventsGiven'
    BY GivenStays DEF EventsGiven
  <1>3. PopupsHaveOpeners'
    BY DEF PopupsHaveOpeners
  <1>4. EventsNameKnownPages'
    <2> SUFFICES ASSUME NEW e \in events', NEW h \in {e.source, e.new}, h # NoHandle
                 PROVE  h \in closedIds' \/ (h \in Handles /\ registry'[h] # NoPage)
      BY DEF EventsNameKnownPages
    <2>1. h \in Handles /\ (h \in closedIds \/ registry[h] # NoPage)
      BY <1>1 DEF EventsNameKnownPages
    <2> QED BY <2>1
  <1>5. PopupNamesItsPages'
    <2> SUFFICES ASSUME NEW e \in events', e.type = "popup", NoHandle \notin {e.source, e.new}
                 PROVE  opener[given'[e.new]] = given'[e.source]
      BY DEF PopupNamesItsPages
    <2>1. e.source \in Handles /\ e.new \in Handles
      BY <1>1
    <2> QED BY <2>1, GivenStays DEF EventsGiven, PopupNamesItsPages
  <1> QED BY <1>2, <1>3, <1>4, <1>5

(* _sync_pages records the new pages, and RegisterPopup the popup p too.     *)
LEMMA RecordedEvents ==
    ASSUME IInv, TypedInv, EventInv, [NextRequests]_allVars, SyncPages,
           NEW p, popups' \subseteq popups, UNCHANGED opener,
           \/ events' = events \cup NewPageEvents
           \/ /\ p # NoPage /\ opener[p] # NoPage
              /\ events' = events \cup NewPageEvents \cup
                     {[type |-> "popup", source |-> SourceOf(p), new |-> IdOf(registry', p)]}
    PROVE  EventInv'
  <1> USE DEF EventInv
  <1> DEFINE popup == [type |-> "popup", source |-> SourceOf(p), new |-> IdOf(registry', p)]
  <1>1. \A e \in events : e.source \in Handles \cup {NoHandle} /\ e.new \in Handles \cup {NoHandle}
    BY DEF TypedInv, TypeOKRequests, Event, Keys, DefaultKey
  <1>2. \A h \in Handles : registry[h] # NoPage => given[h] = registry[h]
    BY DEF IInv, RegistryAsGiven
  <1>3. ASSUME NEW e \in events', e \notin events
        PROVE  \/ e.type # "popup" /\ e.source = NoHandle /\ e.new \in Handles
                      /\ registry'[e.new] # NoPage
               \/ /\ p # NoPage /\ opener[p] # NoPage /\ e.type = "popup"
                  /\ e.source \in Handles \cup {NoHandle}
                  /\ e.source \in Handles => registry[e.source] = opener[p]
                  /\ e.new \in Handles \cup {NoHandle}
                  /\ e.new \in Handles => registry'[e.new] = p
    <2>1. CASE e \in NewPageEvents
      BY <2>1, NewPageEventsTyped
    <2>2. CASE e = popup /\ p # NoPage /\ opener[p] # NoPage
      BY <2>2, IdOfFacts DEF SourceOf, Keys, DefaultKey
    <2> HIDE DEF popup
    <2> QED BY <1>3, <2>1, <2>2 DEF popup
  <1>4. NoHandle \notin Handles
    BY DEF NoHandle, Handles
  <1>5. PopupsHaveOpeners'
    BY DEF PopupsHaveOpeners
  <1>6. EventsGiven'
    <2> SUFFICES ASSUME NEW e \in events', NEW h \in {e.source, e.new}, h \in Handles
                 PROVE  given'[h] # NoPage
      BY DEF EventsGiven
    <2>1. CASE e \in events
      BY <2>1, GivenStays DEF EventsGiven
    <2>2. CASE e \notin events
      <3>1. CASE registry'[h] # NoPage
        BY <3>1, SyncFacts
      <3>2. CASE registry[h] # NoPage
        BY <1>2, <3>2, GivenStays
      <3> QED BY <1>3, <1>4, <2>2, <3>1, <3>2
    <2> QED BY <2>1, <2>2
  <1>7. EventsNameKnownPages'
    <2> SUFFICES ASSUME NEW e \in events', NEW h \in {e.source, e.new}, h # NoHandle
                 PROVE  h \in closedIds' \/ (h \in Handles /\ registry'[h] # NoPage)
      BY DEF EventsNameKnownPages
    <2>1. h \in Handles /\ (h \in closedIds \/ registry[h] # NoPage \/ registry'[h] # NoPage)
      BY <1>1, <1>3, <1>4 DEF EventsNameKnownPages
    <2> QED BY <2>1, SyncFacts
  <1>8. PopupNamesItsPages'
    <2> SUFFICES ASSUME NEW e \in events', e.type = "popup", NoHandle \notin {e.source, e.new}
                 PROVE  opener[given'[e.new]] = given'[e.source]
      BY DEF PopupNamesItsPages
    <2>1. e.source \in Handles /\ e.new \in Handles
      BY <1>1, <1>3
    <2>2. CASE e \in events
      BY <2>1, <2>2, GivenStays DEF EventsGiven, PopupNamesItsPages
    <2>3. CASE e \notin events
      <3>1. registry[e.source] = opener[p] /\ registry'[e.new] = p /\ p # NoPage /\ opener[p] # NoPage
        BY <1>3, <2>1, <2>3
      <3>2. given'[e.new] = p
        BY <2>1, <3>1, SyncFacts
      <3>3. given'[e.source] = opener[p]
        BY <1>2, <2>1, <3>1, GivenStays
      <3> QED BY <3>2, <3>3
    <2> QED BY <2>2, <2>3
  <1> QED BY <1>5, <1>6, <1>7, <1>8

LEMMA EventStep ==
    ASSUME IInv, TypedInv, EventInv, [NextRequests]_allVars
    PROVE  EventInv'
  <1>1. CASE \/ Sync \/ \E r \in Requests : \E k \in Keys : BeginAction(r, k)
    <2>1. /\ SyncPages /\ events' = events \cup NewPageEvents /\ UNCHANGED <<popups, opener>>
      BY <1>1 DEF Sync, BeginAction
    <2> QED BY <2>1, RecordedEvents
  <1>2. CASE \E p \in Pages : RegisterPopup(p)
    <2> PICK p \in Pages : RegisterPopup(p)
      BY <1>2
    <2>1. /\ popups' \subseteq popups /\ UNCHANGED opener /\ p # NoPage /\ opener[p] # NoPage
      BY NullAssumption DEF RegisterPopup, EventInv, PopupsHaveOpeners
    <2>2. CASE UNCHANGED <<vars, events>>
      BY <2>1, <2>2, SameEvents DEF vars
    <2>3. CASE SyncPages
      BY <2>1, <2>2, <2>3, RecordedEvents DEF RegisterPopup
    <2> QED BY <2>2, <2>3 DEF RegisterPopup
  <1>3. CASE \E r \in Requests : EndAction(r) \/ NavigateNewPage(r) \/ EndPost(r)
    <2>1. UNCHANGED <<popups, opener>>
      BY <1>3 DEF EndAction, NavigateNewPage, EndPost
    <2>2. CASE UNCHANGED <<vars, events>>
      BY <2>1, <2>2, SameEvents DEF vars
    <2>3. CASE SyncPages /\ events' = events \cup NewPageEvents
      BY <2>1, <2>3, RecordedEvents
    <2> QED BY <1>3, <2>2, <2>3 DEF EndAction, NavigateNewPage, EndPost
  <1>4. CASE \E p, q \in Pages, a \in Addresses : PopupOpens(q, p, a)
    <2> PICK p \in Pages, q \in Pages, a \in Addresses : PopupOpens(q, p, a)
      BY <1>4
    <2>1. /\ UNCHANGED <<events, registry, closedIds, given>> /\ addr[p] = NoAddress
          /\ popups' \subseteq popups \cup {p} /\ opener' = [opener EXCEPT ![p] = q]
          /\ q # NoPage
      BY NullAssumption DEF PopupOpens, PageOpens
    <2>2. DOMAIN opener = Pages
      BY DEF TypedInv, TypeOKRequests
    <2>3. \A h \in Handles : given[h] # NoPage => given[h] # p
      BY <2>1 DEF IInv, OpenStaysRegistered
    <2>4. \A e \in events :
              e.source \in Handles \cup {NoHandle} /\ e.new \in Handles \cup {NoHandle}
      BY DEF TypedInv, TypeOKRequests, Event, Keys, DefaultKey
    <2>5. EventsGiven' /\ EventsNameKnownPages'
      BY <2>1 DEF EventInv, EventsGiven, EventsNameKnownPages
    <2>6. PopupsHaveOpeners'
      <3> SUFFICES ASSUME NEW x \in popups' PROVE opener'[x] # NoPage
        BY DEF PopupsHaveOpeners
      <3>1. CASE x = p
        BY <2>1, <2>2, <3>1
      <3>2. CASE x # p
        BY <2>1, <3>2 DEF EventInv, PopupsHaveOpeners
      <3> QED BY <3>1, <3>2
    <2>7. PopupNamesItsPages'
      <3> SUFFICES ASSUME NEW e \in events, e.type = "popup", NoHandle \notin {e.source, e.new}
                   PROVE  opener'[given[e.new]] = given[e.source]
        BY <2>1 DEF PopupNamesItsPages
      <3>1. e.new \in Handles /\ given[e.new] # p
        BY <2>3, <2>4 DEF EventInv, EventsGiven
      <3> QED BY <2>1, <3>1 DEF EventInv, PopupNamesItsPages
    <2> QED BY <2>5, <2>6, <2>7 DEF EventInv
  <1>5. CASE Lifecycle
    <2>1. UNCHANGED <<popups, opener>>
      BY <1>5 DEF Lifecycle
    <2>2. CASE (Start \/ RunLost) /\ UNCHANGED <<dialogs, nextDialog, events>>
      <3>1. UNCHANGED <<registry, closedIds>>
        BY <2>2 DEF Start, RunLost, KeepProfilePages
      <3> QED BY <2>1, <2>2, <3>1, SameEvents
    <2>3. CASE ClearEvents
      <3>1. events' = {}
        BY <2>3 DEF ClearEvents
      <3> QED BY <2>1, <3>1, SameEvents
    <2> QED BY <1>5, <2>2, <2>3 DEF Lifecycle
  <1>6. CASE \/ UNCHANGED allVars
             \/ \E d \in Dialogs : RegisterDialog(d)
             \/ \E p \in Pages : \/ Closes(p) \/ \E d \in Dialogs : DialogOpens(d, p)
                                 \/ \E a \in Addresses : Opens(p, a)
             \/ \E r \in Requests : \/ BrowserAnswers(r) \/ EndAnswer(r)
                                    \/ \E n \in DialogIds : BeginAnswer(r, n)
                                    \/ \E p \in Pages, a \in Addresses : NewPageOpens(r, p, a)
    <2>1. UNCHANGED <<events, popups, opener, registry, closedIds>>
      BY <1>6 DEF allVars, vars, requestVars, RegisterDialog, Closes, PageCloses, DialogOpens, Opens,
                  PageOpens, BrowserAnswers, EndAnswer, BeginAnswer, NewPageOpens
    <2> QED BY <2>1, SameEvents
  <1> QED BY <1>1, <1>2, <1>3, <1>4, <1>5, <1>6 DEF NextRequests

-----------------------------------------------------------------------------
(* Theorems about the requests                                               *)

RequestsInv == IInv /\ TypedInv /\ LocksHeld /\ NewPagesApart /\ AnswerInv /\ EventInv

LEMMA InitRequestsInvariant == InitRequests => RequestsInv
  <1> SUFFICES ASSUME InitRequests PROVE RequestsInv
    OBVIOUS
  <1>1. IInv /\ TypedInv
    BY InitInvariant, InitTyped DEF InitRequests
  <1>2. LocksHeld /\ NewPagesApart /\ AnswersKnown
    BY DEF InitRequests, LocksHeld, NewPagesApart, Posts, AnswersKnown, Idle
  <1>3. HeardHaveHandles
    BY DEF InitRequests, Init, HeardHaveHandles
  <1>4. OpenDialogIsListed /\ EventInv
    BY DEF InitRequests, OpenDialogIsListed, EventInv, EventsGiven, PopupsHaveOpeners,
           EventsNameKnownPages, PopupNamesItsPages
  <1> QED BY <1>1, <1>2, <1>3, <1>4 DEF RequestsInv, AnswerInv

LEMMA NextRequestsInvariant == RequestsInv /\ [NextRequests]_allVars => RequestsInv'
  <1> SUFFICES ASSUME RequestsInv, [NextRequests]_allVars PROVE RequestsInv'
    OBVIOUS
  <1> USE DEF RequestsInv
  <1>1. IInv'
    BY RequestStep, NextInvariant
  <1>2. TypedInv'
    BY <1>1, TypedStep
  <1>3. LocksHeld' /\ NewPagesApart'
    BY LocksStep, NewPagesStep
  <1>4. AnswerInv'
    BY <1>2, AnswerStep
  <1>5. EventInv'
    BY EventStep
  <1> QED BY <1>1, <1>2, <1>3, <1>4, <1>5

THEOREM RequestsInvariance == SpecRequests => []RequestsInv
  BY InitRequestsInvariant, NextRequestsInvariant, PTL DEF SpecRequests

(* The types of the requests' variables; dialogs never run out of numbers.   *)
THEOREM RequestsTyped == SpecRequests => []TypeOKRequests
  <1>1. RequestsInv => TypeOKRequests
    BY DEF RequestsInv, TypedInv
  <1> QED BY <1>1, RequestsInvariance, PTL

(* Requests that work on one page came to it in different ways: as the POST    *)
(* that opened it, by default, or by its id (api.py 636, 938-951).            *)
THEOREM ActionsAreExclusive == SpecRequests => []ActionsExcludeEachOther
  <1>1. RequestsInv => ActionsExcludeEachOther
    BY LocksExclude DEF RequestsInv
  <1> QED BY <1>1, RequestsInvariance, PTL

(* A dialog stays listed with its page until it is answered or gone.         *)
THEOREM DialogsStayListed == SpecRequests => []OpenDialogIsListed
  <1>1. RequestsInv => OpenDialogIsListed
    BY DEF RequestsInv, AnswerInv
  <1> QED BY <1>1, RequestsInvariance, PTL

(* The events tell of pages that the API knows.                              *)
THEOREM EventsAreKnown == SpecRequests => []EventsNameKnownPages
  <1>1. RequestsInv => EventsNameKnownPages
    BY DEF RequestsInv, EventInv
  <1> QED BY <1>1, RequestsInvariance, PTL

(* A popup is told of with its own opener.                                   *)
THEOREM PopupsAreNamed == SpecRequests => []PopupNamesItsPages
  <1>1. RequestsInv => PopupNamesItsPages
    BY DEF RequestsInv, EventInv
  <1> QED BY <1>1, RequestsInvariance, PTL

=============================================================================
