------------------------ MODULE AppLifecycle_proofs ------------------------
(***************************************************************************)
(* Proofs about AppLifecycle: its types, that the store only holds apps    *)
(* whose deletion has not begun, that it implements AppLife, that a        *)
(* deletion hits the app it was asked for as long as no app is deleted     *)
(* twice, and that it leaves no service behind that was made before it.    *)
(* Proofs about Poller: a pending promise is always polled and timed, a    *)
(* settled one leaves nothing behind.                                      *)
(***************************************************************************)
EXTENDS AppLifecycle, Poller, TLAPS

NewDeletion(a, from) ==
  [app |-> a, asked |-> from, waiting |-> services_[a] \cap Stateful, status |-> "waiting"]

\* What DeleteAll does to the deletions: each target gets one, unused ones
\* only, the rest are left alone.
LEMMA DeleteAllEffect ==
  ASSUME NEW targets \in SUBSET App, NEW asked, DeleteAll(targets, asked)
  PROVE  /\ deletion' = [d \in Deletion |-> deletion'[d]]
         /\ \A d \in Deletion :
              \/ deletion'[d] = deletion[d]
              \/ /\ deletion[d].status = "unused"
                 /\ \E a \in targets : deletion'[d] = NewDeletion(a, asked[a])
         /\ \A a \in targets : \E d \in Deletion :
              deletion[d].status = "unused" /\ deletion'[d] = NewDeletion(a, asked[a])
<1>1. PICK id \in [targets -> UnusedDeletions] :
        /\ \A a, b \in targets : a < b => id[a] < id[b]
        /\ deletion' =
             [d \in Deletion |->
                IF \E a \in targets : id[a] = d
                THEN LET a == CHOOSE b \in targets : id[b] = d
                     IN  NewDeletion(a, asked[a])
                ELSE deletion[d]]
  BY DEF DeleteAll, NewDeletion
<1>2. \A d \in UnusedDeletions : d \in Deletion /\ d \in Nat /\ deletion[d].status = "unused"
  BY ConstantsAssumption DEF UnusedDeletions, Deletion
<1>3. ASSUME NEW d \in Deletion
      PROVE  \/ deletion'[d] = deletion[d]
             \/ /\ deletion[d].status = "unused"
                /\ \E a \in targets : deletion'[d] = NewDeletion(a, asked[a])
  <2>1. CASE \E a \in targets : id[a] = d
    <3> DEFINE c == CHOOSE b \in targets : id[b] = d
    <3>1. c \in targets /\ id[c] = d
      BY <2>1
    <3>2. deletion'[d] = NewDeletion(c, asked[c])
      BY <1>1, <2>1
    <3> QED
      BY <1>1, <1>2, <3>1, <3>2
  <2>2. CASE ~\E a \in targets : id[a] = d
    BY <1>1, <2>2
  <2> QED
    BY <2>1, <2>2
<1>4. ASSUME NEW a \in targets
      PROVE  \E d \in Deletion :
               deletion[d].status = "unused" /\ deletion'[d] = NewDeletion(a, asked[a])
  <2> DEFINE c == CHOOSE b \in targets : id[b] = id[a]
  <2>1. c \in targets /\ id[c] = id[a]
    OBVIOUS
  <2>2. \A b \in targets : b \in Nat
    BY ConstantsAssumption DEF App
  <2>3. c = a
    BY <1>1, <1>2, <2>1, <2>2
  <2>4. id[a] \in Deletion /\ deletion[id[a]].status = "unused"
    BY <1>1, <1>2
  <2>5. deletion'[id[a]] = NewDeletion(c, asked[c])
    BY <1>1, <2>4
  <2> QED
    BY <2>3, <2>4, <2>5
<1> QED
  BY <1>1, <1>3, <1>4

\* delete(), deleteApp() and clearAllApps() are all DeleteAll.
DeleteStep ==
  \E targets \in SUBSET App : \E asked \in [targets -> App] : DeleteAll(targets, asked)

LEMMA DeletesAreDeleteAll ==
  ASSUME TypeOK,
         \/ \E a \in App : delete(a) \/ deleteApp(a)
         \/ clearAllApps
  PROVE  DeleteStep
<1>1. ASSUME NEW a \in App, delete(a) PROVE DeleteStep
  BY <1>1 DEF delete, DeleteStep
<1>2. ASSUME NEW a \in App, deleteApp(a) PROVE DeleteStep
  <2>1. appStore[name_[a]] \in App
    BY <1>2 DEF deleteApp, TypeOK, Usable, Created
  <2> QED
    BY <1>2, <2>1 DEF deleteApp, DeleteStep
<1>3. CASE clearAllApps
  BY <1>3 DEF clearAllApps, DeleteStep
<1> QED
  BY <1>1, <1>2, <1>3

\* Type correctness.
THEOREM TypeCorrect == Spec => []TypeOK
<1>1. Init => TypeOK
  BY ConstantsAssumption DEF Init, TypeOK, NoDeletion, DeletionRecord
<1>2. TypeOK /\ [Next]_vars => TypeOK'
  <2> SUFFICES ASSUME TypeOK, [Next]_vars PROVE TypeOK'
    OBVIOUS
  <2> USE DEF TypeOK
  <2>1. ASSUME NEW n \in Name, initializeApp(n) PROVE TypeOK'
    BY <2>1 DEF initializeApp
  <2>2. ASSUME NEW a \in App, NEW s \in Service, getOrInitService(a, s) PROVE TypeOK'
    BY <2>2 DEF getOrInitService
  <2>3. ASSUME NEW targets \in SUBSET App, NEW asked \in [targets -> App], DeleteAll(targets, asked)
        PROVE  TypeOK'
    <3>1. \A a \in targets : NewDeletion(a, asked[a]) \in DeletionRecord
      BY DEF NewDeletion, DeletionRecord
    <3>4. \A d \in Deletion :
            deletion'[d] = deletion[d] \/ \E a \in targets : deletion'[d] = NewDeletion(a, asked[a])
      BY <2>3, DeleteAllEffect
    <3>6. \A d \in Deletion : deletion'[d] \in DeletionRecord
      <4> HIDE DEF NewDeletion, DeletionRecord
      <4> SUFFICES ASSUME NEW d \in Deletion PROVE deletion'[d] \in DeletionRecord
        OBVIOUS
      <4>1. CASE deletion'[d] = deletion[d]
        BY <4>1
      <4>2. CASE \E a \in targets : deletion'[d] = NewDeletion(a, asked[a])
        BY <4>2, <3>1
      <4> QED
        BY <3>4, <4>1, <4>2
    <3>2. deletion' \in [Deletion -> DeletionRecord]
      BY <2>3, <3>6, DeleteAllEffect
    <3>3. appStore' \in [Name -> App \cup {NoApp}]
      BY <2>3 DEF DeleteAll, RemovedFromStore
    <3>5. instance' \in [App -> [Service -> {"none", "live", "late", "deleting", "gone"}]]
      BY <2>3 DEF DeleteAll
    <3> QED
      BY <2>3, <3>2, <3>3, <3>5 DEF DeleteAll
  <2>4. ASSUME NEW d \in Deletion, NEW s \in Service, ServiceDeleted(d, s) PROVE TypeOK'
    BY <2>4 DEF ServiceDeleted, DeletionRecord
  <2>5. ASSUME NEW d \in Deletion, NEW s \in Service, ServiceDeleteFails(d, s) PROVE TypeOK'
    <3>1. deletion[d] \in DeletionRecord
      OBVIOUS
    <3>2. [deletion[d] EXCEPT !.waiting = @ \ {s}, !.status = "rejected"] \in DeletionRecord
      BY <3>1 DEF DeletionRecord
    <3>3. deletion' = [deletion EXCEPT ![d] = [deletion[d] EXCEPT !.waiting = @ \ {s}, !.status = "rejected"]]
      BY <2>5 DEF ServiceDeleteFails
    <3>4. deletion' \in [Deletion -> DeletionRecord]
      <4> HIDE DEF DeletionRecord
      <4> QED
        BY <3>2, <3>3
    <3> QED
      BY <2>5, <3>4 DEF ServiceDeleteFails
  <2>6. ASSUME NEW d \in Deletion, DeletionEnds(d) PROVE TypeOK'
    BY <2>6 DEF DeletionEnds, DeletionRecord
  <2>7. CASE UNCHANGED vars
    BY <2>7 DEF vars
  <2> QED
    BY <2>1, <2>2, <2>3, <2>4, <2>5, <2>6, <2>7, DeletesAreDeleteAll
       DEF Next, DeletionStep, DeleteStep
<1> QED
  BY <1>1, <1>2, PTL DEF Spec
-----------------------------------------------------------------------------
(***************************************************************************)
(* The store.                                                              *)
(***************************************************************************)
\* Deletions run on apps that exist, and only they make an app deleted.
DeletedAppsExist ==
  /\ \A a \in App : Deletions(a) # {} => Created(a)
  /\ \A a \in App : isDeleted_[a] => Deletions(a) # {}
  /\ \A d \in Deletion : /\ deletion[d].status = "unused" <=> deletion[d].app = NoApp
                         /\ deletion[d].status = "unused" => deletion[d].waiting = {}

StoreInv == DeletedAppsExist /\ RegisteredAppIsUsable

LEMMA StoreStep == TypeOK /\ StoreInv /\ [Next]_vars => StoreInv'
<1> SUFFICES ASSUME TypeOK, StoreInv, [Next]_vars PROVE StoreInv'
  OBVIOUS
<1> USE ConstantsAssumption DEF TypeOK, StoreInv, DeletedAppsExist, RegisteredAppIsUsable,
        Deletions, Created, App
<1>1. ASSUME NEW n \in Name, initializeApp(n) PROVE StoreInv'
  BY <1>1 DEF initializeApp, NameFree
<1>2. ASSUME NEW a \in App, NEW s \in Service, getOrInitService(a, s) PROVE StoreInv'
  BY <1>2 DEF getOrInitService
<1>3. ASSUME NEW targets \in SUBSET App, NEW asked \in [targets -> App], DeleteAll(targets, asked)
      PROVE  StoreInv'
  <2>1. /\ \A a \in targets : name_[a] # NoName /\ ~isDeleted_[a]
        /\ name_' = name_ /\ isDeleted_' = isDeleted_
        /\ \A n \in Name : appStore'[n] = IF \E a \in targets : name_[a] = n THEN NoApp ELSE appStore[n]
    BY <1>3 DEF DeleteAll, RemovedFromStore, Usable
  <2>2. \A d \in Deletion :
          \/ deletion'[d] = deletion[d]
          \/ /\ deletion[d].status = "unused"
             /\ deletion'[d].status = "waiting"
             /\ deletion'[d].app \in targets
    <3>1. \A a \in targets : /\ NewDeletion(a, asked[a]).status = "waiting"
                             /\ NewDeletion(a, asked[a]).app = a
      BY DEF NewDeletion
    <3>2. \A d \in Deletion :
            \/ deletion'[d] = deletion[d]
            \/ /\ deletion[d].status = "unused"
               /\ \E a \in targets : deletion'[d] = NewDeletion(a, asked[a])
      BY <1>3, DeleteAllEffect
    <3> QED
      BY <3>1, <3>2
  <2>3. \A a \in App : a \notin targets => Deletions(a)' = Deletions(a)
    <3>1. ASSUME NEW a \in App, a \notin targets, NEW d \in Deletion
          PROVE  deletion'[d].app = a <=> deletion[d].app = a
      BY <2>2, <3>1
    <3> QED
      BY <3>1
  <2>4. \A a \in App : Deletions(a) \subseteq Deletions(a)'
    <3>1. \A d \in Deletion : deletion[d].app \in App => deletion'[d].app = deletion[d].app
      BY <2>2
    <3> QED
      BY <3>1
  <2>5. DeletedAppsExist'
    <3>1. \A a \in App : Deletions(a)' # {} => name_[a] # NoName
      BY <2>1, <2>3
    <3>2. \A a \in App : isDeleted_'[a] => Deletions(a)' # {}
      BY <2>1, <2>4
    <3>3. \A a \in targets : a # NoApp
      BY DEF App
    <3>4. ASSUME NEW d \in Deletion
          PROVE  /\ deletion'[d].status = "unused" <=> deletion'[d].app = NoApp
                 /\ deletion'[d].status = "unused" => deletion'[d].waiting = {}
      <4>1. CASE deletion'[d] = deletion[d]
        BY <4>1
      <4>2. CASE deletion'[d].status = "waiting" /\ deletion'[d].app \in targets
        BY <4>2, <3>3
      <4> QED
        BY <2>2, <4>1, <4>2
    <3> QED
      BY <2>1, <3>1, <3>2, <3>4
  <2>6. ASSUME NEW n \in Name, appStore'[n] # NoApp
        PROVE  appStore'[n] = appStore[n] /\ appStore[n] \notin targets /\ appStore[n] \in App
    BY <2>1, <2>6
  <2>7. RegisteredAppIsUsable'
    <3> HIDE DEF Deletions
    <3> QED
      BY <2>1, <2>3, <2>6
  <2> QED
    BY <2>5, <2>7
<1>4. ASSUME NEW d \in Deletion, NEW s \in Service, ServiceDeleted(d, s) PROVE StoreInv'
  <2>1. deletion[d] \in DeletionRecord
    OBVIOUS
  <2>2. /\ \A e \in Deletion : /\ deletion'[e].app = deletion[e].app
                               /\ deletion'[e].status = deletion[e].status
                               /\ deletion'[e].waiting \subseteq deletion[e].waiting
        /\ UNCHANGED <<appStore, name_, isDeleted_>>
    BY <1>4, <2>1 DEF ServiceDeleted, DeletionRecord
  <2>3. \A a \in App : Deletions(a)' = Deletions(a)
    BY <2>2
  <2> HIDE DEF Deletions
  <2> QED
    BY <2>2, <2>3
<1>5. ASSUME NEW d \in Deletion, NEW s \in Service, ServiceDeleteFails(d, s) PROVE StoreInv'
  <2>1. deletion[d] \in DeletionRecord /\ deletion[d].status # "unused"
    BY <1>5 DEF ServiceDeleteFails
  <2>2. /\ \A e \in Deletion : deletion'[e].app = deletion[e].app
        /\ deletion'[d].status # "unused"
        /\ \A e \in Deletion : e # d => deletion'[e] = deletion[e]
        /\ UNCHANGED <<appStore, name_, isDeleted_>>
    BY <1>5, <2>1 DEF ServiceDeleteFails, DeletionRecord
  <2>3. \A a \in App : Deletions(a)' = Deletions(a)
    BY <2>2
  <2> HIDE DEF Deletions
  <2>4. DeletedAppsExist'
    BY <2>1, <2>2, <2>3
  <2>5. RegisteredAppIsUsable'
    BY <2>2, <2>3
  <2> QED
    BY <2>4, <2>5
<1>6. ASSUME NEW d \in Deletion, DeletionEnds(d) PROVE StoreInv'
  <2>1. deletion[d] \in DeletionRecord /\ deletion[d].app \in App
    BY <1>6 DEF DeletionEnds, DeletionRecord
  <2>2. /\ deletion' = [deletion EXCEPT ![d].status = "done"]
        /\ isDeleted_' = [isDeleted_ EXCEPT ![deletion[d].app] = TRUE]
        /\ appStore' = appStore /\ name_' = name_
    BY <1>6 DEF DeletionEnds
  <2>3. \A a \in App : Deletions(a)' = Deletions(a)
    BY <2>1, <2>2
  <2>4. d \in Deletions(deletion[d].app) /\ deletion[d].status # "unused"
    BY <1>6, <2>1 DEF DeletionEnds
  <2>5. DeletedAppsExist'
    BY <2>1, <2>2, <2>3, <2>4
  <2> QED
    BY <2>2, <2>3, <2>4, <2>5
<1>7. CASE UNCHANGED vars
  BY <1>7 DEF vars
<1> QED
  BY <1>1, <1>2, <1>3, <1>4, <1>5, <1>6, <1>7, DeletesAreDeleteAll
     DEF Next, DeletionStep, DeleteStep

\* The invariant of the store, in every state.
LEMMA StoreInvHolds == Spec => [](TypeOK /\ StoreInv)
<1>1. Init => StoreInv
  BY ConstantsAssumption DEF Init, StoreInv, DeletedAppsExist, RegisteredAppIsUsable, Deletions,
                             Created, NoDeletion, App
<1> QED
  BY <1>1, TypeCorrect, StoreStep, PTL DEF Spec

\* The store never holds an app that is deleted or being deleted.
THEOREM StoreHoldsUsableApps == Spec => []RegisteredAppIsUsable
<1>1. StoreInv => RegisteredAppIsUsable
  BY DEF StoreInv
<1> QED
  BY <1>1, StoreInvHolds, PTL

\* Apps are created in the order of their numbers, and the store holds the last
\* one created under each name.
LatestStored ==
  /\ \A a, b \in App : b < a /\ Created(a) => Created(b)
  /\ \A n \in Name, b \in App : appStore[n] # NoApp /\ name_[b] = n => b <= appStore[n]

\* A step that leaves the names and the store alone and takes no deletion away
\* takes no app out of the store.
LEMMA LeaveKept ==
  ASSUME TypeOK, AppsLeaveForCause, LatestStored, UNCHANGED <<appStore, name_>>,
         \A d \in Deletion : deletion'[d].app = deletion[d].app
  PROVE  AppsLeaveForCause' /\ LatestStored'
<1>1. \A a \in App : Deletions(a)' = Deletions(a)
  BY DEF Deletions
<1> QED
  BY <1>1 DEF AppsLeaveForCause, LatestStored, Created, InStore

LEMMA LeaveStep ==
  TypeOK /\ StoreInv /\ AppsLeaveForCause /\ LatestStored /\ [Next]_vars
    => AppsLeaveForCause' /\ LatestStored'
<1> SUFFICES ASSUME TypeOK, StoreInv, AppsLeaveForCause, LatestStored, [Next]_vars
             PROVE  AppsLeaveForCause' /\ LatestStored'
  OBVIOUS
<1>a. \A a \in App : a \in Nat /\ a # NoApp
  BY ConstantsAssumption DEF App
<1>1. ASSUME NEW n \in Name, initializeApp(n) PROVE AppsLeaveForCause' /\ LatestStored'
  <2>1. PICK c \in App : /\ ~Created(c)
                         /\ \A b \in App : b < c => Created(b)
                         /\ name_' = [name_ EXCEPT ![c] = n]
                         /\ appStore' = [appStore EXCEPT ![n] = c]
    BY <1>1 DEF initializeApp
  <2>2. appStore[n] = NoApp /\ deletion' = deletion
    BY <1>1 DEF initializeApp, NameFree
  <2>3. \A a \in App : Created(a) => a < c
    BY <1>a, <2>1 DEF LatestStored
  <2>4. n # NoName
    BY ConstantsAssumption
  <2>5. \A a \in App : /\ Created(a)' <=> Created(a) \/ a = c
                       /\ a # c => name_'[a] = name_[a]
    BY <2>1, <2>4 DEF Created, TypeOK
  <2>6. LatestStored'
    <3>1. ASSUME NEW a \in App, NEW b \in App, b < a, Created(a)' PROVE Created(b)'
      BY <2>1, <2>5, <3>1 DEF LatestStored
    <3>2. ASSUME NEW m \in Name, NEW b \in App, appStore'[m] # NoApp, name_'[b] = m
          PROVE  b <= appStore'[m]
      <4>1. CASE m = n
        <5>1. appStore'[m] = c
          BY <2>1, <4>1 DEF TypeOK
        <5>2. Created(b)'
          BY <3>2, ConstantsAssumption DEF Created
        <5> QED
          BY <1>a, <2>3, <2>5, <5>1, <5>2
      <4>2. CASE m # n
        <5>1. b # c
          BY <2>1, <3>2, <4>2 DEF TypeOK
        <5>2. appStore'[m] = appStore[m] /\ name_'[b] = name_[b]
          BY <2>1, <2>5, <4>2, <5>1 DEF TypeOK
        <5> QED
          BY <3>2, <5>2 DEF LatestStored
      <4> QED
        BY <4>1, <4>2
    <3> QED
      BY <3>1, <3>2 DEF LatestStored
  <2>7. \A a \in App : Deletions(a)' = Deletions(a)
    BY <2>2 DEF Deletions
  <2>8. ASSUME NEW a \in App, Created(a)', ~InStore(a)', Deletions(a)' = {}
        PROVE  \E b \in App : /\ b < a /\ name_'[b] = name_'[a]
                              /\ \E d, e \in Deletions(b)' : d # e
    <3>1. a # c
      BY <2>1, <2>8 DEF InStore, TypeOK
    <3>2. ~InStore(a)
      BY <1>a, <2>1, <2>2, <2>8 DEF InStore, TypeOK
    <3>3. Created(a) /\ Deletions(a) = {}
      BY <2>5, <2>7, <2>8, <3>1
    <3>4. PICK b \in App : /\ b < a /\ name_[b] = name_[a]
                           /\ \E d, e \in Deletions(b) : d # e
      BY <3>2, <3>3 DEF AppsLeaveForCause
    <3>5. b # c
      BY <2>1, <3>3, <3>4 DEF Created
    <3> QED
      BY <2>5, <2>7, <3>1, <3>4, <3>5
  <2> QED
    BY <2>6, <2>8 DEF AppsLeaveForCause
<1>2. ASSUME NEW a \in App, NEW s \in Service, getOrInitService(a, s)
      PROVE  AppsLeaveForCause' /\ LatestStored'
  BY <1>2, LeaveKept DEF getOrInitService
<1>3. ASSUME NEW targets \in SUBSET App, NEW asked \in [targets -> App], DeleteAll(targets, asked)
      PROVE  AppsLeaveForCause' /\ LatestStored'
  <2>1. /\ \A a \in targets : Created(a)
        /\ name_' = name_
        /\ \A n \in Name : appStore'[n] = IF \E a \in targets : name_[a] = n THEN NoApp ELSE appStore[n]
    BY <1>3 DEF DeleteAll, RemovedFromStore, Usable
  <2>2. LatestStored'
    BY <2>1 DEF LatestStored, Created
  <2>3. \A a \in App : Deletions(a) \subseteq Deletions(a)'
    <3>1. ASSUME NEW d \in Deletion, deletion[d].app # NoApp PROVE deletion'[d] = deletion[d]
      BY <1>3, <3>1, DeleteAllEffect DEF StoreInv, DeletedAppsExist
    <3> QED
      BY <1>a, <3>1 DEF Deletions
  <2>4. \A a \in targets : \E d \in Deletion : d \notin Deletions(a) /\ d \in Deletions(a)'
    <3> SUFFICES ASSUME NEW a \in targets
                 PROVE  \E d \in Deletion : d \notin Deletions(a) /\ d \in Deletions(a)'
      OBVIOUS
    <3>1. PICK d \in Deletion : deletion[d].status = "unused" /\ deletion'[d] = NewDeletion(a, asked[a])
      BY <1>3, DeleteAllEffect
    <3>2. deletion[d].app = NoApp
      BY <3>1 DEF StoreInv, DeletedAppsExist
    <3>3. deletion'[d].app = a
      BY <3>1 DEF NewDeletion
    <3> QED
      BY <1>a, <3>2, <3>3 DEF Deletions
  <2>5. ASSUME NEW a \in App, Created(a), ~InStore(a)', Deletions(a)' = {}
        PROVE  \E b \in App : /\ b < a /\ name_[b] = name_[a]
                              /\ \E d, e \in Deletions(b)' : d # e
    <3>1. Deletions(a) = {}
      BY <2>3, <2>5
    <3>2. CASE ~InStore(a)
      <4>1. PICK b \in App : /\ b < a /\ name_[b] = name_[a]
                             /\ \E d, e \in Deletions(b) : d # e
        BY <2>5, <3>1, <3>2 DEF AppsLeaveForCause
      <4> QED
        BY <2>3, <4>1
    <3>3. CASE InStore(a)
      <4>1. PICK n \in Name : appStore[n] = a
        BY <3>3 DEF InStore
      <4>2. name_[a] = n
        BY <1>a, <4>1 DEF StoreInv, RegisteredAppIsUsable
      <4>3. PICK t \in targets : name_[t] = n
        BY <1>a, <2>1, <2>5, <4>1 DEF InStore
      <4>4. t # a
        BY <2>4, <2>5
      <4>5. t < a
        BY <1>a, <4>1, <4>3, <4>4 DEF LatestStored
      <4>6. ~InStore(t)
        BY <1>a, <4>1, <4>3, <4>4 DEF InStore, StoreInv, RegisteredAppIsUsable
      <4>7. CASE Deletions(t) # {}
        <5>1. \E d, e \in Deletions(t)' : d # e
          BY <2>3, <2>4, <4>7
        <5> QED
          BY <4>2, <4>3, <4>5, <5>1
      <4>8. CASE Deletions(t) = {}
        <5>1. PICK b \in App : /\ b < t /\ name_[b] = name_[t]
                               /\ \E d, e \in Deletions(b) : d # e
          BY <2>1, <4>6, <4>8 DEF AppsLeaveForCause
        <5>2. b < a
          BY <1>a, <4>5, <5>1
        <5> QED
          BY <2>3, <4>2, <4>3, <5>1, <5>2
      <4> QED
        BY <4>7, <4>8
    <3> QED
      BY <3>2, <3>3
  <2> QED
    BY <2>1, <2>2, <2>5 DEF AppsLeaveForCause, Created
<1>4. ASSUME NEW d \in Deletion, DeletionStep(d) PROVE AppsLeaveForCause' /\ LatestStored'
  <2>1. UNCHANGED <<appStore, name_>>
    BY <1>4 DEF DeletionStep, ServiceDeleted, ServiceDeleteFails, DeletionEnds
  <2>2. deletion[d] \in DeletionRecord
    BY DEF TypeOK
  <2>3. \A e \in Deletion : deletion'[e].app = deletion[e].app
    <3>1. DOMAIN deletion = Deletion /\ {"app", "waiting", "status"} \subseteq DOMAIN deletion[d]
      BY <2>2 DEF TypeOK, DeletionRecord
    <3>2. CASE \E s \in Service : ServiceDeleted(d, s)
      BY <3>1, <3>2 DEF ServiceDeleted
    <3>3. CASE \E s \in Service : ServiceDeleteFails(d, s)
      BY <3>1, <3>3 DEF ServiceDeleteFails
    <3>4. CASE DeletionEnds(d)
      BY <3>1, <3>4 DEF DeletionEnds
    <3> QED
      BY <1>4, <3>2, <3>3, <3>4 DEF DeletionStep
  <2> QED
    BY <2>1, <2>3, LeaveKept
<1>5. CASE UNCHANGED vars
  BY <1>5, LeaveKept DEF vars
<1> QED
  BY <1>1, <1>2, <1>3, <1>4, <1>5, DeletesAreDeleteAll DEF Next, DeleteStep

\* An app becomes unreachable only by its own deletion, or by the second
\* deletion of an older app of its name.
THEOREM LeftForCause == Spec => []AppsLeaveForCause
<1>1. Init => AppsLeaveForCause /\ LatestStored
  BY ConstantsAssumption DEF Init, AppsLeaveForCause, LatestStored, Created
<1> QED
  BY <1>1, StoreInvHolds, LeaveStep, PTL DEF Spec

-----------------------------------------------------------------------------
(***************************************************************************)
(* AppLifecycle implements AppLife.                                        *)
(***************************************************************************)
\* A step that leaves the store, the names and the marks alone is a stutter.
LEMMA LifeStutter ==
  ASSUME UNCHANGED <<appStore, name_, isDeleted_>>
  PROVE  UNCHANGED <<lifeStatus, name_>>
BY DEF lifeStatus, InStore, Created

\* Every step is a step of AppLife or a stutter.
LEMMA LifeStep ==
  TypeOK /\ StoreInv /\ [Next]_vars => [Life!Next]_<<lifeStatus, name_>>
<1> SUFFICES ASSUME TypeOK, StoreInv, [Next]_vars
             PROVE  Life!Next \/ UNCHANGED <<lifeStatus, name_>>
  OBVIOUS
<1> USE DEF TypeOK, StoreInv
<1>1. ASSUME NEW n \in Name, initializeApp(n) PROVE Life!Next
  <2>1. PICK a \in App : /\ ~Created(a)
                         /\ name_' = [name_ EXCEPT ![a] = n]
                         /\ appStore' = [appStore EXCEPT ![n] = a]
    BY <1>1 DEF initializeApp
  <2>2. appStore[n] = NoApp /\ isDeleted_' = isDeleted_
    BY <1>1 DEF initializeApp, NameFree
  <2>3. \A b \in App : InStore(b) => Created(b) /\ name_[b] # n /\ b # a
    BY <2>1, <2>2, ConstantsAssumption DEF InStore, RegisteredAppIsUsable, Created, App
  <2>4. \A b \in App : b # a => (InStore(b)' <=> InStore(b)) /\ (Created(b)' <=> Created(b))
    BY <2>1, <2>2, ConstantsAssumption DEF InStore, Created, App
  <2>5. InStore(a)' /\ ~InStore(a) /\ ~isDeleted_[a]
    BY <2>1, <2>3 DEF InStore, DeletedAppsExist
  <2>6. lifeStatus[a] = "none" /\ lifeStatus' = [lifeStatus EXCEPT ![a] = "registered"]
    BY <2>1, <2>2, <2>4, <2>5 DEF lifeStatus
  <2>7. Life!Registered(n) = {}
    BY <2>3 DEF Life!Registered, lifeStatus
  <2> QED
    BY <2>1, <2>6, <2>7 DEF Life!Next, Life!Register
<1>2. ASSUME NEW a \in App, NEW s \in Service, getOrInitService(a, s)
      PROVE  UNCHANGED <<lifeStatus, name_>>
  BY <1>2, LifeStutter DEF getOrInitService
<1>3. ASSUME NEW targets \in SUBSET App, NEW asked \in [targets -> App], DeleteAll(targets, asked)
      PROVE  Life!Next
  <2> DEFINE leaving == {a \in App : InStore(a) /\ ~InStore(a)'}
  <2>1. /\ name_' = name_ /\ isDeleted_' = isDeleted_
        /\ \A n \in Name : appStore'[n] = NoApp \/ appStore'[n] = appStore[n]
    BY <1>3 DEF DeleteAll, RemovedFromStore
  <2>2. \A a \in App : InStore(a)' => InStore(a)
    BY <2>1, ConstantsAssumption DEF InStore, App
  <2>3. \A a \in App : InStore(a) => Created(a) /\ ~isDeleted_[a]
    BY ConstantsAssumption DEF InStore, RegisteredAppIsUsable, Created, App
  <2>4. \A a \in leaving : lifeStatus[a] = "registered"
    BY DEF lifeStatus
  <2>5. lifeStatus' = [a \in App |-> IF a \in leaving THEN "closing" ELSE lifeStatus[a]]
    <3>1. ASSUME NEW a \in App
          PROVE  lifeStatus'[a] = IF a \in leaving THEN "closing" ELSE lifeStatus[a]
      <4>1. Created(a)' <=> Created(a)
        BY <2>1 DEF Created
      <4> QED
        BY <2>1, <2>2, <2>3, <4>1 DEF lifeStatus
    <3> QED
      BY <3>1 DEF lifeStatus
  <2> HIDE DEF leaving
  <2>6. Life!Close(leaving)
    BY <2>1, <2>4, <2>5 DEF Life!Close
  <2>7. leaving \in SUBSET App
    BY DEF leaving
  <2> QED
    BY <2>6, <2>7 DEF Life!Next
<1>4. ASSUME NEW d \in Deletion, NEW s \in Service, ServiceDeleted(d, s) \/ ServiceDeleteFails(d, s)
      PROVE  UNCHANGED <<lifeStatus, name_>>
  BY <1>4, LifeStutter DEF ServiceDeleted, ServiceDeleteFails
<1>5. ASSUME NEW d \in Deletion, DeletionEnds(d)
      PROVE  Life!Next \/ UNCHANGED <<lifeStatus, name_>>
  <2> DEFINE a == deletion[d].app
  <2>1. a \in App /\ d \in Deletions(a)
    BY <1>5 DEF DeletionEnds, DeletionRecord, DeletedAppsExist, Deletions
  <2>2. ~InStore(a) /\ Created(a)
    BY <2>1, ConstantsAssumption DEF InStore, RegisteredAppIsUsable, DeletedAppsExist, App
  <2>3. /\ UNCHANGED <<appStore, name_>>
        /\ isDeleted_' = [isDeleted_ EXCEPT ![a] = TRUE]
    BY <1>5 DEF DeletionEnds
  <2>4. \A b \in App : (InStore(b)' <=> InStore(b)) /\ (Created(b)' <=> Created(b))
    BY <2>3 DEF InStore, Created
  <2>5. CASE isDeleted_[a]
    <3>1. isDeleted_' = isDeleted_
      BY <2>1, <2>3, <2>5
    <3> QED
      BY <2>3, <3>1, LifeStutter
  <2>6. CASE ~isDeleted_[a]
    <3>1. lifeStatus[a] = "closing" /\ lifeStatus' = [lifeStatus EXCEPT ![a] = "closed"]
      BY <2>1, <2>2, <2>3, <2>4, <2>6 DEF lifeStatus
    <3> QED
      BY <2>1, <2>3, <3>1 DEF Life!Next, Life!Closed
  <2> QED
    BY <2>5, <2>6
<1>6. CASE UNCHANGED vars
  BY <1>6, LifeStutter DEF vars
<1> QED
  BY <1>1, <1>2, <1>3, <1>4, <1>5, <1>6, DeletesAreDeleteAll
     DEF Next, DeletionStep, DeleteStep

\* What callers see of creation and deletion is the life cycle of AppLife.
THEOREM Refinement == Spec => ImplementsAppLife
<1>1. Init => Life!Init
  BY ConstantsAssumption DEF Init, Life!Init, lifeStatus, InStore, Created, App
<1> QED
  BY <1>1, LifeStep, StoreInvHolds, PTL DEF Spec, ImplementsAppLife, Life!Spec
-----------------------------------------------------------------------------
(***************************************************************************)
(* As long as no app is deleted twice, an app whose deletion has not begun *)
(* is in the store, so its name leads to it.                               *)
(***************************************************************************)
\* Deletions keep their apps, and used ones stay used.
LEMMA DeletionsKept ==
  ASSUME TypeOK, [Next]_vars
  PROVE  \A d \in Deletion : deletion[d].status # "unused" =>
           /\ deletion'[d].status # "unused"
           /\ deletion'[d].app = deletion[d].app /\ deletion'[d].asked = deletion[d].asked
<1> DEFINE Kept == \A d \in Deletion : deletion[d].status # "unused" =>
                     /\ deletion'[d].status # "unused"
                     /\ deletion'[d].app = deletion[d].app /\ deletion'[d].asked = deletion[d].asked
<1>1. \A d \in Deletion : deletion[d] \in DeletionRecord
  BY DEF TypeOK
<1>2. CASE (\E n \in Name : initializeApp(n)) \/ (\E a \in App, s \in Service : getOrInitService(a, s))
           \/ UNCHANGED vars
  BY <1>2 DEF initializeApp, getOrInitService, vars
<1>3. ASSUME NEW targets \in SUBSET App, NEW asked \in [targets -> App], DeleteAll(targets, asked)
      PROVE  Kept
  <2>1. \A d \in Deletion : deletion[d].status # "unused" => deletion'[d] = deletion[d]
    BY <1>3, DeleteAllEffect
  <2> QED
    BY <2>1
<1>4. ASSUME NEW e \in Deletion, NEW s \in Service, ServiceDeleted(e, s) PROVE Kept
  BY <1>1, <1>4 DEF ServiceDeleted, DeletionRecord, TypeOK
<1>5. ASSUME NEW e \in Deletion, NEW s \in Service, ServiceDeleteFails(e, s) PROVE Kept
  BY <1>1, <1>5 DEF ServiceDeleteFails, DeletionRecord, TypeOK
<1>6. ASSUME NEW e \in Deletion, DeletionEnds(e) PROVE Kept
  BY <1>1, <1>6 DEF DeletionEnds, DeletionRecord, TypeOK
<1> QED
  BY <1>2, <1>3, <1>4, <1>5, <1>6, DeletesAreDeleteAll DEF Next, DeletionStep, DeleteStep

\* Every step keeps the store and the deletions in agreement.
LEMMA AskedStep ==
  TypeOK /\ StoreInv /\ LeavesStoreOnlyWhenDeleted /\ OnceDeletesTheAppAsked /\ [Next]_vars
    => LeavesStoreOnlyWhenDeleted' /\ OnceDeletesTheAppAsked'
<1> SUFFICES ASSUME TypeOK, StoreInv, LeavesStoreOnlyWhenDeleted, OnceDeletesTheAppAsked,
                    [Next]_vars, DeletedOnce'
             PROVE  LeavesStoreOnlyWhenDeleted' /\ OnceDeletesTheAppAsked'
  BY DEF LeavesStoreOnlyWhenDeleted, OnceDeletesTheAppAsked
<1>a. DeletedOnce
  <2>1. ASSUME NEW d \in Deletion, NEW e \in Deletion, d # e,
               deletion[d].status # "unused", deletion[e].status # "unused"
        PROVE  {deletion[d].app, deletion[d].asked} \cap {deletion[e].app, deletion[e].asked} = {}
    BY <2>1, DeletionsKept DEF DeletedOnce
  <2> QED
    BY <2>1 DEF DeletedOnce
<1>b. DeletesTheAppAsked
  BY <1>a DEF OnceDeletesTheAppAsked
\* A deletion that starts on app, or is asked to, is the first one there.
<1>c. ASSUME NEW targets \in SUBSET App, NEW asked, DeleteAll(targets, asked),
             NEW a \in App, NEW c \in targets, a = c \/ a = asked[c]
      PROVE  Deletions(a) = {}
  <2>1. PICK d \in Deletion : deletion[d].status = "unused" /\ deletion'[d] = NewDeletion(c, asked[c])
    BY <1>c, DeleteAllEffect
  <2>2. deletion'[d].status # "unused" /\ a \in {deletion'[d].app, deletion'[d].asked}
    BY <1>c, <2>1 DEF NewDeletion
  <2>3. SUFFICES ASSUME NEW e \in Deletion, deletion[e].app = a PROVE FALSE
    BY DEF Deletions
  <2>4. deletion[e].status # "unused"
    BY <2>3, ConstantsAssumption DEF StoreInv, DeletedAppsExist, App
  <2>5. deletion'[e].status # "unused" /\ deletion'[e].app = a /\ d # e
    BY <2>1, <2>3, <2>4, DeletionsKept
  <2> QED
    BY <2>2, <2>5 DEF DeletedOnce
<1> USE <1>a, <1>b DEF TypeOK, StoreInv, OnceDeletesTheAppAsked
<1>1. ASSUME NEW a \in App, Created(a), Deletions(a) = {} PROVE appStore[name_[a]] = a
  <2>1. PICK n \in Name : appStore[n] = a
    BY <1>1 DEF LeavesStoreOnlyWhenDeleted, InStore
  <2>2. a # NoApp
    BY ConstantsAssumption DEF App
  <2>3. name_[appStore[n]] = n
    BY <2>1, <2>2 DEF RegisteredAppIsUsable
  <2> QED
    BY <2>1, <2>3
<1>2. ASSUME NEW n \in Name, initializeApp(n)
      PROVE  LeavesStoreOnlyWhenDeleted' /\ OnceDeletesTheAppAsked'
  <2>1. PICK a \in App : /\ name_' = [name_ EXCEPT ![a] = n]
                         /\ appStore' = [appStore EXCEPT ![n] = a]
    BY <1>2 DEF initializeApp
  <2>2. appStore[n] = NoApp /\ deletion' = deletion
    BY <1>2 DEF initializeApp, NameFree
  <2>3. \A b \in App : Deletions(b)' = Deletions(b)
    BY <2>2 DEF Deletions
  <2>4. \A b \in App : InStore(b) => InStore(b)'
    BY <2>1, <2>2, ConstantsAssumption DEF InStore, App
  <2>5. InStore(a)' /\ \A b \in App : b # a => (Created(b)' <=> Created(b))
    BY <2>1 DEF InStore, Created
  <2> HIDE DEF TypeOK
  <2> QED
    BY <2>2, <2>3, <2>4, <2>5 DEF LeavesStoreOnlyWhenDeleted, DeletesTheAppAsked
<1>3. ASSUME NEW targets \in SUBSET App, NEW asked, DeleteAll(targets, asked),
             \A a \in targets : asked[a] = a
      PROVE  LeavesStoreOnlyWhenDeleted' /\ OnceDeletesTheAppAsked'
  <2>1. /\ \A a \in targets : Created(a) /\ Deletions(a) = {}
        /\ name_' = name_
        /\ \A n \in Name : appStore'[n] = IF \E a \in targets : name_[a] = n THEN NoApp ELSE appStore[n]
    <3>1. \A a \in targets : Deletions(a) = {}
      BY <1>3, <1>c
    <3> HIDE DEF Deletions
    <3> QED
      BY <1>3, <3>1 DEF DeleteAll, RemovedFromStore, Usable
  <2>2. ASSUME NEW a \in App, InStore(a), a \notin targets PROVE InStore(a)'
    <3>1. PICK n \in Name : appStore[n] = a
      BY <2>2 DEF InStore
    <3>2. \A b \in targets : name_[b] # n
      BY <1>1, <2>1, <2>2, <3>1
    <3> QED
      BY <2>1, <3>1, <3>2 DEF InStore
  <2>3. ASSUME NEW a \in targets PROVE Deletions(a)' # {}
    <3>1. \A b \in targets : \E d \in Deletion :
            deletion[d].status = "unused" /\ deletion'[d] = NewDeletion(b, asked[b])
      BY ONLY <1>3, DeleteAllEffect
    <3>2. PICK d \in Deletion : deletion'[d] = NewDeletion(a, asked[a])
      BY <2>3, <3>1, Zenon
    <3> QED
      BY <3>2 DEF Deletions, NewDeletion
  <2>4. ASSUME NEW a \in App, Deletions(a) # {} PROVE Deletions(a)' # {}
    <3>1. PICK d \in Deletion : deletion[d].app = a
      BY <2>4 DEF Deletions
    <3>2. deletion[d].status # "unused"
      BY <3>1, ConstantsAssumption DEF DeletedAppsExist, App
    <3>3. deletion'[d] = deletion[d]
      BY <1>3, <3>2, DeleteAllEffect
    <3> QED
      BY <3>1, <3>3 DEF Deletions
  <2>5. LeavesStoreOnlyWhenDeleted'
    <3>1. ASSUME NEW a \in App, Created(a)', ~InStore(a)' PROVE Deletions(a)' # {}
      <4>1. Created(a)
        BY <2>1, <3>1 DEF Created
      <4> QED
        BY <2>2, <2>3, <2>4, <3>1, <4>1 DEF LeavesStoreOnlyWhenDeleted
    <3> QED
      BY <3>1 DEF LeavesStoreOnlyWhenDeleted
  <2>6. DeletesTheAppAsked'
    <3>1. ASSUME NEW d \in Deletion PROVE deletion'[d].asked = deletion'[d].app
      <4>1. CASE deletion'[d] = deletion[d]
        BY <4>1 DEF DeletesTheAppAsked
      <4>2. CASE \E a \in targets : deletion'[d] = NewDeletion(a, asked[a])
        BY <4>2, <1>3 DEF NewDeletion
      <4> QED
        BY <1>3, <4>1, <4>2, DeleteAllEffect
    <3> QED
      BY <3>1 DEF DeletesTheAppAsked
  <2> QED
    BY <2>5, <2>6
<1>4. ASSUME NEW a \in App, delete(a) \/ deleteApp(a)
      PROVE  LeavesStoreOnlyWhenDeleted' /\ OnceDeletesTheAppAsked'
  <2>1. CASE delete(a)
    BY <1>3, <2>1 DEF delete
  <2>2. CASE deleteApp(a)
    <3> DEFINE b == appStore[name_[a]]
    <3>0. b \in App /\ DeleteAll({b}, [x \in {b} |-> a])
      BY <2>2, ConstantsAssumption DEF deleteApp, Usable, Created
    <3>3. b \in {b} /\ {b} \in SUBSET App /\ [x \in {b} |-> a][b] = a
      BY <3>0
    <3> HIDE DEF b
    <3>2. Deletions(a) = {}
      BY <3>0, <3>3, <1>c
    <3> USE DEF b
    <3>1. b = a
      BY <1>1, <2>2, <3>2 DEF deleteApp, Usable
    <3> QED
      BY <1>3, <2>2, <3>1 DEF deleteApp
  <2> QED
    BY <1>4, <2>1, <2>2
<1>5. CASE clearAllApps
  BY <1>3, <1>5 DEF clearAllApps
<1>6. CASE \/ \E a \in App, s \in Service : getOrInitService(a, s)
           \/ \E d \in Deletion : DeletionStep(d)
           \/ UNCHANGED vars
  <2>1. UNCHANGED <<appStore, name_>>
    BY <1>6 DEF getOrInitService, DeletionStep, ServiceDeleted, ServiceDeleteFails, DeletionEnds, vars
  <2>2. \A d \in Deletion : deletion'[d].app = deletion[d].app /\ deletion'[d].asked = deletion[d].asked
    <3>1. \A d \in Deletion : deletion[d] \in DeletionRecord
      OBVIOUS
    <3>2. CASE \E a \in App, s \in Service : getOrInitService(a, s)
      BY <3>2 DEF getOrInitService
    <3>3. ASSUME NEW d \in Deletion, NEW s \in Service, ServiceDeleted(d, s)
          PROVE  \A e \in Deletion : deletion'[e].app = deletion[e].app /\ deletion'[e].asked = deletion[e].asked
      BY <3>1, <3>3 DEF ServiceDeleted, DeletionRecord
    <3>4. ASSUME NEW d \in Deletion, NEW s \in Service, ServiceDeleteFails(d, s)
          PROVE  \A e \in Deletion : deletion'[e].app = deletion[e].app /\ deletion'[e].asked = deletion[e].asked
      BY <3>1, <3>4 DEF ServiceDeleteFails, DeletionRecord
    <3>5. ASSUME NEW d \in Deletion, DeletionEnds(d)
          PROVE  \A e \in Deletion : deletion'[e].app = deletion[e].app /\ deletion'[e].asked = deletion[e].asked
      BY <3>1, <3>5 DEF DeletionEnds, DeletionRecord
    <3>6. CASE UNCHANGED vars
      BY <3>6 DEF vars
    <3> QED
      BY <1>6, <3>2, <3>3, <3>4, <3>5, <3>6 DEF DeletionStep
  <2>3. \A a \in App : Deletions(a)' = Deletions(a)
    BY <2>2 DEF Deletions
  <2> QED
    BY <2>1, <2>2, <2>3 DEF LeavesStoreOnlyWhenDeleted, DeletesTheAppAsked, InStore, Created
<1> QED
  BY <1>2, <1>4, <1>5, <1>6 DEF Next

\* As long as no app is deleted twice, apps leave the store only because they
\* are being deleted, and deleteApp(app) deletes app and no later holder of its
\* name.
THEOREM DeletesAsked == Spec => [](LeavesStoreOnlyWhenDeleted /\ OnceDeletesTheAppAsked)
<1>1. Init => LeavesStoreOnlyWhenDeleted /\ OnceDeletesTheAppAsked
  BY DEF Init, LeavesStoreOnlyWhenDeleted, OnceDeletesTheAppAsked, DeletesTheAppAsked, Created, NoDeletion
<1>2. TypeOK /\ StoreInv /\ LeavesStoreOnlyWhenDeleted /\ OnceDeletesTheAppAsked /\ [Next]_vars
        => LeavesStoreOnlyWhenDeleted' /\ OnceDeletesTheAppAsked'
  BY AskedStep
<1> QED
  BY <1>1, <1>2, StoreInvHolds, PTL DEF Spec
-----------------------------------------------------------------------------
(***************************************************************************)
(* The services that were made before the deletion of their app.  Every    *)
(* instance that is not gone is held by the app, and a pending deletion    *)
(* awaits each stateful one.                                               *)
(***************************************************************************)
HeldByApp ==
  \A a \in App : ~isDeleted_[a] => \A s \in Service :
    instance[a][s] \notin {"none", "gone", "late"} => s \in services_[a]

AwaitedByDeletion ==
  \A d \in Deletion : deletion[d].status = "waiting" =>
    \A s \in Stateful : instance[deletion[d].app][s] \notin {"none", "gone", "late"} => s \in deletion[d].waiting

ServicesInv == HeldByApp /\ AwaitedByDeletion /\ NoEarlyServiceOutlivesApp

LEMMA ServicesStep ==
  TypeOK /\ StoreInv /\ ServicesInv /\ [Next]_vars => ServicesInv'
<1> SUFFICES ASSUME TypeOK, StoreInv, ServicesInv, [Next]_vars PROVE ServicesInv'
  OBVIOUS
<1> USE ConstantsAssumption DEF TypeOK, ServicesInv, HeldByApp, AwaitedByDeletion, NoEarlyServiceOutlivesApp
<1>0. /\ \A d \in Deletion : deletion[d] \in DeletionRecord
      /\ \A d \in Deletion : deletion[d].status # "unused" => deletion[d].app \in App
  BY DEF StoreInv, DeletedAppsExist, DeletionRecord
<1>1. ASSUME NEW n \in Name, initializeApp(n) PROVE ServicesInv'
  BY <1>1 DEF initializeApp
<1>2. ASSUME NEW a \in App, NEW s \in Service, getOrInitService(a, s) PROVE ServicesInv'
  <2>1. /\ ~isDeleted_[a]
        /\ services_' = [services_ EXCEPT ![a] = services_[a] \cup {s}]
        /\ instance' = [instance EXCEPT ![a][s] = IF Deletions(a) = {} THEN "live" ELSE "late"]
        /\ isDeleted_' = isDeleted_ /\ deletion' = deletion
    BY <1>2 DEF getOrInitService, Usable
  <2>2. Deletions(a) = {} => \A d \in Deletion : deletion[d].app # a
    BY <2>1 DEF Deletions
  <2>3. \A b \in App : b # a => instance'[b] = instance[b] /\ services_'[b] = services_[b]
    BY <2>1
  <2>4. HeldByApp'
    BY <2>1, <2>3
  <2>5. AwaitedByDeletion'
    BY <1>0, <2>1, <2>2, <2>3
  <2>6. NoEarlyServiceOutlivesApp'
    BY <2>1, <2>3
  <2> QED
    BY <2>4, <2>5, <2>6
<1>3. ASSUME NEW targets \in SUBSET App, NEW asked \in [targets -> App], DeleteAll(targets, asked)
      PROVE  ServicesInv'
  <2>1. /\ \A a \in targets : ~isDeleted_[a]
        /\ UNCHANGED <<isDeleted_, services_>>
        /\ \A a \in App, s \in Service :
             instance'[a][s] = IF a \in targets /\ s \in services_[a] /\ instance[a][s] = "live"
                               THEN "deleting" ELSE instance[a][s]
    BY <1>3 DEF DeleteAll, Usable
  <2>0. \A a \in App, s \in Service :
          instance'[a][s] \notin {"none", "gone", "late"} => instance[a][s] \notin {"none", "gone", "late"}
    BY <2>1
  <2>2. HeldByApp'
    BY <2>1
  <2>3. NoEarlyServiceOutlivesApp'
    BY <2>1
  <2>4. ASSUME NEW d \in Deletion, deletion'[d].status = "waiting", NEW s \in Stateful,
               instance'[deletion'[d].app][s] \notin {"none", "gone", "late"}
        PROVE  s \in deletion'[d].waiting
    <3>1. CASE deletion'[d] = deletion[d]
      <4>1. deletion[d].status = "waiting" /\ instance'[deletion[d].app][s] \notin {"none", "gone", "late"}
        BY <2>4, <3>1
      <4>2. deletion[d].app \in App
        BY <1>0, <4>1
      <4>3. instance[deletion[d].app][s] \notin {"none", "gone", "late"}
        BY <2>0, <4>1, <4>2
      <4> QED
        BY <3>1, <4>1, <4>3
    <3>2. ASSUME NEW a \in targets, deletion'[d] = NewDeletion(a, asked[a])
          PROVE  s \in deletion'[d].waiting
      <4>1. deletion'[d].app = a /\ deletion'[d].waiting = services_[a] \cap Stateful
        BY <3>2 DEF NewDeletion
      <4>2. instance[a][s] \notin {"none", "gone", "late"}
        BY <2>0, <2>4, <4>1
      <4> QED
        BY <2>1, <4>1, <4>2
    <3> QED
      BY <1>3, <3>1, <3>2, DeleteAllEffect
  <2> QED
    BY <2>2, <2>3, <2>4
<1>4. ASSUME NEW d \in Deletion, NEW s \in Service, ServiceDeleted(d, s) PROVE ServicesInv'
  <2> DEFINE a == deletion[d].app
  <2>1. a \in App
    BY <1>0, <1>4 DEF ServiceDeleted, StoreInv, DeletedAppsExist
  <2>2. /\ UNCHANGED <<isDeleted_, services_>>
        /\ \A b \in App, t \in Service :
             instance'[b][t] = IF b = a /\ t = s THEN "gone" ELSE instance[b][t]
        /\ \A e \in Deletion : /\ deletion'[e].app = deletion[e].app
                               /\ deletion'[e].status = deletion[e].status
                               /\ deletion'[e].waiting = IF e = d THEN deletion[d].waiting \ {s}
                                                         ELSE deletion[e].waiting
    BY <1>0, <1>4, <2>1 DEF ServiceDeleted, DeletionRecord
  <2>3. HeldByApp' /\ NoEarlyServiceOutlivesApp'
    BY <2>2
  <2>4. ASSUME NEW e \in Deletion, deletion'[e].status = "waiting", NEW t \in Stateful,
               instance'[deletion'[e].app][t] \notin {"none", "gone", "late"}
        PROVE  t \in deletion'[e].waiting
    <3>1. deletion[e].app \in App /\ deletion[e].status = "waiting"
      BY <1>0, <2>2, <2>4
    <3>2. instance[deletion[e].app][t] \notin {"none", "gone", "late"}
      BY <2>2, <2>4, <3>1
    <3>3. t \in deletion[e].waiting
      BY <3>1, <3>2
    <3> QED
      BY <2>2, <2>4, <3>1, <3>3
  <2> QED
    BY <2>3, <2>4
<1>5. ASSUME NEW d \in Deletion, NEW s \in Service, ServiceDeleteFails(d, s) PROVE ServicesInv'
  <2>1. /\ UNCHANGED <<isDeleted_, services_, instance>>
        /\ \A e \in Deletion : e # d => deletion'[e] = deletion[e]
        /\ deletion'[d].status = "rejected"
    BY <1>0, <1>5 DEF ServiceDeleteFails, DeletionRecord
  <2> QED
    BY <2>1
<1>6. ASSUME NEW d \in Deletion, DeletionEnds(d) PROVE ServicesInv'
  <2> DEFINE a == deletion[d].app
  <2>1. a \in App
    BY <1>0, <1>6 DEF DeletionEnds
  <2>2. /\ instance' = instance
        /\ isDeleted_' = [isDeleted_ EXCEPT ![a] = TRUE]
        /\ services_' = [services_ EXCEPT ![a] = {}]
        /\ \A e \in Deletion : e # d => deletion'[e] = deletion[e]
        /\ deletion'[d].status = "done"
    BY <1>0, <1>6 DEF DeletionEnds, DeletionRecord
  <2>3. \A s \in Stateful : instance[a][s] \in {"none", "gone", "late"}
    BY <1>6 DEF DeletionEnds, AllAnswered
  <2> QED
    BY <2>1, <2>2, <2>3
<1>7. CASE UNCHANGED vars
  BY <1>7 DEF vars
<1> QED
  BY <1>1, <1>2, <1>3, <1>4, <1>5, <1>6, <1>7, DeletesAreDeleteAll
     DEF Next, DeletionStep, DeleteStep

\* A deleted app leaves no service behind that was made before its deletion
\* began, however its deletions overlap and fail.
THEOREM ServicesFreed == Spec => []NoEarlyServiceOutlivesApp
<1>1. Init => ServicesInv
  BY ConstantsAssumption
     DEF Init, ServicesInv, HeldByApp, AwaitedByDeletion, NoEarlyServiceOutlivesApp, NoDeletion
<1>2. ServicesInv => NoEarlyServiceOutlivesApp
  BY DEF ServicesInv
<1>3. TypeOK /\ StoreInv /\ ServicesInv /\ [Next]_vars => ServicesInv'
  BY ServicesStep
<1> QED
  BY <1>1, <1>2, <1>3, StoreInvHolds, PTL DEF Spec
-----------------------------------------------------------------------------
(* Long-running operations                                                  *)

\* The order in which the two clients look at an operation makes no difference
\* for what a server says of one.
LEMMA CallbacksAgree ==
  ASSUME NEW o \in Operation PROVE projectManagementCallback(o) = machineLearningCallback(o)
BY DEF Operation, projectManagementCallback, machineLearningCallback

\* The polling delay is a number, and capped.
LEMMA DelayType ==
  ASSUME NEW n \in Nat PROVE getPollingDelayMillis(n) \in Int /\ getPollingDelayMillis(n) <= MaxPollingDelay
BY PollerAssumption DEF getPollingDelayMillis

\* The flag says whether the promise has settled, and before poll() nothing runs.
CompletedIsSettled ==
  /\ completed <=> outcome \notin {"unused", "pending"}
  /\ outcome = "unused" => call = "none" /\ masterTimer = NoTimer /\ repollTimer = NoTimer

PollInv ==
  /\ PollTypeOK /\ CompletedIsSettled /\ NoTimerAfterCompleted /\ PendingIsPolled

\* What an answer of the callback does.
LEMMA AnswerEffect ==
  ASSUME PollTypeOK, CallAnswers
  PROVE  \/ completed /\ UNCHANGED <<numTries, completed, masterTimer, repollTimer, outcome, pollingDelay>>
         \/ /\ ~completed
            /\ repollTimer' \in Int /\ pollingDelay' \in Int /\ pollingDelay' <= MaxPollingDelay /\ numTries' \in Nat
            /\ UNCHANGED <<completed, masterTimer, outcome>>
         \/ /\ ~completed /\ completed' = TRUE
            /\ masterTimer' = NoTimer /\ repollTimer' = NoTimer
            /\ outcome' \in {"resolved", "rejected"} /\ UNCHANGED <<numTries, pollingDelay>>
<1>1. ASSUME CallAnswersNull
      PROVE  \/ completed /\ UNCHANGED <<numTries, completed, masterTimer, repollTimer, outcome, pollingDelay>>
             \/ /\ ~completed
                /\ repollTimer' \in Int /\ pollingDelay' \in Int /\ pollingDelay' <= MaxPollingDelay /\ numTries' \in Nat
                /\ UNCHANGED <<completed, masterTimer, outcome>>
  <2>1. CASE completed
    BY <1>1, <2>1 DEF CallAnswersNull, Ignored
  <2>2. CASE ~completed
    <3>0. numTries \in Nat /\ now \in Int
      BY DEF PollTypeOK
    <3>1. /\ numTries' = numTries + 1
          /\ repollTimer' = now + getPollingDelayMillis(numTries)
          /\ pollingDelay' = getPollingDelayMillis(numTries)
          /\ UNCHANGED <<completed, masterTimer, outcome>>
      BY <1>1, <2>2 DEF CallAnswersNull, Ignored
    <3>2. getPollingDelayMillis(numTries) \in Int /\ getPollingDelayMillis(numTries) <= MaxPollingDelay
      BY <3>0, DelayType
    <3> QED
      BY <2>2, <3>0, <3>1, <3>2
  <2> QED
    BY <2>1, <2>2
<1>2. ASSUME NEW how \in {"resolved", "rejected"}, CallEnds(how)
      PROVE  \/ completed /\ UNCHANGED <<numTries, completed, masterTimer, repollTimer, outcome, pollingDelay>>
             \/ /\ ~completed /\ completed' = TRUE
                /\ masterTimer' = NoTimer /\ repollTimer' = NoTimer
                /\ outcome' \in {"resolved", "rejected"} /\ UNCHANGED <<numTries, pollingDelay>>
  BY <1>2 DEF CallEnds, Ignored, markCompleted
<1>3. CallAnswersNull \/ CallEnds("resolved") \/ CallEnds("rejected")
  BY DEF CallAnswers
<1> QED
  BY <1>1, <1>2, <1>3

\* Every step keeps the invariant.
LEMMA PollStep == PollInv /\ [PollNext]_pollVars => PollInv'
<1> SUFFICES ASSUME PollInv, [PollNext]_pollVars PROVE PollInv'
  OBVIOUS
<1> USE PollerAssumption
    DEF PollInv, CompletedIsSettled, NoTimerAfterCompleted, PendingIsPolled
<1>1. CASE poll
  BY <1>1 DEF poll, MasterTimerDue, PollTypeOK, Timer
<1>2. CASE CallAnswers
  <2>1. call = "running" /\ call' = "none" /\ UNCHANGED <<now, begun>>
    BY <1>2 DEF CallAnswers
  <2>2. CASE completed /\ UNCHANGED <<numTries, completed, masterTimer, repollTimer, outcome, pollingDelay>>
    BY <2>1, <2>2 DEF PollTypeOK
  <2>3. CASE /\ ~completed
             /\ repollTimer' \in Int /\ pollingDelay' \in Int /\ pollingDelay' <= MaxPollingDelay /\ numTries' \in Nat
             /\ UNCHANGED <<completed, masterTimer, outcome>>
    BY <2>1, <2>3 DEF PollTypeOK, Timer
  <2>4. CASE /\ ~completed /\ completed' = TRUE
             /\ masterTimer' = NoTimer /\ repollTimer' = NoTimer
             /\ outcome' \in {"resolved", "rejected"} /\ UNCHANGED <<numTries, pollingDelay>>
    BY <2>1, <2>4 DEF PollTypeOK, Timer
  <2> QED
    BY <1>2, <2>2, <2>3, <2>4, AnswerEffect
<1>3. CASE MasterTimerFires
  <2>0. UNCHANGED <<now, numTries, call, begun, pollingDelay>> /\ masterTimer # NoTimer
    BY <1>3 DEF MasterTimerFires
  <2>1. ~completed /\ outcome = "pending"
    BY <2>0 DEF PollTypeOK
  <2>2. /\ completed' = TRUE /\ masterTimer' = NoTimer /\ repollTimer' = NoTimer
        /\ outcome' = "deadlineExceeded" /\ masterTimer <= now
    BY <1>3, <2>1 DEF MasterTimerFires, markCompleted
  <2>3. completed' \in BOOLEAN
    BY <2>2, Zenon
  <2>4. PollTypeOK'
    BY <2>0, <2>2, <2>3 DEF PollTypeOK, Timer
  <2>5. now' >= begun' + MasterTimeout
    BY <2>0, <2>1, <2>2
  <2>6. completed'
    BY <2>2, Zenon
  <2> QED
    BY <2>0, <2>2, <2>4, <2>5, <2>6
<1>4. CASE RepollTimerFires
  BY <1>4 DEF RepollTimerFires, PollTypeOK, Timer
<1>5. CASE Tick
  <2>1. /\ now' = now + 1
        /\ UNCHANGED <<numTries, completed, masterTimer, repollTimer, call, outcome, begun, pollingDelay>>
    BY <1>5 DEF Tick
  <2>2. completed' <=> completed
    BY <2>1
  <2>3. PollTypeOK'
    BY <2>1 DEF PollTypeOK
  <2> QED
    BY <2>1, <2>2, <2>3 DEF PollTypeOK
<1>6. CASE UNCHANGED pollVars
  BY <1>6 DEF pollVars, PollTypeOK
<1> QED
  BY <1>1, <1>2, <1>3, <1>4, <1>5, <1>6 DEF PollNext

\* The invariant of the poller.
LEMMA PollInvHolds == PollSpec => []PollInv
<1>1. PollInit => PollInv
  <2> SUFFICES ASSUME PollInit PROVE PollInv
    OBVIOUS
  <2>0. completed \in BOOLEAN
    BY Zenon DEF PollInit
  <2>1. PollTypeOK
    BY <2>0, PollerAssumption DEF PollInit, PollTypeOK, Timer
  <2>2. CompletedIsSettled
    BY DEF PollInit, CompletedIsSettled
  <2> QED
    BY <2>1, <2>2 DEF PollInit, PollInv, NoTimerAfterCompleted, PendingIsPolled
<1> QED
  BY <1>1, PollStep, PTL DEF PollSpec

\* For all delays and timeouts: a settled promise leaves no timer, and a pending one
\* is being polled under a master timer.
THEOREM PollCorrect ==
  PollSpec => [](PollTypeOK /\ NoTimerAfterCompleted /\ PendingIsPolled)
<1>1. PollInv => PollTypeOK /\ NoTimerAfterCompleted /\ PendingIsPolled
  BY DEF PollInv
<1> QED
  BY <1>1, PollInvHolds, PTL

\* A callback that answers after the promise has settled changes nothing, and no
\* further one is begun.
THEOREM SettledOnce == PollSpec => SettlesForGood
<1> DEFINE Settles == outcome \notin {"unused", "pending"} =>
                        outcome' = outcome /\ (call = "none" => call' = "none")
<1>1. PollInv /\ [PollNext]_pollVars => [Settles]_pollVars
  <2> SUFFICES ASSUME PollInv, [PollNext]_pollVars, outcome \notin {"unused", "pending"}
               PROVE  outcome' = outcome /\ (call = "none" => call' = "none")
    OBVIOUS
  <2>1. completed /\ masterTimer = NoTimer /\ repollTimer = NoTimer
    BY DEF PollInv, CompletedIsSettled, NoTimerAfterCompleted
  <2>2. CASE CallAnswers
    BY <2>1, <2>2, AnswerEffect DEF CallAnswers, PollInv
  <2> QED
    BY <2>1, <2>2 DEF PollNext, poll, MasterTimerDue, MasterTimerFires, RepollTimerFires, Tick, pollVars
<1> QED
  BY <1>1, PollInvHolds, PTL DEF PollSpec, SettlesForGood
=============================================================================
