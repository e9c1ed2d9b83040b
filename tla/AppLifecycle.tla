---------------------------- MODULE AppLifecycle ----------------------------
(***************************************************************************)
(* Creation and deletion of apps: AppStore (src/src/app/lifecycle.ts) and   *)
(* FirebaseApp (src/src/app/firebase-app.ts).                              *)
(*                                                                         *)
(* FirebaseApp.delete() takes the app's name out of the store at once, asks *)
(* every service the app holds to delete itself, and only when all have    *)
(* answered marks the app deleted.  In between the app is still usable and *)
(* its name may already belong to a new app.                               *)
(***************************************************************************)
EXTENDS Integers, FiniteSets

CONSTANTS
  MaxApp,            \* bound: apps created
  Name,              \* app names
  Service,           \* service names given to getOrInitService
  Stateful,          \* the services with a delete() method
  MaxDeletion,       \* bound: calls of FirebaseApp.delete()
  NoApp, NoName

ASSUME ConstantsAssumption ==
  /\ MaxApp \in Nat /\ MaxDeletion \in Nat
  /\ Stateful \subseteq Service
  /\ NoApp \notin 1..MaxApp /\ NoName \notin Name

VARIABLES
  appStore,   \* the Map from names to apps, NoApp where it has no entry
  name_,      \* the name of each app that was created, NoName before
  isDeleted_,
  services_,  \* the names of the services each app holds
  instance,   \* what became of the instance of a service made for an app; it is
              \* late when it was made after the deletion of the app had begun
  deletion    \* the delete() calls and their promises

vars == <<appStore, name_, isDeleted_, services_, instance, deletion>>

App == 1..MaxApp
Deletion == 1..MaxDeletion

\* One delete(): the app it runs on, the app its caller passed, the services
\* that have not answered, and where its promise stands.
DeletionRecord ==
  [app : App \cup {NoApp}, asked : App \cup {NoApp}, waiting : SUBSET Service,
   status : {"unused", "waiting", "done", "rejected"}]

NoDeletion == [app |-> NoApp, asked |-> NoApp, waiting |-> {}, status |-> "unused"]

Created(a) == name_[a] # NoName

Deletions(a) == {d \in Deletion : deletion[d].app = a}

InStore(a) == \E n \in Name : appStore[n] = a

UnusedDeletions == {d \in Deletion : deletion[d].status = "unused"}
-----------------------------------------------------------------------------
Init ==
  /\ appStore = [n \in Name |-> NoApp]
  /\ name_ = [a \in App |-> NoName]
  /\ isDeleted_ = [a \in App |-> FALSE]
  /\ services_ = [a \in App |-> {}]
  /\ instance = [a \in App |-> [s \in Service |-> "none"]]
  /\ deletion = [d \in Deletion |-> NoDeletion]

\* Faulty variant: nobody asks whether the name is taken.
NameFreeAlways(n) == TRUE

\* has(appName) is false.
NameFree(n) == appStore[n] = NoApp

\* initializeApp() under a free name; a name that is taken is refused.  Apps
\* are numbered as they are created.
initializeApp(n) ==
  /\ NameFree(n)
  /\ \E a \in App :
       /\ ~Created(a)
       /\ \A b \in App : b < a => Created(b)
       /\ name_' = [name_ EXCEPT ![a] = n]
       /\ appStore' = [appStore EXCEPT ![n] = a]
  /\ UNCHANGED <<isDeleted_, services_, instance, deletion>>

\* checkDestroyed_
Usable(a) == Created(a) /\ ~isDeleted_[a]

\* ensureService_ when the app does not hold the service yet.
getOrInitService(a, s) ==
  /\ Usable(a)
  /\ s \notin services_[a]
  /\ services_' = [services_ EXCEPT ![a] = @ \cup {s}]
  /\ instance' = [instance EXCEPT ![a][s] = IF Deletions(a) = {} THEN "live" ELSE "late"]
  /\ UNCHANGED <<appStore, name_, isDeleted_, deletion>>

\* removeApp(this.name), whichever app has that name now.
RemovedFromStore(targets) ==
  [n \in Name |-> IF \E a \in targets : name_[a] = n THEN NoApp ELSE appStore[n]]

\* FirebaseApp.delete() of every app in targets, in one turn of the event
\* loop; asked[a] is the app the caller passed for it.
DeleteAll(targets, asked) ==
  /\ targets # {}
  /\ \A a \in targets : Usable(a)
  /\ Cardinality(targets) <= Cardinality(UnusedDeletions)
  /\ appStore' = RemovedFromStore(targets)
  /\ \E id \in [targets -> UnusedDeletions] :
       /\ \A a, b \in targets : a < b => id[a] < id[b]
       /\ \A a \in targets, d \in UnusedDeletions : d < id[a] => \E b \in targets : id[b] = d
       /\ deletion' =
            [d \in Deletion |->
               IF \E a \in targets : id[a] = d
               THEN LET a == CHOOSE b \in targets : id[b] = d
                    IN  [app |-> a, asked |-> asked[a],
                         waiting |-> services_[a] \cap Stateful, status |-> "waiting"]
               ELSE deletion[d]]
  /\ instance' =
       [a \in App |-> [s \in Service |->
          IF a \in targets /\ s \in services_[a] /\ instance[a][s] = "live"
          THEN "deleting" ELSE instance[a][s]]]
  /\ UNCHANGED <<name_, isDeleted_, services_>>

\* app.delete()
delete(a) == DeleteAll({a}, [b \in {a} |-> b])

\* deleteApp(app) deletes whichever app has app's name now.
deleteApp(a) ==
  /\ Usable(a)
  /\ appStore[name_[a]] # NoApp
  /\ DeleteAll({appStore[name_[a]]}, [b \in {appStore[name_[a]]} |-> a])

clearAllApps == LET all == {a \in App : InStore(a)} IN DeleteAll(all, [a \in all |-> a])

\* The promise of one service's delete() resolves.
ServiceDeleted(d, s) ==
  /\ s \in deletion[d].waiting
  /\ deletion' = [deletion EXCEPT ![d].waiting = @ \ {s}]
  /\ instance' = [instance EXCEPT ![deletion[d].app][s] = "gone"]
  /\ UNCHANGED <<appStore, name_, isDeleted_, services_>>

\* It rejects, and the promise of delete() with it.
ServiceDeleteFails(d, s) ==
  /\ s \in deletion[d].waiting
  /\ deletion' = [deletion EXCEPT ![d].waiting = @ \ {s}, ![d].status = "rejected"]
  /\ UNCHANGED <<appStore, name_, isDeleted_, services_, instance>>

\* Faulty variants: nobody waits for the services; the services are awaited
\* until they are gone from the app, which only the end of the deletion does.
AllAnsweredNotAwaited(d) == TRUE
AllAnsweredNever(d) == services_[deletion[d].app] = {}

AllAnswered(d) == deletion[d].waiting = {}

\* Every service has answered: the then() of delete().
DeletionEnds(d) ==
  /\ deletion[d].status = "waiting"
  /\ AllAnswered(d)
  /\ deletion' = [deletion EXCEPT ![d].status = "done"]
  /\ services_' = [services_ EXCEPT ![deletion[d].app] = {}]
  /\ isDeleted_' = [isDeleted_ EXCEPT ![deletion[d].app] = TRUE]
  /\ UNCHANGED <<appStore, name_, instance>>

DeletionStep(d) ==
  \/ \E s \in Service : ServiceDeleted(d, s) \/ ServiceDeleteFails(d, s)
  \/ DeletionEnds(d)

Next ==
  \/ \E n \in Name : initializeApp(n)
  \/ \E a \in App, s \in Service : getOrInitService(a, s)
  \/ \E a \in App : delete(a) \/ deleteApp(a)
  \/ clearAllApps
  \/ \E d \in Deletion : DeletionStep(d)

Spec == Init /\ [][Next]_vars

\* Every service settles the promise of its delete(), and microtasks run.
FairSpec == Spec /\ \A d \in Deletion : WF_vars(DeletionStep(d))
-----------------------------------------------------------------------------
(***************************************************************************)
(* Properties.                                                             *)
(***************************************************************************)
TypeOK ==
  /\ appStore \in [Name -> App \cup {NoApp}]
  /\ name_ \in [App -> Name \cup {NoName}]
  /\ isDeleted_ \in [App -> BOOLEAN]
  /\ services_ \in [App -> SUBSET Service]
  /\ instance \in [App -> [Service -> {"none", "live", "late", "deleting", "gone"}]]
  /\ deletion \in [Deletion -> DeletionRecord]

\* What getApp() and getApps() return is never an app that has been deleted or
\* whose deletion has begun, and is filed under its own name.
RegisteredAppIsUsable ==
  \A n \in Name : appStore[n] # NoApp =>
    /\ name_[appStore[n]] = n
    /\ ~isDeleted_[appStore[n]]
    /\ Deletions(appStore[n]) = {}

\* No app is deleted, or asked to be, a second time.
DeletedOnce ==
  \A d, e \in Deletion :
    (d # e /\ deletion[d].status # "unused" /\ deletion[e].status # "unused")
      => {deletion[d].app, deletion[d].asked} \cap {deletion[e].app, deletion[e].asked} = {}

\* An app that is no longer in the store is being deleted itself, or an older app
\* of its name was deleted a second time and took it out (removeApp(this.name),
\* firebase-app.ts:229): nothing else makes an app unreachable.
AppsLeaveForCause ==
  \A a \in App : Created(a) /\ ~InStore(a) /\ Deletions(a) = {} =>
    \E b \in App : /\ b < a /\ name_[b] = name_[a]
                   /\ \E d, e \in Deletions(b) : d # e

\* As long as no app is deleted twice, an app only leaves the store because that
\* very app is being deleted.
LeavesStoreOnlyWhenDeleted ==
  DeletedOnce => \A a \in App : Created(a) /\ ~InStore(a) => Deletions(a) # {}

\* deleteApp(app) deletes app: lifecycle.ts "Renders this given `App` unusable".
DeletesTheAppAsked == \A d \in Deletion : deletion[d].asked = deletion[d].app

\* So it does as long as no app is deleted twice.
OnceDeletesTheAppAsked == DeletedOnce => DeletesTheAppAsked

\* Once delete() has succeeded, every service ever made for the app with
\* getOrInitService() has been told to delete itself: lifecycle.ts "frees the
\* resources of all associated services".
NoServiceOutlivesApp ==
  \A a \in App : isDeleted_[a] => \A s \in Stateful : instance[a][s] \in {"none", "gone"}

\* So have those that were made before the deletion began, however deletions of
\* the app overlap and fail.
NoEarlyServiceOutlivesApp ==
  \A a \in App : isDeleted_[a] => \A s \in Stateful : instance[a][s] \in {"none", "gone", "late"}

\* An app whose deletion has begun ends up unusable, unless a service fails to
\* delete itself.
DeletionCompletes ==
  \A a \in App :
    (Deletions(a) # {}) ~>
      (isDeleted_[a] \/ \E d \in Deletions(a) : deletion[d].status = "rejected")

\* The registry as a whole: what callers see of creation and deletion is the
\* life cycle of module AppLife, at most one registered app to a name.
lifeStatus ==
  [a \in App |-> IF InStore(a) THEN "registered"
                 ELSE IF isDeleted_[a] THEN "closed"
                 ELSE IF Created(a) THEN "closing" ELSE "none"]

Life == INSTANCE AppLife WITH App <- App, name <- name_, status <- lifeStatus

ImplementsAppLife == Life!Spec
=============================================================================
