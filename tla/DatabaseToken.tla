---------------------------- MODULE DatabaseToken ----------------------------
(***************************************************************************)
(* The Realtime Database service of an app: class DatabaseService in       *)
(* src/src/database/database.ts, as a client of the token cache.           *)
(*                                                                         *)
(* The service keeps the access token fresh: it listens to token changes,  *)
(* and each one sets a timer that forces a refresh shortly before the      *)
(* token expires.  delete() drops the listener and the timer and deletes   *)
(* the databases.                                                          *)
(***************************************************************************)
EXTENDS AppToken

CONSTANTS
  db,    \* the service's own token listener, onTokenChange.bind(this)
  Ahead, \* TOKEN_REFRESH_THRESHOLD_MILLIS, in ticks
  Url    \* database URLs

ASSUME DatabaseAssumption == db \in Listener /\ Ahead \in Nat

VARIABLES
  tokenListener,        \* has the listener been made?
  tokenRefreshTimeout,  \* when the timer fires, 0 while there is none
  databases,            \* the URLs with an entry
  database,             \* what became of the last database made for each URL
  service,              \* how far delete() has got
  misused               \* history: did a token listener call delete(), or was a
                        \* database opened after it?

dvars == <<tokenListener, tokenRefreshTimeout, databases, database, service, misused>>

allvars == <<vars, dvars>>
-----------------------------------------------------------------------------
DInit ==
  /\ Init
  /\ tokenListener = FALSE
  /\ tokenRefreshTimeout = 0
  /\ databases = {}
  /\ database = [u \in Url |-> "none"]
  /\ service = "active"
  /\ misused = FALSE

\* Faulty variant: only the first token sets the timer.
onTokenChangeOnce ==
  IF /\ cachedToken_' # NoToken
     /\ tokenRefreshTimeout = 0
     /\ cachedToken_'.expirationTime - Ahead > now
  THEN cachedToken_'.expirationTime - Ahead
  ELSE tokenRefreshTimeout

\* The timer that onTokenChange leaves: a token that expires soon leaves the
\* old one.
onTokenChange ==
  IF cachedToken_' # NoToken /\ cachedToken_'.expirationTime - Ahead > now
  THEN cachedToken_'.expirationTime - Ahead
  ELSE tokenRefreshTimeout

NeedsListener == ~tokenListener

\* getDatabase(url)
getDatabase(u) ==
  /\ CallerRuns
  /\ u \notin databases \/ NeedsListener
  /\ databases' = databases \cup {u}
  /\ database' = [database EXCEPT ![u] = IF u \in databases THEN @ ELSE "open"]
  /\ misused' = (misused \/ service # "active")
  /\ tokenListener' = TRUE
  /\ IF NeedsListener
     THEN /\ addAuthTokenListener(db)
          /\ tokenRefreshTimeout' = onTokenChange
     ELSE UNCHANGED <<vars, tokenRefreshTimeout>>
  /\ UNCHANGED service

\* Faulty variant: the timer is left to run.
TimerLeft == tokenRefreshTimeout

TimerCleared == IF tokenListener THEN 0 ELSE tokenRefreshTimeout

\* delete(), once: AppLifecycle says what an app that is deleted again does.
delete ==
  /\ CallerRuns
  /\ service = "active"
  /\ service' = "deleting"
  /\ IF tokenListener THEN removeAuthTokenListener(db) ELSE UNCHANGED vars
  /\ tokenRefreshTimeout' = TimerCleared
  /\ database' = [u \in Url |-> IF u \in databases THEN "deleting" ELSE database[u]]
  /\ misused' = (misused \/ ~Idle)
  /\ UNCHANGED <<tokenListener, databases>>

\* The promise of one database's own delete() resolves.
DatabaseDeleted(u) ==
  /\ database[u] = "deleting"
  /\ database' = [database EXCEPT ![u] = "deleted"]
  /\ UNCHANGED <<vars, tokenListener, tokenRefreshTimeout, databases, service, misused>>

AllDeleted == \A u \in Url : database[u] # "deleting"

\* Every database has answered: the then() of delete().
DeletionEnds ==
  /\ Idle
  /\ service = "deleting"
  /\ AllDeleted
  /\ service' = "deleted"
  /\ databases' = {}
  /\ UNCHANGED <<vars, tokenListener, tokenRefreshTimeout, database, misused>>

\* The timer fires, some time after it is due, and forces a refresh.
TimerFires ==
  /\ Idle
  /\ 0 < tokenRefreshTimeout /\ tokenRefreshTimeout <= now
  /\ tokenRefreshTimeout' = 0
  /\ getToken(TRUE)
  /\ UNCHANGED <<tokenListener, databases, database, service, misused>>

\* Every other step of the app's token cache; the one that calls db runs its
\* onTokenChange.
CallsDb == dispatch # NoDispatch /\ dispatch.called < Len(dispatch.listeners)
             /\ dispatch.listeners[dispatch.called + 1] = db

TokenStep ==
  \/ \E force \in BOOLEAN : getToken(force)
  \/ \E r \in Refresh : RunStep(r)
  \/ EndDispatch
  \/ ListenerThrows
  \/ \E l \in Listener \ {db} : addAuthTokenListener(l) \/ removeAuthTokenListener(l)
  \/ Tick

DNext ==
  \/ TokenStep /\ UNCHANGED dvars
  \/ /\ NotifyListener
     /\ tokenRefreshTimeout' = IF CallsDb THEN onTokenChange ELSE tokenRefreshTimeout
     /\ UNCHANGED <<tokenListener, databases, database, service, misused>>
  \/ \E u \in Url : getDatabase(u) \/ DatabaseDeleted(u)
  \/ delete
  \/ DeletionEnds
  \/ TimerFires

DSpec == DInit /\ [][DNext]_allvars

\* As for AppToken: microtasks run, and the credential settles its promises.
DFairSpec ==
  /\ DSpec
  /\ WF_allvars(DNext /\ DispatchStep)
  /\ \A r \in Refresh : WF_allvars(RunStep(r) /\ UNCHANGED dvars)
-----------------------------------------------------------------------------
(***************************************************************************)
(* Properties.                                                             *)
(***************************************************************************)
\* The variables hold what the fields of the two classes can hold.
DTypeOK ==
  /\ TypeOK
  /\ tokenListener \in BOOLEAN
  /\ tokenRefreshTimeout \in Nat
  /\ databases \in SUBSET Url
  /\ database \in [Url -> {"none", "open", "deleting", "deleted"}]
  /\ service \in {"active", "deleting", "deleted"}
  /\ misused \in BOOLEAN

\* Once a database has been opened, the timer is set for the token that is
\* cached, however many tokens came in whatever order, until it is due; unless
\* a listener aborted the forEach that announced the token.
RefreshIsScheduled ==
  (/\ tokenListener /\ service = "active"
   /\ Idle
   /\ cachedToken_ # NoToken
   /\ cachedToken_.expirationTime - Ahead > now
   /\ result[installer] # Failed)
     => tokenRefreshTimeout = cachedToken_.expirationTime - Ahead

\* After delete() no timer is left to refresh the token, and none is ever set
\* again, also by a refresh that was in flight.
NoTimerAfterDelete ==
  service # "active" /\ ~misused => tokenRefreshTimeout = 0 /\ db \notin Listening
=============================================================================
