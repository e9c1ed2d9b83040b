------------------------------- MODULE AppLife -------------------------------
(***************************************************************************)
(* What the app registry promises: an app is registered under one name,    *)
(* is closed from then on, and its name is free again as soon as it is no  *)
(* longer registered.  At most one registered app has a given name.        *)
(***************************************************************************)
CONSTANTS App, Name, NoName

VARIABLES status, name

Registered(n) == {a \in App : status[a] = "registered" /\ name[a] = n}

Init ==
  /\ status = [a \in App |-> "none"]
  /\ name = [a \in App |-> NoName]

\* An app is created under a free name.
Register(a, n) ==
  /\ status[a] = "none"
  /\ Registered(n) = {}
  /\ status' = [status EXCEPT ![a] = "registered"]
  /\ name' = [name EXCEPT ![a] = n]

\* Registered apps leave the registry.
Close(leaving) ==
  /\ \A a \in leaving : status[a] = "registered"
  /\ status' = [a \in App |-> IF a \in leaving THEN "closing" ELSE status[a]]
  /\ UNCHANGED name

\* An app that left the registry becomes unusable.
Closed(a) ==
  /\ status[a] = "closing"
  /\ status' = [status EXCEPT ![a] = "closed"]
  /\ UNCHANGED name

Next ==
  \/ \E a \in App, n \in Name : Register(a, n)
  \/ \E leaving \in SUBSET App : Close(leaving)
  \/ \E a \in App : Closed(a)

Spec == Init /\ [][Next]_<<status, name>>
=============================================================================
