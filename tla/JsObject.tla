------------------------------ MODULE JsObject ------------------------------
(***************************************************************************)
(* Objects of the code as functions from the keys they hold to values, and *)
(* the validation of a request as a table of checks made in order.         *)
(* A value of the wrong type or shape is the string "bad", null is "null". *)
(***************************************************************************)
EXTENDS Naturals, Sequences, FiniteSets, SequencesExt, Functions, TLC

EmptyObject == << >>

IsObject(o) == o = [k \in DOMAIN o |-> o[k]]

Given(o, k) == k \in DOMAIN o

(* o.k === v for a defined v.                                               *)
Has(o, k, v) == Given(o, k) /\ o[k] = v

(* An object of one key, and o with the keys of p it lacks: TLC's :> and @@ *)
(* as definitions the provers can open.                                     *)
Field(k, v) == [n \in {k} |-> v]

o ++ p ==
  CHOOSE both \in {[k \in DOMAIN a \cup DOMAIN b |-> IF k \in DOMAIN a THEN a[k] ELSE b[k]] :
                     a \in {o}, b \in {p}} : TRUE

Without(o, K) == Restrict(o, DOMAIN o \ K)

Only(o, K) == Restrict(o, DOMAIN o \cap K)

(* o.new = o.old; delete o.old, where o.old is given. *)
Rename(o, old, new) ==
  IF Given(o, old) THEN Field(new, o[old]) ++ Without(o, {old}) ELSE o

(* Every key of names renamed to the key it stands for, others left out. *)
RenameAll(o, names) ==
  [k \in {names[n] : n \in DOMAIN names \cap DOMAIN o} |->
     o[CHOOSE n \in DOMAIN names \cap DOMAIN o : names[n] = k]]

(* The other way round: the keys are those names stand for.                 *)
RenameBack(o, names) == [n \in {m \in DOMAIN names : names[m] \in DOMAIN o} |-> o[names[n]]]

(* The required keys K of o, undefined where o lacks them. *)
Requiring(o, K) == o ++ [k \in K |-> "undefined"]

(* One check: key, where given, must hold an accepted value. *)
Check(key, accepts, code) == [key |-> key, accepts |-> accepts, code |-> code]

(* What a table of checks says of o: "ok" or the code of the first failure. *)
Verdict(checks, o) ==
  LET Fails(c) == Given(o, c.key) /\ o[c.key] \notin c.accepts
      i == SelectInSeq(checks, Fails)
  IN IF i = 0 THEN "ok" ELSE checks[i].code

(* The first of several verdicts that is a refusal. *)
FirstRefusal(verdicts) ==
  LET Refuses(v) == v # "ok"
      i == SelectInSeq(verdicts, Refuses)
  IN IF i = 0 THEN "ok" ELSE verdicts[i]

(* A condition that must hold, as a verdict. *)
Require(holds, code) == IF holds THEN "ok" ELSE code

Each(V(_), s) == [i \in DOMAIN s |-> V(s[i])]

(* The numbers of a set in their order: before each stand those below it.   *)
Sorted(S) == [k \in 1..Cardinality(S) |-> CHOOSE i \in S : Cardinality({j \in S : j <= i}) = k]

Bool == {"true", "false"}
=============================================================================
