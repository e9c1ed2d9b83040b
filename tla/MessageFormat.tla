---------------------------- MODULE MessageFormat ----------------------------
(***************************************************************************)
(* validateMessage() of messaging/messaging-internal.ts: what it refuses,  *)
(* and the names and values of the FCM API it gives the message in place,  *)
(* step by step, so that a message it refuses is left half converted.  The *)
(* steps themselves are FcmFormat's.                                       *)
(*                                                                         *)
(* A message is a function from the sections it has ("apns.aps.alert" is   *)
(* message.apns.payload.aps.alert) to objects; what addresses it (token,   *)
(* topic, condition) is the section "target".  A section that is no object *)
(* is NotObject.  The keys the code does not name are left out.            *)
(***************************************************************************)
EXTENDS JsObject

CONSTANTS
  MessageText,   \* the non-empty strings
  MessageSteps,  \* what validateMessage() does, in its order; see Step
  ApiNames,      \* by section, the keys the API calls otherwise
  ApiValues      \* by section and key, the values the API writes otherwise

MessageStrings == MessageText \cup {""}

NotObject == Field("bad", "bad")

InvalidPayload == "invalid-payload"

At(table, key, otherwise) == IF key \in DOMAIN table THEN table[key] ELSE otherwise

NamesOf(path) == At(ApiNames, path, EmptyObject)

ValuesOf(path) == At(ApiValues, path, EmptyObject)

\* A step that finds the section at path an object, and no more.
Step(path) ==
  [at |-> path,
   strings |-> FALSE,          \* every key of the section must hold a string
   required |-> {},            \* the keys it must have
   accepts |-> EmptyObject,    \* by key, the values it may have
   oneOf |-> {},               \* exactly one of these must be a non-empty string
   texts |-> EmptyObject,      \* lists of arguments, to the keys of the texts they are for
   once |-> FALSE,             \* no key may be given under both of its names
   keys |-> {},                \* the keys whose values are then converted
   renames |-> FALSE,          \* the keys are then given the names of the API,
   moves |-> FALSE]            \* and the section another, under which no step looks for it
-----------------------------------------------------------------------------
Looked(step, o) ==
  step.moves => \A name \in Range(NamesOf(step.at)) : ~Given(o, name)

IsText(o, key) == Given(o, key) /\ o[key] \in MessageText

NamedTwice(o, names) == \E k \in DOMAIN names \cap DOMAIN o : Given(o, names[k])

Refuses(step, o) ==
  /\ Looked(step, o)
  /\ \/ o = NotObject
     \/ step.strings /\ \E k \in DOMAIN o : o[k] \notin MessageStrings
     \/ ~(step.required \subseteq DOMAIN o)
     \/ \E k \in DOMAIN step.accepts \cap DOMAIN o : o[k] \notin step.accepts[k]
     \/ step.oneOf # {} /\ Cardinality({k \in step.oneOf : IsText(o, k)}) # 1
     \/ \E args \in DOMAIN step.texts \cap DOMAIN o : o[args] # "empty" /\ ~IsText(o, step.texts[args])
     \/ step.once /\ NamedTwice(o, NamesOf(step.at))

\* renameProperties() of utils/index.ts: the value under the old name wins.
renameProperties(o, names) == RenameAll(o, names) ++ Without(o, DOMAIN names)

\* The values of some keys as the API writes them; those it has no value for go.
Rewritten(o, values, keys) ==
  LET Writes(k) == k \in keys /\ Given(values, k) /\ Given(values[k], o[k])
      Removes(k) == Writes(k) /\ values[k][o[k]] = "removed"
  IN [k \in {n \in DOMAIN o : ~Removes(n)} |-> IF Writes(k) THEN values[k][o[k]] ELSE o[k]]

KeysOf(path, steps) == UNION {s.keys : s \in {t \in steps : t.at = path}}

Renames(path, steps) == \E s \in steps : s.at = path /\ s.renames

\* The section at path, after some of the steps that concern it.
Converted(path, o, steps) ==
  LET rewritten == Rewritten(o, ValuesOf(path), KeysOf(path, steps))
  IN IF Renames(path, steps) THEN renameProperties(rewritten, NamesOf(path)) ELSE rewritten
-----------------------------------------------------------------------------
\* validateMessage(): its verdict, and what it leaves of the message.  A step judges
\* the message as it was given: the one value that is converted before a step looks
\* at it, the topic, is accepted in both forms or in none.
validateMessage(message) ==
  LET Refused(step) == step.at \in DOMAIN message /\ Refuses(step, message[step.at])
      refused == {i \in DOMAIN MessageSteps : Refused(MessageSteps[i])}
      done == {MessageSteps[i] : i \in {n \in DOMAIN MessageSteps : \A r \in refused : n < r}}
  IN [verdict |-> Require(refused = {}, InvalidPayload),
      message |-> [path \in DOMAIN message |-> Converted(path, message[path], done)]]
-----------------------------------------------------------------------------
(***************************************************************************)
(* What makes a second conversion harmless.                                *)
(***************************************************************************)
AllSteps == Range(MessageSteps)

\* Names are of one kind or the other, and both have the same values.
NamesAssumption(path) ==
  LET names == NamesOf(path)  values == ValuesOf(path) IN
  /\ IsInjective(names)
  /\ \A k \in DOMAIN names :
       /\ names[k] \notin DOMAIN names
       /\ names[k] \in DOMAIN values => k \in DOMAIN values /\ values[k] = values[names[k]]

\* What the API writes for a value it writes for itself.
ValuesAssumption(path) ==
  \A k \in DOMAIN ValuesOf(path) :
    LET table == ValuesOf(path)[k]
    IN \A v \in DOMAIN table : table[v] \in DOMAIN table => table[table[v]] = table[v]

\* A section is renamed by its last step, when its values are those of the API.
OrderAssumption ==
  \A i \in DOMAIN MessageSteps :
    LET path == MessageSteps[i].at IN
    MessageSteps[i].renames =>
      /\ DOMAIN ValuesOf(path) \subseteq KeysOf(path, AllSteps)
      /\ \A j \in DOMAIN MessageSteps : MessageSteps[j].at = path => j <= i

\* What is refused stays refused when the values of the section are converted.
RefusalAssumption(step) ==
  LET values == ValuesOf(step.at)  names == NamesOf(step.at) IN
  /\ ~Given(values, "bad")
  /\ step.strings => values = EmptyObject
  /\ \A k \in DOMAIN step.accepts \cap DOMAIN values : \A v \in DOMAIN values[k] \ step.accepts[k] :
       values[k][v] \notin step.accepts[k] \cup {"removed"}
  /\ \A k \in step.oneOf \cap DOMAIN values : \A v \in DOMAIN values[k] :
       v \in MessageText <=> values[k][v] \in MessageText
  /\ (DOMAIN step.texts \cup Range(step.texts)) \cap DOMAIN values = {}
  /\ step.once => (DOMAIN names \cup Range(names)) \cap DOMAIN values \subseteq step.keys
  /\ \A other \in AllSteps \ {step} : other.at = step.at => other.keys \cap step.keys = {}

ASSUME FormatAssumption ==
  /\ MessageSteps \in Seq(AllSteps)
  /\ "removed" \notin MessageText
  /\ \A step \in AllSteps : NamesAssumption(step.at) /\ ValuesAssumption(step.at) /\ RefusalAssumption(step)
  /\ OrderAssumption
=============================================================================
