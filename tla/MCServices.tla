----------------------------- MODULE MCServices -----------------------------
(***************************************************************************)
(* The services that turn calls into requests to a backend, for TLC: the   *)
(* templates of Remote Config and its server template, the rules and the   *)
(* messages.  They share no state, so a behaviour uses one of them only    *)
(* (bound).                                                                *)
(***************************************************************************)
EXTENDS RemoteConfig, MCServerTemplate, SecurityRules, MCMessages

MCListOptions ==
  {[pageSize |-> 300, pageToken |-> "token", endVersionNumber |-> 2], [pageSize |-> 301, pageToken |-> "token", endVersionNumber |-> 2]}

servicesVars == <<rcVars, templateVars, rulesVars, messageVars>>

ServicesInit == RcInit /\ TemplateInit /\ RulesInit /\ MessagesInit

RcIdle == rcCalls = 0 /\ \A p \in Publisher : rcOutcome[p] = "none"
TemplateIdle == object = << >> /\ active = 1
RulesIdle == rulesCalls = 0
MessagesIdle == edits = 0 /\ topicCall = NoTopicCall /\ \A c \in MsgCall : msgCall[c] = NoCall

Rc(A) ==
  /\ TemplateIdle /\ RulesIdle /\ MessagesIdle
  /\ A /\ UNCHANGED <<templateVars, rulesVars, messageVars>>

Evaluating(A) ==
  /\ RcIdle /\ RulesIdle /\ MessagesIdle
  /\ A /\ UNCHANGED <<rcVars, rulesVars, messageVars>>

Rules(A) ==
  /\ RcIdle /\ TemplateIdle /\ MessagesIdle
  /\ A /\ UNCHANGED <<rcVars, templateVars, messageVars>>

Messaging(A) ==
  /\ RcIdle /\ TemplateIdle /\ RulesIdle
  /\ A /\ UNCHANGED <<rcVars, templateVars, rulesVars>>

ServicesNext ==
  \/ Rc(RcNext) \/ Evaluating(TemplateNext) \/ Rules(RulesNext) \/ Messaging(MessagesNext)

ServicesSpec == ServicesInit /\ [][ServicesNext]_servicesVars
=============================================================================
