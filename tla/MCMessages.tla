----------------------------- MODULE MCMessages -----------------------------
(* Messaging for TLC: messages that are accepted and messages that are not. *)
EXTENDS Messages, FcmFormat

MCTopicNames == ("/topics/news" :> "news") @@ ("/topics/two words" :> "two words")
MCTopicGiven == ("news" :> "/topics/news") @@ ("/topics/news" :> "/topics/news")
MCDurations == ("1500ms" :> "1.500000000s") @@ ("2000ms" :> "2s")
MCDates == ("date" :> "zulu")
MCRgb == ("#FF0000" :> "1,0,0,1")
MCRgba == ("#FF000000" :> "1,0,0,0")
MCWords == ("high" :> "HIGH") @@ ("public" :> "PUBLIC") @@ ("deny" :> "DENY")

FullMessage ==
  ("target" :> [topic |-> "/topics/news"]) @@
  ("data" :> [key |-> "text"]) @@
  ("notification" :> [title |-> "text", imageUrl |-> "url"]) @@
  ("apns.aps" :> [contentAvailable |-> "true", mutableContent |-> "false", threadId |-> "text"]) @@
  ("apns.aps.alert" :> [locKey |-> "text", locArgs |-> "args"]) @@
  ("apns.aps.sound" :> [name |-> "text", critical |-> "true", volume |-> "1"]) @@
  ("apns.fcmOptions" :> [imageUrl |-> "url", analyticsLabel |-> "text"]) @@
  ("android" :> [ttl |-> "1500ms", collapseKey |-> "text"]) @@
  ("android.notification" :>
     [color |-> "#FF0000", eventTimestamp |-> "date", vibrateTimingsMillis |-> "2000ms", priority |-> "high",
      visibility |-> "public", bodyLocKey |-> "text", bodyLocArgs |-> "args"]) @@
  ("android.notification.lightSettings" :>
     [lightOnDurationMillis |-> "1500ms", lightOffDurationMillis |-> "2000ms", color |-> "#FF000000"])

(* Refused for its title, after the sections before that were converted.    *)
NoLocKey ==
  ("target" :> [condition |-> "text"]) @@ ("android" :> [ttl |-> "2000ms"]) @@
  ("fcmOptions" :> [analyticsLabel |-> "text"]) @@ ("webpush" :> [link |-> "text"]) @@
  ("webpush.headers" :> [key |-> "text"]) @@
  ("android.notification" :> [titleLocArgs |-> "args"])

(* Accepted again once it is converted: it has no duration outside of what is renamed. *)
NoTtl == [FullMessage EXCEPT !["android"] = [collapseKey |-> "text"]]

MCBodies == {[o \in MsgObject |-> IF o \in Instance THEN NoTtl ELSE FullMessage]}

MCEdits == {NoLocKey}

MCBatches == {<<o, o>> : o \in MsgObject}

MCTokenLists == {<< >>, <<"t1", "t2">>, <<"t2", "">>}

MCFcmAnswers == {[status |-> 503, isJson |-> FALSE, code |-> "none"]}
=============================================================================
