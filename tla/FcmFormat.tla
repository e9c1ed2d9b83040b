------------------------------ MODULE FcmFormat ------------------------------
(***************************************************************************)
(* The steps of validateMessage() of messaging/messaging-internal.ts, and  *)
(* the names and values of the FCM API, as tables for MessageFormat.       *)
(*                                                                         *)
(* Topics that have their prefix twice, or nothing after it, are left out: *)
(* refused and stripped, they are accepted the next time (bound).  A word  *)
(* in upper case is not converted again (bound: only a refused message is  *)
(* met with its words converted and not renamed).                          *)
(***************************************************************************)
EXTENDS MessageFormat

CONSTANTS
  Topics,      \* the topics that are accepted, with or without "/topics/"
  TopicNames,  \* those with "/topics/", well-formed or not, to the names after it
  MessageUrl,  \* the strings isURL() accepts
  Durations,   \* milliseconds, to seconds: transformMillisecondsToSecondsString()
  Dates,       \* Date objects, to the strings of toISOString()
  Rgb,         \* the colours #RRGGBB, to the channels with full alpha
  Rgba,        \* the colours #RRGGBBAA, to their channels
  Words        \* the words of priority, proxy and visibility, to upper case

AnalyticsLabel == "analyticsLabel" :> MessageStrings

ImageUrl == "imageUrl" :> MessageUrl

validateStringMap(path) == <<[Step(path) EXCEPT !.strings = TRUE]>>

\* The prefix of a topic goes first, whatever becomes of the message.
validateTarget ==
  <<[Step("target") EXCEPT !.keys = {"topic"}],
    [Step("target") EXCEPT !.accepts = "topic" :> (Topics \cup {""}), !.oneOf = {"token", "topic", "condition"}]>>

validateLightSettings ==
  LET step == [Step("android.notification.lightSettings") EXCEPT !.moves = TRUE]
      Duration(key) ==
        [step EXCEPT !.required = {key}, !.accepts = key :> DOMAIN Durations, !.keys = {key}]
  IN <<Duration("lightOnDurationMillis"), Duration("lightOffDurationMillis"),
       [step EXCEPT !.required = {"color"}, !.accepts = "color" :> (DOMAIN Rgb \cup DOMAIN Rgba),
                    !.keys = {"color"}, !.renames = TRUE]>>

validateAndroidNotification ==
  LET step == Step("android.notification") IN
  <<[step EXCEPT
       !.accepts = ("color" :> DOMAIN Rgb) @@ ("eventTimestamp" :> DOMAIN Dates) @@ ImageUrl,
       !.texts = [bodyLocArgs |-> "bodyLocKey", titleLocArgs |-> "titleLocKey"],
       !.keys = {"eventTimestamp"}],
    [step EXCEPT !.accepts = "vibrateTimingsMillis" :> DOMAIN Durations,
                 !.keys = {"vibrateTimingsMillis", "priority", "proxy", "visibility"}]>>
  \o validateLightSettings
  \o <<[step EXCEPT !.renames = TRUE]>>

validateAndroidConfig ==
  <<[Step("android") EXCEPT !.accepts = "ttl" :> DOMAIN Durations, !.keys = {"ttl"}]>>
  \o validateStringMap("android.data")
  \o validateAndroidNotification
  \o <<[Step("android.fcmOptions") EXCEPT !.accepts = AnalyticsLabel],
       [Step("android") EXCEPT !.renames = TRUE]>>

validateWebpushConfig ==
  <<Step("webpush")>> \o validateStringMap("webpush.headers") \o validateStringMap("webpush.data")

validateApsAlert ==
  <<[Step("apns.aps") EXCEPT !.accepts = "alert" :> MessageStrings],
    [Step("apns.aps.alert") EXCEPT
       !.texts = [locArgs |-> "locKey", titleLocArgs |-> "titleLocKey", subtitleLocArgs |-> "subtitleLocKey"],
       !.renames = TRUE]>>

validateApsSound ==
  <<[Step("apns.aps") EXCEPT !.accepts = "sound" :> MessageText],
    [Step("apns.aps.sound") EXCEPT
       !.required = {"name"}, !.accepts = ("name" :> MessageText) @@ ("volume" :> {"0", "1"}),
       !.keys = {"critical"}]>>

Flags == [contentAvailable |-> "content-available", mutableContent |-> "mutable-content"]

validateAps ==
  validateApsAlert \o validateApsSound
  \o <<[Step("apns.aps") EXCEPT !.once = TRUE, !.renames = TRUE, !.keys = DOMAIN Flags \cup Range(Flags)]>>

validateApnsConfig ==
  <<Step("apns")>> \o validateStringMap("apns.headers") \o validateAps
  \o <<[Step("apns.fcmOptions") EXCEPT !.accepts = ImageUrl @@ AnalyticsLabel, !.once = TRUE, !.renames = TRUE]>>

validateNotification ==
  <<[Step("notification") EXCEPT !.accepts = ImageUrl, !.once = TRUE, !.renames = TRUE]>>

FcmSteps ==
  validateTarget \o validateStringMap("data") \o validateAndroidConfig \o validateWebpushConfig
  \o validateApnsConfig \o <<[Step("fcmOptions") EXCEPT !.accepts = AnalyticsLabel]>> \o validateNotification
-----------------------------------------------------------------------------
FcmNames ==
  ("android" :> [collapseKey |-> "collapse_key", restrictedPackageName |-> "restricted_package_name",
                 directBootOk |-> "direct_boot_ok"]) @@
  ("android.notification" :>
     [clickAction |-> "click_action", bodyLocKey |-> "body_loc_key", bodyLocArgs |-> "body_loc_args",
      titleLocKey |-> "title_loc_key", titleLocArgs |-> "title_loc_args", channelId |-> "channel_id",
      imageUrl |-> "image", eventTimestamp |-> "event_time", localOnly |-> "local_only",
      priority |-> "notification_priority", vibrateTimingsMillis |-> "vibrate_timings",
      defaultVibrateTimings |-> "default_vibrate_timings", defaultSound |-> "default_sound",
      defaultLightSettings |-> "default_light_settings", notificationCount |-> "notification_count"]) @@
  ("android.notification.lightSettings" :>
     [lightOnDurationMillis |-> "light_on_duration", lightOffDurationMillis |-> "light_off_duration"]) @@
  ("apns.aps" :> (Flags @@ [threadId |-> "thread-id"])) @@
  ("apns.aps.alert" :>
     [locKey |-> "loc-key", locArgs |-> "loc-args", titleLocKey |-> "title-loc-key",
      titleLocArgs |-> "title-loc-args", subtitleLocKey |-> "subtitle-loc-key",
      subtitleLocArgs |-> "subtitle-loc-args", actionLocKey |-> "action-loc-key",
      launchImage |-> "launch-image"]) @@
  ("apns.fcmOptions" :> [imageUrl |-> "image"]) @@
  ("notification" :> [imageUrl |-> "image"])

\* true and 1 become 1, any other value is removed.
Flag == [v \in {"true", "1"} |-> "1"] @@ [v \in {"false", "0"} |-> "removed"]

FcmValues ==
  ("target" :> [topic |-> TopicNames]) @@
  ("android" :> [ttl |-> Durations]) @@
  ("android.notification" :>
     [eventTimestamp |-> Dates, vibrateTimingsMillis |-> Durations, proxy |-> Words, visibility |-> Words,
      priority |-> [w \in DOMAIN Words |-> "PRIORITY_" \o Words[w]]]) @@
  ("android.notification.lightSettings" :>
     [lightOnDurationMillis |-> Durations, lightOffDurationMillis |-> Durations, color |-> Rgb @@ Rgba]) @@
  ("apns.aps" :> [k \in DOMAIN Flags \cup Range(Flags) |-> Flag]) @@
  ("apns.aps.sound" :> [critical |-> Flag])
=============================================================================
