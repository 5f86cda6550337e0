------------------------------- MODULE Config -------------------------------
(***************************************************************************)
(* GuardianConfig.parse (config.py) as far as it decides about notices,    *)
(* and what Guardian.__init__ makes of its result. A configuration is the  *)
(* mapping an administrator wrote; values that are refused by themselves,  *)
(* whatever the other keys say, are Ill.                                   *)
(***************************************************************************)
CONSTANTS
  Unset,        \* the key is absent, or null where that means the same
  Ill,          \* of the wrong type, or not an ID, a transport, ...
  Blank,        \* the empty string
  Unreadable,   \* in place of a file's text: open() or read() raises
  FileText      \* [path -> the text of the file, stripped]

ConfigKeys ==
  {"others", "control_room", "notify_room", "notify_user", "notify_via", "notify_url",
   "notify_secret", "notify_secret_path"}

Given(value) == value \notin {Unset, Blank}

NotifyRoom(cfg) == cfg["notify_room"] = TRUE
NotifyVia(cfg) == IF cfg["notify_via"] = Unset THEN "room" ELSE cfg["notify_via"]

Secret(cfg) ==
  IF Given(cfg["notify_secret_path"]) THEN FileText[cfg["notify_secret_path"]]
  ELSE IF Given(cfg["notify_secret"]) THEN cfg["notify_secret"] ELSE Unset

SecretRefused(cfg) ==
  /\ Given(cfg["notify_secret_path"])
  /\ Given(cfg["notify_secret"]) \/ FileText[cfg["notify_secret_path"]] \in {Unreadable, Blank}

\* What the transport that was chosen cannot do without.
InlineIncomplete(cfg) ==
  \/ NotifyVia(cfg) = "room" /\ Unset \in {cfg["control_room"], cfg["notify_user"]}
  \/ NotifyVia(cfg) = "bot" /\ cfg["notify_secret_path"] = Unset
     /\ ~(Given(cfg["notify_url"]) /\ Given(cfg["notify_secret"]))
Incomplete(cfg) ==
  \/ NotifyVia(cfg) = "room" /\ Unset \in {cfg["control_room"], cfg["notify_user"]}
  \/ NotifyVia(cfg) = "bot" /\ ~(Given(cfg["notify_url"]) /\ Given(Secret(cfg)))

\* ConfigError: Synapse refuses to start.
Refused(cfg) ==
  \/ \E key \in ConfigKeys : cfg[key] = Ill
  \/ SecretRefused(cfg)
  \/ NotifyRoom(cfg) /\ Incomplete(cfg)

\* The notifier Guardian.__init__ builds, or its assertions fail.
Started(cfg) ==
  LET needed == IF NotifyVia(cfg) = "bot" THEN {cfg["notify_url"], Secret(cfg)}
                ELSE {cfg["control_room"], cfg["notify_user"]}
  IN IF Refused(cfg) THEN [transport |-> "refused", secret |-> Unset]
     ELSE IF ~NotifyRoom(cfg) THEN [transport |-> "off", secret |-> Unset]
     ELSE IF Unset \in needed THEN [transport |-> "assertion", secret |-> Unset]
     ELSE IF NotifyVia(cfg) = "bot" THEN [transport |-> "bot", secret |-> Secret(cfg)]
     ELSE [transport |-> "room", secret |-> Unset]
=============================================================================
