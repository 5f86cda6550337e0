----------------------------- MODULE NoticePath -----------------------------
(***************************************************************************)
(* A notice from the callback that blocked something to the control room:  *)
(* the throttled notifier of one process, its transport (notify.py), and   *)
(* the bot's endpoint with a window of its own, which every process and    *)
(* everybody who knows the secret share (guardian_bot/__init__.py). A      *)
(* request travels; the process stops waiting for it after                 *)
(* WEBHOOK_TIMEOUT_S, which does not call it back.                         *)
(***************************************************************************)
EXTENDS Notifier, Config

CONSTANTS
  Configs,                 \* what homeserver.yaml may say at a start
  Secrets,
  BotConfigs,              \* what the bot's own configuration may say
  WEBHOOK_TIMEOUT_S,
  NOTIFY_MAX_PER_WINDOW, NOTIFY_WINDOW_S,
  MaxDelay,                \* bound: how long a request may travel
  MaxRestarts              \* bound: how often the process restarts

\* parse takes no transport but these two; a secret is what is given for one.
ASSUME PathAssumption ==
  /\ Unset \notin Secrets /\ Blank \notin Secrets
  /\ \A path \in DOMAIN FileText : FileText[path] \in Secrets \cup {Blank, Unreadable}
  /\ \A cfg \in Configs :
       /\ cfg["notify_via"] \in {Unset, "room", "bot", Ill}
       /\ cfg["notify_secret"] \in Secrets \cup {Unset, Blank, Ill}
       /\ cfg["notify_secret_path"] \in DOMAIN FileText \cup {Unset, Blank, Ill}
  /\ BotConfigs \subseteq [notify_secret : Secrets \cup {Unset, Blank}, control_room : BOOLEAN]
  /\ WEBHOOK_TIMEOUT_S \in Nat /\ MaxDelay \in Nat /\ MaxRestarts \in Nat
  /\ NOTIFY_MAX_PER_WINDOW \in Nat \ {0} /\ NOTIFY_WINDOW_S \in Nat \ {0}

VARIABLES
  service,                 \* the notifier of the process
  mail,                    \* its requests on their way
  bot,                     \* the bot's configuration
  bot_window_started, bot_sent_in_window,
  posted,                  \* ghost: the bot's posts of the last NOTIFY_WINDOW_S
  restarts                 \* counted for its bound

notifier == <<recent, window_started, sent_in_window, log>>
endpoint == <<bot_window_started, bot_sent_in_window, posted>>
pathVars == <<now, notifier, service, mail, bot, endpoint, restarts>>

Letters == [key : Keys, at : Nat, auth : Secrets \cup {Unset}, awaited : BOOLEAN]

\* What the configurations make of a start.
Starts == {Started(cfg) : cfg \in Configs}

PathInit ==
  /\ Init
  /\ service \in Starts
  /\ mail = {}
  /\ bot \in BotConfigs
  /\ bot_window_started = 0 /\ bot_sent_in_window = 0
  /\ posted = <<>>
  /\ restarts = 0
-----------------------------------------------------------------------------
\* _block: notify() runs in the background; what it lets through is sent.
Letter(k) == [key |-> k, at |-> now, auth |-> service.secret, awaited |-> TRUE]
Block(k) ==
  /\ service.transport \in {"room", "bot"}
  /\ \/ LetThrough(k) /\ mail' = mail \cup {Letter(k)}
     \/ (Repeated(k) \/ Suppress(k)) /\ UNCHANGED mail
  /\ UNCHANGED <<now, service, bot, endpoint, restarts>>

\* RoomNotifier.message: Synapse persists the event, or raises; either is the end.
PostAsUser(m) ==
  /\ m \in mail /\ m.auth = Unset
  /\ mail' = mail \ {m}
  /\ UNCHANGED <<now, notifier, service, bot, endpoint, restarts>>

\* WebhookNotifier.message gives up; the request may still arrive.
TimeOut(m) ==
  /\ m \in mail /\ m.auth # Unset /\ m.awaited
  /\ now - m.at >= WEBHOOK_TIMEOUT_S
  /\ mail' = (mail \ {m}) \cup {[m EXCEPT !.awaited = FALSE]}
  /\ UNCHANGED <<now, notifier, service, bot, endpoint, restarts>>

(***************************************************************************)
(* The bot's endpoint. parse_notify_request, in the order of its refusals. *)
(***************************************************************************)
Status(auth, fits, well_formed, botCfg) ==
  IF ~Given(botCfg.notify_secret) THEN 503
  ELSE IF auth # botCfg.notify_secret THEN 401
  ELSE IF ~fits THEN 413
  ELSE IF ~well_formed THEN 400
  ELSE IF ~botCfg.control_room THEN 503
  ELSE 200

BotNewWindow == now - bot_window_started >= NOTIFY_WINDOW_S
StuckBotSent == bot_sent_in_window
BotSent == IF BotNewWindow THEN 0 ELSE bot_sent_in_window
BotWindowStart == IF BotNewWindow THEN now ELSE bot_window_started

\* _notify_allowed says no: answered with 200 and forgotten.
BotDrops ==
  /\ BotSent >= NOTIFY_MAX_PER_WINDOW
  /\ bot_window_started' = BotWindowStart
  /\ bot_sent_in_window' = BotSent
  /\ UNCHANGED posted

\* The notice is counted, then sent; that the homeserver may refuse it (502) changes nothing.
LateBotPosts ==
  /\ BotSent <= NOTIFY_MAX_PER_WINDOW
  /\ bot_window_started' = BotWindowStart
  /\ bot_sent_in_window' = BotSent + 1
  /\ posted' = Append(posted, [at |-> now])
BotPosts ==
  /\ BotSent < NOTIFY_MAX_PER_WINDOW
  /\ bot_window_started' = BotWindowStart
  /\ bot_sent_in_window' = BotSent + 1
  /\ posted' = Append(posted, [at |-> now])

BotHandles(status) ==
  \/ status # 200 /\ UNCHANGED endpoint
  \/ status = 200 /\ (BotDrops \/ BotPosts)

\* A request arrives, whether the process still waits for the answer or not.
Arrive(m) ==
  /\ m \in mail /\ m.auth # Unset
  /\ \E fits \in BOOLEAN : BotHandles(Status(m.auth, fits, TRUE, bot))
  /\ mail' = mail \ {m}
  /\ UNCHANGED <<now, notifier, service, bot, restarts>>

Lose(m) ==
  /\ m \in mail /\ m.auth # Unset
  /\ mail' = mail \ {m}
  /\ UNCHANGED <<now, notifier, service, bot, endpoint, restarts>>

\* Another process, or anybody else, posts to the endpoint.
Intrude(auth, fits, well_formed) ==
  /\ BotHandles(Status(auth, fits, well_formed, bot))
  /\ UNCHANGED <<now, notifier, service, mail, bot, restarts>>

\* maubot's administrator edits the bot's configuration, which is read anew each time.
Reconfigure(botCfg) ==
  /\ botCfg # bot /\ bot' = botCfg
  /\ UNCHANGED <<now, notifier, service, mail, endpoint, restarts>>

(***************************************************************************)
(* Time passes: no request outlives MaxDelay and no timer is late.         *)
(***************************************************************************)
TimersKept ==
  \A m \in mail : now - m.at < MaxDelay /\ (m.awaited => now - m.at < WEBHOOK_TIMEOUT_S)
Forget == posted' \in Since(posted, now', NOTIFY_WINDOW_S)

PathTick ==
  /\ Tick /\ TimersKept /\ Forget
  /\ UNCHANGED <<service, mail, bot, bot_window_started, bot_sent_in_window, restarts>>

\* Synapse restarts, which takes time, perhaps with another configuration.
Restart(started) ==
  /\ restarts < MaxRestarts /\ restarts' = restarts + 1
  /\ now < MaxTime /\ now' = now + 1 /\ TimersKept /\ Forget
  /\ recent' = [k \in Keys |-> Never] /\ window_started' = 0 /\ sent_in_window' = 0
  /\ log' = <<>>
  /\ service' = started
  /\ mail' = {[m EXCEPT !.awaited = FALSE] : m \in {l \in mail : l.auth # Unset}}
  /\ UNCHANGED <<bot, bot_window_started, bot_sent_in_window>>

PathNext ==
  \/ \E k \in Keys : Block(k)
  \/ \E m \in mail : PostAsUser(m) \/ TimeOut(m) \/ Arrive(m) \/ Lose(m)
  \/ \E auth \in Secrets, fits, well_formed \in BOOLEAN : Intrude(auth, fits, well_formed)
  \/ \E botCfg \in BotConfigs : Reconfigure(botCfg)
  \/ PathTick
  \/ \E started \in Starts : Restart(started)

PathSpec == PathInit /\ [][PathNext]_pathVars
-----------------------------------------------------------------------------
\* Every variable has its type, and only a process that runs waits for an answer.
PathTypeOK ==
  /\ TypeOK
  /\ service \in [transport : {"refused", "off", "assertion", "room", "bot"},
                  secret : Secrets \cup {Unset}]
  /\ service.transport = "bot" <=> service.secret # Unset
  /\ mail \subseteq Letters
  /\ \A m \in mail : m.awaited => service.transport \in {"room", "bot"} /\ m.auth = service.secret
  /\ bot \in BotConfigs
  /\ bot_window_started \in 0..now /\ bot_sent_in_window \in 0..NOTIFY_MAX_PER_WINDOW
  /\ restarts \in 0..MaxRestarts

(***************************************************************************)
(* Whatever homeserver.yaml says and whatever has become of the secret's   *)
(* file, parse refuses it or the module starts: Guardian.__init__ never    *)
(* meets an assertion of its own half-way through building its parts.      *)
(***************************************************************************)
ConfigStarts == service.transport # "assertion"

(***************************************************************************)
(* "A leaked secret must not be usable to flood the room": however many    *)
(* processes and others post, and however often Synapse restarts and       *)
(* forgets its own window, the bot posts two windows' worth at most in any *)
(* NOTIFY_WINDOW_S.                                                        *)
(***************************************************************************)
RoomFloodBounded == Len(posted) <= 2 * NOTIFY_MAX_PER_WINDOW

(***************************************************************************)
(* The bot never turns quiet for good: it drops a request it accepts only  *)
(* if a whole window's worth was posted in the last NOTIFY_WINDOW_S,       *)
(* wherever the clock stood when it was started.                           *)
(***************************************************************************)
BotDropsForCause ==
  BotSent >= NOTIFY_MAX_PER_WINDOW => Len(posted) >= NOTIFY_MAX_PER_WINDOW

\* The endpoint's window bounds what reaches the room, and bounds nothing else.
BotThrottles == RoomFloodBounded /\ BotDropsForCause
=============================================================================
