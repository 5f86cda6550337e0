SPECIFICATION PathSpec
CONSTANTS
  a = a
  b = b
  c = c
  d = d
  e = e
  value = value
  s1 = s1
  s2 = s2
  first = first
  second = second
  blank = blank
  gone = gone
  Keys = {a, b, c, d, e}
  DedupeS = 2
  MAX_RECENT = 4
  MAX_NOTICES_PER_WINDOW = 2
  Never = Never
  Booted = {1, 3}
  MaxTime = 5
  Unset = Unset
  Ill = Ill
  Blank = Blank
  Unreadable = Unreadable
  FileText <- MCFileText
  Configs <- MCConfigs
  Secrets = {s1, s2}
  BotConfigs <- MCBotConfigs
  WEBHOOK_TIMEOUT_S = 1
  NOTIFY_MAX_PER_WINDOW = 2
  NOTIFY_WINDOW_S = 2
  MaxDelay = 2
  MaxRestarts = 1
SYMMETRY KeySymmetry
INVARIANT PathTypeOK
INVARIANT Throttled
INVARIANT ConfigStarts
INVARIANT BotThrottles
INVARIANT DroppedForCause
