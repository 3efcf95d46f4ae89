SPECIFICATION FairSpec
CONSTANTS
  info = info  warn = warn  alert = alert
  Messages = {info, warn, alert}
  Critical = {alert}
  Few = {info, alert}
  MaxToggles = 4
  MaxCrashes = 1
INVARIANTS FollowsRecording
PROPERTIES RecordingFollowsMic QueuedIsSpoken
CHECK_DEADLOCK FALSE
