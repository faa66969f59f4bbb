SPECIFICATION MeetSpec
CONSTANTS
  Hosts = {h1}
  Times = {t1, t2}
  Pushers = {p1}
  MaxMeetings = 1
PROPERTY
  PastedLinkKept
CHECK_DEADLOCK FALSE
