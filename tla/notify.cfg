SPECIFICATION LiveSpec
CONSTANTS
  Users = {ann, bob}
  Nobody = nobody
  Devices = {phone}
  Tabs = {t1, t2}
  Notifiers = {g1}
  Categories = {"new_comment", "resolved"}
  PushIsSetUp = TRUE
  EventBuffer = 2
  MaxEvents = 3
CHECK_DEADLOCK TRUE
INVARIANT HubIsOpenTabs
INVARIANT ToldOnce
PROPERTY NotifyEnds
