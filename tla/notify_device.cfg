SPECIFICATION Spec
CONSTANTS
  Users = {ann, bob}
  Nobody = nobody
  Devices = {phone}
  Tabs = {t1}
  Notifiers = {g1}
  Categories = {"new_comment"}
  PushIsSetUp = TRUE
  EventBuffer = 1
  MaxEvents = 1
CHECK_DEADLOCK TRUE
PROPERTY AuthorIsSpared
