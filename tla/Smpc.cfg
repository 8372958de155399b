\* One routine; a short command takes one slice, a long one two.
CONSTANTS
  Routines = {slaveMain}
  Programs <- Guests
  ShortDelay = 1
  LongDelay = 2
SPECIFICATION MCSpec
INVARIANTS RequestIsServed OwedIsAnnounced ReleaseIsAReset SettingsSurvive PadPathsAgree
PROPERTIES SlaveStartsEventually
