SPECIFICATION FairGateSpec
CONSTANTS
  User = user
  Playback = {speaker, timer}
  Policies <- Bound
  MaxRequests = 2
INVARIANTS DeferralIsOwedAWake RequestReleasesOneRun
PROPERTIES DeferredIsReleased
