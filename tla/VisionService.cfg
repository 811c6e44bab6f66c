SPECIFICATION Spec
SYMMETRY Symmetry
CONSTANTS
  Request = {r1, r2}
  Index = {"video0", "video1"}
  Views <- Scenes
  Threshold = 2
  MaxMisses = 1
  MaxFrames = 2
  MaxTracks = 6
INVARIANTS IdsTellPeopleApart AnswersFitTheFrame
PROPERTY StillPersonKeepsId
