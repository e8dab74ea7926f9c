CONSTANTS
  Octets <- SomeOctets
  ServerFrames <- SomeFrames
  MaxFrames = 3
  UserMessages <- OneMessage
  MaxSends = 1
  Short = 1
  Medium = 4
  Pieces = {3, 20}
  Texts <- SomeTexts
  Demands <- SomeDemands
  Answers <- SomeAnswers
  MaxRequests = 3
SPECIFICATION Spec
CHECK_DEADLOCK FALSE
PROPERTY RedirectsFollowed
