CONSTANTS
  Threads = {t1, t2}
  Messages = {m1, m2}
  NoMessage = NoMessage
  NoThread = NoThread
  MaxSeconds = 3
  MaxNow = 2
  MaxBack = 2

SPECIFICATION LogFairSpec

PROPERTIES
  DropsOnlyRepeats
  NotTwiceASecond
  InOrder
  LogIsFree
