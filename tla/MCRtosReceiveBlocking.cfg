SPECIFICATION Spec
CONSTANT MaxQueue <- MCMaxQueue
PROPERTY BlockingNeverTimesOut
