SPECIFICATION Spec
CONSTANT MaxQueue <- MCMaxQueue
INVARIANTS TypeOK OnlyStaleTimeouts
PROPERTY TimedReturns
