CONSTANTS
  Size = 2
  Asdu <- MCAnswer
  NoAsdu = NoAsdu
  K = 1
  HandlerSets <- MCHandlerSets
  Causes = {"ACTIVATION", "REQUEST"}
  MaxCommands = 2
  MaxAnswers = 3
  MaxStarts = 2
  MaxTerminations = 1
SPECIFICATION DispatchSpec
CHECK_DEADLOCK FALSE
INVARIANTS OneVerdict
PROPERTIES ImplementsFifo AnswersInOrder NoAnswerCrossesStart
