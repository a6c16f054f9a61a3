SPECIFICATION FairSpec
CONSTANTS
  e1 = e1
  e2 = e2
  i1 = i1
  Readies <- MCReadies
  Interactions <- MCInteractions
  MaxStarts <- MCMaxStarts
CHECK_DEADLOCK FALSE
INVARIANTS BotInv OnceUnlessRaced HandledOnce AnswersWhoIsThere
PROPERTIES CommandsOffered InteractionsEnd
