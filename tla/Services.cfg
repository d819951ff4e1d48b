\* The bounds are those of MCServices, part by part.
CONSTANTS
  OfUpdates <- MCUpdates
  OfScans <- MCScans
  OfAgent <- MCAgent
  OfFleet <- MCFleet
  OfPage <- MCPage
  OfProbes <- MCProbes
  OfDiscovery <- MCDiscovery
  OfIndex <- MCIndex
  OfRates <- MCRates
  OfJournal <- MCJournal
  OfBroker <- MCBroker
SPECIFICATION FairSpec
INVARIANTS
  StatusIsTrue
  AnswersFollowQuestions
  PushesAreTrue
  FiguresAreTrue
  ProbesAreLimited
  DiscoveryKeepsWishes
  IndexIsComplete
  GuessesBounded
PROPERTIES
  ScansHaveACause
  JournalHolds
  WhatBeginsEnds
CHECK_DEADLOCK FALSE
