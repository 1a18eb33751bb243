SPECIFICATION Spec
CONSTANTS
  Builder <- MCBuilder
  Factory <- MCFactory
  Slave <- MCSlave
  Slaves <- MCSlaves
  MaxBuilds <- MCMaxBuilds
  Offered <- MCOffered
  Crew <- MCCrew
  TestsFirst <- MCTestsFirst
  OwnAt <- MCOwnAt
  Request <- MCRequest
  Asked <- MCAsked
  MaxFaults <- MCMaxFaults
INVARIANTS
  TypeOK
  OwnShipped
  OwnTested
  CleanSlateOwn
  ShipsTested
CHECK_DEADLOCK FALSE
