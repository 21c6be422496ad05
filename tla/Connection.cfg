SPECIFICATION FairConn
CONSTANTS
  Scripts <- MCScripts
  Answers <- MCAnswers
  MaxHeaderLines <- MCMaxHeaderLines
  MaxHeaderBytes <- MCMaxHeaderBytes
  MaxBody <- MCMaxBody
  MaxResponse <- MCMaxResponse
  MaxInt <- MCMaxInt
  BackendBytes = 2
INVARIANTS
  TunnelFaithful
  RequestIntact
  BodyBounded
  AnswerIntact
PROPERTIES
  ConnectionEnds
