SPECIFICATION MCSpec
CONSTANTS
  Ids = {1, 2, 3, 4}
  Manifests <- MCManifests
  Requests <- MCRequests
  Scores = {30, 50, 90}
  Boosts = {0, 25}
  Questions <- MCQuestions
  Failures <- MCFailures
  StepCap = 2
  Compositions <- MCCompositions
  MaxDepth = 4
  Declarations <- MCDeclarations
  Tasks <- MCTasks
  Threshold = 40
  Invalid = Invalid
  MaxNumber = 8
  Texts <- MCTexts
  Ranges <- MCRanges
  Situations <- MCSituations
  Queries <- MCQueries
  Scale <- MCScale
  Registered <- MCRegistered
  Words = {"12", "go", "g", "run", "false"}
  Numeric = {"12"}
  Negative = {"5"}
  Unset = Unset
  Lines <- MCLines
  Messages <- MCMessages
  NumProviders = 2
  Hanging <- MCHanging
INVARIANTS RankingIsExplained ResolutionAgrees FirstUntried CompositionsAreSound
  ViewsAgree WorkflowIsWhole VersionsAreOrdered FusionRespectsTheLists HandlersGetTheLine
  OneAnswerEach ReturnsWhenIdle TimelineInOrder
PROPERTIES RouterImplementsDecision LoopsEnd EveryRequestIsAnswered ReturnsAfterClose
CHECK_DEADLOCK FALSE
