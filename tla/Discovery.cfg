SPECIFICATION Spec
CONSTANTS
    Hosts <- AllHosts
    MaxChanges = 1
PROPERTIES
    AutomaticChoiceIsBest
    LinkComesFirst
    PhysicalOnly
    AnswerMeansWhatWasShown
