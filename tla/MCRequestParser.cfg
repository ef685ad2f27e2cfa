CONSTANTS
    MaxLength = 25
    MaxText = 4
    Kept = {"P", ":", "SP"}
    KeptInUri = {"P", "%", "1", "+"}
SPECIFICATION Spec
CHECK_DEADLOCK FALSE
INVARIANTS TypeOK ResultIsThatOfTheGrammar RequestIsTheOneSent PathIsTheTextOfTheUri
