SPECIFICATION PartsSpec
CONSTANTS
    Codes <- SomeCodes
    MaxRequests = 2
    Base = 4
    Message <- SomeMessages
    Undefined = Undefined
INVARIANTS AnswersSound RefusalsLeaveNoTrace UsesOnlyWhatIsThere StreamsSound
PROPERTIES Served
