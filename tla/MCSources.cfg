SPECIFICATION Spec
CONSTANT None = None
CHECK_DEADLOCK FALSE
INVARIANTS SearchableAsPromised
PROPERTIES ProcessedAsReviewed SourcesAreWhole SearchAnswers AnswersCite
