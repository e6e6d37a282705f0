SPECIFICATION Spec
PROPERTIES MailedCodeBecomesUsable CapturedIsRecorded EveryEmailEnds WorkerStopsAsking EveryFetchEnds
\* A booking whose orders are used up has no step left.
CHECK_DEADLOCK FALSE
CONSTANT None = None
