CONSTANTS
  Thread = {t1, t2, t3}
  HandOff = FALSE
SPECIFICATION FairSpec
INVARIANTS NoDeadlock
PROPERTIES NoReaderPassesWriter AnnouncedWriterServed ImplementsRWLock
