\* Three goroutines, any number of calls each.
CONSTANT Threads = {t1, t2, t3}
SPECIFICATION FairSpec
INVARIANTS
  TypeOK
  RunOnceAlone
  NilIsTrue
  DisposalIsFinal
PROPERTY
  CallsReturn
