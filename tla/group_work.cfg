\* mango_wait of dev/src/mango_hn.c; two groups, one after the other, whose barriers
\* have a FIFO event and meet the most general host.
SPECIFICATION FifoSpec
CONSTANTS
  Accumulate = TRUE
  Thread = {t1, t2, t3, t4}
  Main = main
  Barriers = 3
  Groups = 2
  WaitRestores = TRUE
  WithFifo = TRUE
INVARIANTS OneHolder BarrierSafety JoinSafety IInv
PROPERTIES WritesFindZero ImplementsForkJoin BarrierOpens Terminates
