SPECIFICATION SysopSpec
CONSTANT Threads = {t1, t2, t3}
INVARIANTS SysopTypeOK SysopHasTheTnc DivertedToSomeone
