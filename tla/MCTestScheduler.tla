--------------------------- MODULE MCTestScheduler ---------------------------
(* Small test suites for TLC.  Tests are numbered as CTest numbers them.  Each *)
(* suite is a group of constants that the .cfg files pick with <-; the other   *)
(* constants (-j, options, RUN_SERIAL, ...) are given in the .cfg itself.      *)
EXTENDS TestScheduler, TLC

InOrder == [t \in Test |-> t]
Independent == [t \in Test |-> {}]
OneEach == [t \in Test |-> 1]
NoResources == [t \in Test |-> <<>>]
NoUnits == [u \in {} |-> 0]

Need(type, slots) == [type |-> type, slots |-> slots]

-----------------------------------------------------------------------------
(* "suite": test 2 requires the setups 1 and 6, of which 6 is disabled; 3 asks *)
(* for more slots than -j 3 has; 4 shares a lock with 1; 5 is the cleanup and   *)
(* RUN_SERIAL.                                                                  *)
SuiteDepends ==
  (1 :> {} @@ 2 :> {1, 6} @@ 3 :> {} @@ 4 :> {} @@ 5 :> {1, 2} @@ 6 :> {})
SuiteRequires ==
  (1 :> {} @@ 2 :> {1, 6} @@ 3 :> {} @@ 4 :> {} @@ 5 :> {} @@ 6 :> {})
SuiteRank == (1 :> 1 @@ 6 :> 2 @@ 2 :> 3 @@ 4 :> 4 @@ 3 :> 5 @@ 5 :> 6)
SuiteProcessors == (1 :> 1 @@ 2 :> 2 @@ 3 :> 4 @@ 4 :> 1 @@ 5 :> 1 @@ 6 :> 1)
SuiteLocks ==
  (1 :> {"port"} @@ 2 :> {} @@ 3 :> {"db"} @@ 4 :> {"db", "port"} @@
   5 :> {} @@ 6 :> {})

-----------------------------------------------------------------------------
(* "complete": two units of one resource type and one of another, and three    *)
(* processors under -j 5.  Test 2 requires the setup 1; 3 and 4 want           *)
(* processors of their own; 5 asks for more slots than any unit has; 7 is      *)
(* disabled and depends on 5.                                                  *)
GpuUnits == ("gpu0" :> "gpu" @@ "gpu1" :> "gpu" @@ "key" :> "token")
GpuTotal == ("gpu0" :> 2 @@ "gpu1" :> 1 @@ "key" :> 1)
GpuRequires ==
  (1 :> <<Need("gpu", 1), Need("gpu", 1)>> @@
   2 :> <<Need("gpu", 2), Need("token", 1)>> @@
   3 :> <<>> @@ 4 :> <<>> @@
   5 :> <<Need("gpu", 3)>> @@
   6 :> <<Need("gpu", 1), Need("token", 1)>> @@
   7 :> <<>>)
GpuDepends ==
  (1 :> {} @@ 2 :> {1} @@ 3 :> {} @@ 4 :> {} @@ 5 :> {2} @@ 6 :> {} @@
   7 :> {5})
GpuSetups ==
  (1 :> {} @@ 2 :> {1} @@ 3 :> {} @@ 4 :> {} @@ 5 :> {} @@ 6 :> {} @@ 7 :> {})
GpuProcessors == (1 :> 1 @@ 2 :> 1 @@ 3 :> 2 @@ 4 :> 5 @@ 5 :> 1 @@ 6 :> 1 @@
                  7 :> 1)
=============================================================================
