----------------------------- MODULE MCWorkerPool -----------------------------
\* The jobs of the second half of an AUTOMOC and AUTOUIC run: two probe jobs
\* push a compile job each while the next fence job may already wait for them;
\* that one pushes the last job.  Or the second probe finds an error and aborts
\* while the first still pushes, or while nothing else is left to do.
EXTENDS WorkerPool, TLC

CONSTANTS probeMoc, probeUic, badProbe, probeFinish, compileMoc, compileUic, finish,
          w1, w2, w3

MCJob == {probeMoc, probeUic, badProbe, probeFinish, compileMoc, compileUic, finish}
MCScript ==
  probeMoc :> <<PushOp(compileMoc)>> @@ probeUic :> <<PushOp(compileUic)>> @@
  badProbe :> <<AbortOp>> @@ probeFinish :> <<PushOp(finish)>> @@
  compileMoc :> <<RunOp>> @@ compileUic :> <<RunOp>> @@ finish :> <<AbortOp>>

MCInitialQueue == 
  {<<probeMoc, probeUic, probeFinish>>, <<probeMoc, badProbe, probeFinish>>,
   <<probeMoc, probeFinish>>, <<badProbe>>}
=============================================================================
