----------------------------- MODULE ModesProofs -----------------------------
(***************************************************************************)
(* The theorems of RealtimeControlProofs about a session, for the          *)
(* specification that is model-checked: a session of either mode of the    *)
(* script.  The mode never changes, so a behaviour is one of the two       *)
(* sessions from start to end.                                             *)
(***************************************************************************)
EXTENDS RealtimeModes, TLAPS

\* The mode is chosen once, and a step of the session of that mode is all that
\* can follow.
LEMMA ModeStays ==
  /\ ModesInit => IsContinuous \/ IsSequential
  /\ IsContinuous /\ [ModesNext]_modesVars => IsContinuous' /\ [Continuous!SessionNext]_Continuous!svars
  /\ IsSequential /\ [ModesNext]_modesVars => IsSequential' /\ [Sequential!SessionNext]_Sequential!svars
<1>1. modesVars' = modesVars => Continuous!svars' = Continuous!svars /\ Sequential!svars' = Sequential!svars
                                /\ mode' = mode
  BY DEF modesVars, Continuous!svars, Sequential!svars,
     Continuous!sessionVars, Sequential!sessionVars, Continuous!vars, Sequential!vars,
     Continuous!wvars, Sequential!wvars, Continuous!workerVars, Sequential!workerVars,
     Continuous!bufferVars, Sequential!bufferVars, Continuous!loopVars, Sequential!loopVars,
     Continuous!loopControl, Sequential!loopControl, Continuous!loopTick, Sequential!loopTick,
     Continuous!loopHistory, Sequential!loopHistory
<1> QED BY <1>1 DEF ModesInit, ModesNext, IsContinuous, IsSequential

\* A behaviour that begins in a mode is a session of that mode.
LEMMA OneSession ==
  /\ ModesSpec => IsContinuous \/ IsSequential
  /\ ModesSpec /\ IsContinuous => []IsContinuous /\ Continuous!SessionSpec
  /\ ModesSpec /\ IsSequential => []IsSequential /\ Sequential!SessionSpec
<1>1. ModesInit /\ IsContinuous => Continuous!SessionInit
  BY DEF ModesInit, IsContinuous
<1>2. ModesInit /\ IsSequential => Sequential!SessionInit
  BY DEF ModesInit, IsSequential
<1>3. ModesInit => IsContinuous \/ IsSequential
  BY ModeStays
<1> QED BY <1>1, <1>2, <1>3, ModeStays, PTL DEF ModesSpec, Continuous!SessionSpec, Sequential!SessionSpec

\* The loop runs only between its start and its join, on something usable,
\* whatever the mode (run() and shutdown() of the realtime script).
THEOREM ModesRunWithinSession == ModesSpec => []LoopWithinSession
<1>1. Continuous!SessionSpec => []Continuous!LoopWithinSession
  BY Continuous!LoopRunsWithinSession, ModesAssumption
  DEF Continuous!ChunkAssumption, Continuous!BufferAssumption, Continuous!WorkerAssumption,
      Continuous!LoopAssumption
<1>2. Sequential!SessionSpec => []Sequential!LoopWithinSession
  BY Sequential!LoopRunsWithinSession, ModesAssumption
  DEF Sequential!ChunkAssumption, Continuous!BufferAssumption, Sequential!BufferAssumption,
      Sequential!WorkerAssumption, Continuous!LoopAssumption, Sequential!LoopAssumption
<1>3. Sequential!LoopWithinSession => LoopWithinSession
  BY DEF LoopWithinSession, Continuous!LoopWithinSession, Sequential!LoopWithinSession
<1>4. Continuous!LoopWithinSession => LoopWithinSession
  BY DEF LoopWithinSession
<1> QED BY <1>1, <1>2, <1>3, <1>4, OneSession, PTL

\* A sequential cycle executes exactly the chunk it admitted
\* (SequentialChunksOrchestrator runs its child with single_chunk).
THEOREM ModesExecuteAdmitted == ModesSpec => []OnlyTheAdmittedChunk
<1>1. Sequential!SessionSpec => []Sequential!OnlyTheAdmittedChunk
  BY Sequential!AdmittedChunkOnly, ModesAssumption
  DEF Sequential!ChunkAssumption, Continuous!BufferAssumption, Sequential!BufferAssumption,
      Sequential!WorkerAssumption, Continuous!LoopAssumption, Sequential!LoopAssumption
<1>2. IsContinuous => OnlyTheAdmittedChunk
  BY DEF IsContinuous, IsSequential, OnlyTheAdmittedChunk
<1>3. Sequential!OnlyTheAdmittedChunk => OnlyTheAdmittedChunk
  BY DEF OnlyTheAdmittedChunk
<1> QED BY <1>1, <1>2, <1>3, OneSession, PTL

\* The return to start is undisturbed, interrupted or not
\* (execute_return_to_start).
THEOREM ModesReturnUndisturbed == ModesSpec => []ReturnsUndisturbed
<1>1. Continuous!SessionSpec => []Continuous!ReturnsUndisturbed
  BY Continuous!ReturnIsUndisturbed, ModesAssumption
  DEF Continuous!ChunkAssumption, Continuous!BufferAssumption, Continuous!WorkerAssumption,
      Continuous!LoopAssumption
<1>2. Sequential!SessionSpec => []Sequential!ReturnsUndisturbed
  BY Sequential!ReturnIsUndisturbed, ModesAssumption
  DEF Sequential!ChunkAssumption, Continuous!BufferAssumption, Sequential!BufferAssumption,
      Sequential!WorkerAssumption, Continuous!LoopAssumption, Sequential!LoopAssumption
<1>3. Continuous!ReturnsUndisturbed => ReturnsUndisturbed
  BY DEF ReturnsUndisturbed, Continuous!ReturnsUndisturbed, Sequential!ReturnsUndisturbed,
     Continuous!ReturnsAloneAfterCleanStop, Sequential!ReturnsAloneAfterCleanStop,
     Continuous!AtMostOneForeignWrite, Sequential!AtMostOneForeignWrite
<1>4. Sequential!ReturnsUndisturbed => ReturnsUndisturbed
  BY DEF ReturnsUndisturbed
<1> QED BY <1>1, <1>2, <1>3, <1>4, OneSession, PTL

\* A session of either mode owns its threads in a way RealtimeControl allows,
\* step by step: what is proved of any owner holds of both
\* (run_real_pick_drop_realtime.py and the two classes it drives).
THEOREM ModesUseControl == ModesSpec => SessionUsesControl
<1>1. Continuous!SessionSpec => Continuous!SessionUsesControl
  BY Continuous!SessionsUseControl, ModesAssumption
  DEF Continuous!ChunkAssumption, Continuous!BufferAssumption, Continuous!WorkerAssumption,
      Continuous!LoopAssumption
<1>2. Sequential!SessionSpec => Sequential!SessionUsesControl
  BY Sequential!SessionsUseControl, ModesAssumption
  DEF Sequential!ChunkAssumption, Continuous!BufferAssumption, Sequential!BufferAssumption,
      Sequential!WorkerAssumption, Continuous!LoopAssumption, Sequential!LoopAssumption
<1>3. /\ IsContinuous /\ [Continuous!ControlNext]_Continuous!vars => [ControlOfMode]_controlVars
      /\ IsSequential /\ [Sequential!ControlNext]_Sequential!vars => [ControlOfMode]_controlVars
  <2>1. Sequential!vars' = Sequential!vars => controlVars' = controlVars
    BY DEF controlVars, Continuous!vars, Sequential!vars, Continuous!wvars, Sequential!wvars,
       Continuous!workerVars, Sequential!workerVars, Continuous!bufferVars, Sequential!bufferVars,
       Continuous!loopVars, Sequential!loopVars, Continuous!loopControl, Sequential!loopControl,
       Continuous!loopTick, Sequential!loopTick, Continuous!loopHistory, Sequential!loopHistory
  <2> QED BY <2>1 DEF controlVars, ControlOfMode
<1> QED BY <1>1, <1>2, <1>3, OneSession, PTL
        DEF SessionUsesControl, Continuous!SessionUsesControl, Sequential!SessionUsesControl
=============================================================================
