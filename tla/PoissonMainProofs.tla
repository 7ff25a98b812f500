--------------------------- MODULE PoissonMainProofs ---------------------------
(***************************************************************************)
(* The ranks of the programs, for every number of them: they meet in the   *)
(* same collective calls and end with the same status, the contiguous      *)
(* ranges of MpiContext cover every element once, also for fewer elements  *)
(* than ranks, its graph of the unknowns is symmetric, and the numbering   *)
(* of the system is a permutation that a replicated vector comes back      *)
(* from.  With its partition too, every element has exactly one rank.      *)
(***************************************************************************)
EXTENDS PoissonMain, FiniteSetTheorems, WellFoundedInduction, TLAPS

(* What a step has to leave alone for the other ranks to stay on their     *)
(* way: all they decide by.                                                *)
SameStates ==
  /\ UNCHANGED step /\ DOMAIN vec' = DOMAIN vec
  /\ \A r \in Processes : DOMAIN vec'[r] = DOMAIN vec[r] /\ vec'[r].nxt = vec[r].nxt
SameMatters == UNCHANGED <<case, prm, problem, alone>> /\ task'.converged = task.converged

(* A step that leaves the states alone leaves them replicated.             *)
LEMMA StatesStayReplicated ==
  ASSUME OnAllRanks, Replicated, SameStates, Processes' = Processes, DOMAIN status' = DOMAIN status
  PROVE  OnAllRanks' /\ Replicated'
  BY DEF OnAllRanks, Replicated, SameStates

(* A rank that stays where it is remains on its way to the same call.      *)
LEMMA MeetingStays ==
  ASSUME SameStates, SameMatters, NEW r \in Processes, pc'[r] = pc[r]
  PROVE  Meeting(r)' = Meeting(r)
  BY DEF SameStates, SameMatters, Meeting, AtLast, Stops, Steady

(* A rank that stays where it is will end with the same status.            *)
LEMMA VerdictStays ==
  ASSUME SameStates, SameMatters, NEW r \in Processes, pc'[r] = pc[r], status'[r] = status[r]
  PROVE  Verdict(r)' = Verdict(r)
  BY DEF SameStates, SameMatters, Verdict, HasEnded, Finite

(* A step that only moves something else.                                  *)
LEMMA NobodyMoves ==
  ASSUME MeetIInv, SameStates, SameMatters, UNCHANGED unwritten,
         DOMAIN pc' = DOMAIN pc, DOMAIN status' = DOMAIN status,
         \A r \in Processes : pc'[r] = pc[r] /\ status'[r] = status[r]
  PROVE  MeetIInv'
  <1>1. OnAllRanks' /\ Replicated'
    BY StatesStayReplicated DEF MeetIInv, Processes
  <1>2. Processes' = Processes /\ alone' = alone
    BY DEF Processes, SameMatters
  <1>3. ASSUME NEW r \in Processes
        PROVE  /\ Meeting(r)' = Meeting(r) /\ Verdict(r)' = Verdict(r)
               /\ Ends(r)' = Ends(r) /\ HasEnded(r)' = HasEnded(r)
               /\ status'[r] = status[r]
    BY MeetingStays, VerdictStays DEF Ends, HasEnded
  <1>4. CASE alone
    BY <1>1, <1>2, <1>4 DEF MeetIInv
  <1>5. CASE ~alone
    BY <1>1, <1>2, <1>3, <1>5 DEF MeetIInv, NoVerdictYet, SameMeeting, SameVerdict, FirstHasEnded
  <1> QED
    BY <1>4, <1>5

(* A rank on its way to the call it was on its way to.                     *)
LEMMA OneMoves ==
  ASSUME MeetIInv, SameStates, SameMatters, UNCHANGED unwritten,
         NEW rank \in Processes, NEW place, Goto(rank, place),
         DOMAIN status' = DOMAIN status, \A r \in Processes \ {rank} : status'[r] = status[r],
         ~alone => /\ Meeting(rank)' = Meeting(rank)
                   /\ Ends(rank) => Verdict(rank)' = Verdict(rank)
                   /\ HasEnded(rank)' \/ status'[rank] = 0
                   /\ HasEnded(rank) => HasEnded(rank)'
  PROVE  MeetIInv'
  <1>1. /\ Processes' = Processes /\ alone' = alone /\ pc'[rank] = place
        /\ \A r \in Processes \ {rank} : pc'[r] = pc[r]
    BY DEF Processes, SameMatters, Goto
  <1>2. OnAllRanks' /\ Replicated'
    BY <1>1, StatesStayReplicated DEF MeetIInv
  <1>3. CASE alone
    BY <1>1, <1>2, <1>3 DEF MeetIInv
  <1>4. CASE ~alone
    <2>1. ASSUME NEW r \in Processes \ {rank}
          PROVE  /\ Meeting(r)' = Meeting(r) /\ Verdict(r)' = Verdict(r)
                 /\ Ends(r)' = Ends(r) /\ HasEnded(r)' = HasEnded(r) /\ status'[r] = status[r]
      BY <1>1, MeetingStays, VerdictStays DEF Ends, HasEnded
    <2>2. \A r \in Processes : Meeting(r)' = Meeting(r) /\ (Ends(r)' <=> Ends(r))
      BY <2>1, <1>4 DEF Ends
    <2>3. \A r \in Processes : Ends(r) => Verdict(r)' = Verdict(r)
      BY <2>1, <1>4
    <2>4. SameMeeting' /\ SameVerdict'
      BY <1>1, <1>4, <2>2, <2>3 DEF MeetIInv, SameMeeting, SameVerdict
    <2>5. NoVerdictYet' /\ FirstHasEnded'
      BY <1>1, <1>4, <2>1 DEF MeetIInv, NoVerdictYet, FirstHasEnded
    <2> QED
      BY <1>2, <2>4, <2>5 DEF MeetIInv
  <1> QED
    BY <1>3, <1>4

(* The ranks leave a call for one place, or for the end all with the same  *)
(* status.                                                                 *)
LEMMA AllMove ==
  ASSUME MeetIInv, UNCHANGED <<alone, unwritten>>, OnAllRanks', Replicated',
         NEW from, AllAt(from), from \notin {"finalize", "exited"},
         NEW place, AllGoto(place),
         \/ UNCHANGED status
         \/ place = "finalize" /\ status' = [rank \in Processes |-> 1]
  PROVE  MeetIInv'
  <1>1. Processes' = Processes /\ \A r \in Processes : pc[r] = from /\ pc'[r] = place
    BY DEF Processes, AllGoto, AllAt
  <1>2. CASE alone
    BY <1>2 DEF MeetIInv
  <1>3. CASE ~alone
    <2>1. \A r \in Processes : ~HasEnded(r) /\ status[r] = 0
      BY <1>1, <1>3 DEF MeetIInv, NoVerdictYet, HasEnded
    <2>2. \/ \A r \in Processes : status'[r] = 0
          \/ place = "finalize" /\ \A r \in Processes : status'[r] = 1
      BY <2>1
    <2>3. SameMeeting'
      BY <1>1 DEF SameMeeting, Replicated, Meeting, AtLast, Stops, Steady
    <2>4. SameVerdict'
      BY <1>1, <2>2 DEF SameVerdict, Replicated, Verdict, HasEnded
    <2>5. NoVerdictYet' /\ FirstHasEnded'
      BY <1>1, <1>3, <2>1, <2>2 DEF NoVerdictYet, FirstHasEnded, HasEnded, MeetIInv
    <2> QED
      BY <2>3, <2>4, <2>5 DEF MeetIInv
  <1> QED
    BY <1>2, <1>3

-----------------------------------------------------------------------------
(* What most steps leave alone.                                            *)
LEMMA NoSystemKeeps ==
  ASSUME NoSystem
  PROVE  SameStates
  BY DEF NoSystem, SameStates

(* One of a rank's own vectors.                                            *)
LEMMA OneVectorKeeps ==
  ASSUME OnAllRanks, UNCHANGED step, NEW rank, NEW value,
         vec' = [vec EXCEPT ![rank].res = value] \/ vec' = [vec EXCEPT ![rank].rhs = value]
  PROVE  SameStates
  BY DEF OnAllRanks, SameStates, VectorNames

(* Before the first call of a program all ranks are at one place.          *)
LEMMA InitMeetIInv ==
  ASSUME ProgramsInit
  PROVE  MeetIInv
  <1>1. PICK place \in {"main", "options"} : AtStart(place) /\ PoissonIdle
    BY DEF ProgramsInit, Init, PoissonInit
  <1>2. Processes = Ranks(case.ranks) /\ \A r \in Processes : pc[r] = place /\ status[r] = 0
    BY <1>1 DEF AtStart, Processes
  <1>3. OnAllRanks /\ Replicated
    BY <1>1, <1>2 DEF AtStart, OnAllRanks, Replicated, VectorNames
  <1>4. NoVerdictYet /\ FirstHasEnded
    BY <1>1, <1>2 DEF NoVerdictYet, FirstHasEnded, PoissonIdle
  <1>5. SameMeeting /\ SameVerdict
    BY <1>2 DEF SameMeeting, SameVerdict, Meeting, Ends
  <1> QED
    BY <1>3, <1>4, <1>5 DEF MeetIInv

-----------------------------------------------------------------------------
(* The steps of navier-petsc and navier-resolve.                           *)
LEMMA MainMeets ==
  ASSUME MeetIInv, UNCHANGED poissonVars, Main
  PROVE  MeetIInv'
  <1> DEFINE path == case.config_file
             config == IF path \in DOMAIN Roots THEN LoadConfig(Roots[path]) ELSE Throws
  <1> HIDE DEF config
  <1>1. /\ AllAt("main") /\ SameStates /\ UNCHANGED <<case, problem, alone, unwritten>> /\ task' = task
    BY DEF Main, NoSystem, SameStates, poissonVars
  <1>2. CASE AllGoto("finalize") /\ UNCHANGED status
    BY <1>1, <1>2, AllMove, StatesStayReplicated DEF MeetIInv, AllGoto, Processes
  <1>3. CASE AllThrow
    <2>1. DOMAIN status' = DOMAIN status /\ Processes' = Processes
      BY <1>3 DEF AllThrow, AllGoto, Processes, MeetIInv, OnAllRanks
    <2>2. OnAllRanks' /\ Replicated'
      BY <1>1, <2>1, StatesStayReplicated DEF MeetIInv
    <2> QED
      BY <1>1, <1>3, <2>2, AllMove DEF AllThrow
  <1>4. CASE /\ pc' = [rank \in Processes |-> IF rank = 0 /\ config.output.enabled THEN "build_info" ELSE "problem"]
             /\ UNCHANGED status
    <2>1. Processes' = Processes
      BY <1>4 DEF Processes
    <2>2. OnAllRanks' /\ Replicated'
      BY <1>1, <1>4, <2>1, StatesStayReplicated DEF MeetIInv
    <2>3. CASE alone
      BY <1>1, <2>2, <2>3 DEF MeetIInv
    <2>4. CASE ~alone
      <3>1. \A r \in Processes : pc[r] = "main" /\ pc'[r] \in {"build_info", "problem"} /\ status'[r] = 0
        BY <1>1, <1>4, <2>4 DEF AllAt, MeetIInv, NoVerdictYet, HasEnded
      <3>2. SameMeeting' /\ SameVerdict'
        BY <2>1, <3>1 DEF SameMeeting, SameVerdict, Meeting, Verdict, HasEnded
      <3>3. NoVerdictYet' /\ FirstHasEnded'
        BY <1>1, <2>1, <2>4, <3>1 DEF NoVerdictYet, FirstHasEnded, HasEnded, MeetIInv
      <3> QED
        BY <2>2, <3>2, <3>3 DEF MeetIInv
    <2> QED
      BY <2>3, <2>4
  <1> QED
    BY <1>2, <1>3, <1>4 DEF Main, config

(* The first rank leaves the others: only the states are to be the same.   *)
LEMMA FirstLeaves ==
  ASSUME MeetIInv, SameStates, alone', NEW rank, Throw(rank)
  PROVE  MeetIInv'
  <1>1. Processes' = Processes /\ DOMAIN status' = DOMAIN status
    BY DEF Throw, Goto, Processes
  <1> QED
    BY <1>1, StatesStayReplicated DEF MeetIInv

(* The first rank writes a file that no other waits for.                   *)
LEMMA WriteMeets ==
  ASSUME MeetIInv, UNCHANGED poissonVars,
         WriteBuildInfo \/ OpenRunInfo
  PROVE  MeetIInv'
  <1>1. SameStates /\ UNCHANGED <<case, prm, problem, unwritten, task>>
    BY NoSystemKeeps DEF WriteBuildInfo, OpenRunInfo, Write, Unread, poissonVars
  <1>2. CASE Throw(0) /\ alone'
    BY <1>1, <1>2, FirstLeaves
  <1>3. ASSUME UNCHANGED <<status, alone>>,
               \/ pc[0] = "build_info" /\ Goto(0, "problem")
               \/ pc[0] = "run_info" /\ Goto(0, "observe")
        PROVE  MeetIInv'
    <2>1. PICK place \in {"problem", "observe"} : Goto(0, place)
      BY <1>3
    <2>2. CASE 0 \notin Processes
      <3>1. DOMAIN pc' = DOMAIN pc /\ \A r \in Processes : pc'[r] = pc[r]
        BY <2>1, <2>2 DEF Goto, Processes
      <3> QED
        BY <1>1, <1>3, <3>1, NobodyMoves DEF SameMatters
    <2>3. CASE 0 \in Processes
      <3>1. Meeting(0)' = Meeting(0) /\ Verdict(0)' = Verdict(0)
        BY <1>1, <1>3, <2>3
           DEF Goto, Meeting, Verdict, HasEnded, Processes, AtLast, Stops, Steady, SameStates
      <3>2. ~alone => status[0] = 0 /\ ~HasEnded(0)
        BY <1>3, <2>3 DEF MeetIInv, NoVerdictYet, HasEnded
      <3> QED
        BY <1>1, <1>3, <2>1, <2>3, <3>1, <3>2, OneMoves DEF SameMatters
    <2> QED
      BY <2>2, <2>3
  <1> QED
    BY <1>2, <1>3 DEF WriteBuildInfo, OpenRunInfo, Write

(* NavierProblem's constructor: what the ranks then do of it is the same.  *)
LEMMA ProblemIsMade ==
  ASSUME MeetIInv, UNCHANGED <<case, prm, pc, status, step, vec, alone, unwritten, task>>, problem = "none"
  PROVE  MeetIInv'
  <1>1. Processes' = Processes /\ SameStates
    BY DEF Processes, SameStates
  <1>2. OnAllRanks' /\ Replicated'
    BY <1>1, StatesStayReplicated DEF MeetIInv
  <1>3. CASE alone
    BY <1>2, <1>3 DEF MeetIInv
  <1>4. CASE ~alone
    <2>1. CASE \E r \in Processes : pc[r] \in {"build_info", "problem"}
      <3>1. \A r \in Processes : Meeting(r) = "problem"
        BY <1>4, <2>1 DEF MeetIInv, SameMeeting, Meeting
      <3>2. \A r \in Processes : pc[r] \in {"build_info", "problem"}
        BY <3>1 DEF Meeting
      <3>3. \A r \in Processes : pc'[r] \in {"build_info", "problem"} /\ status'[r] = status[r]
        BY <3>2
      <3>4. SameMeeting' /\ SameVerdict'
        BY <1>1, <3>3 DEF SameMeeting, SameVerdict, Meeting, Verdict, HasEnded
      <3>5. NoVerdictYet' /\ FirstHasEnded'
        BY <1>1, <1>4 DEF MeetIInv, NoVerdictYet, FirstHasEnded, HasEnded
      <3> QED
        BY <1>2, <3>4, <3>5 DEF MeetIInv
    <2>2. CASE \A r \in Processes : pc[r] \notin {"build_info", "problem"}
      <3>1. ASSUME NEW r \in Processes
            PROVE  /\ Meeting(r)' = Meeting(r) /\ Verdict(r)' = Verdict(r)
                   /\ Ends(r)' = Ends(r) /\ HasEnded(r)' = HasEnded(r)
        BY <2>2 DEF Meeting, Verdict, Ends, HasEnded, AtLast, Stops, Steady, Finite
      <3> QED
        BY <1>1, <1>2, <1>4, <3>1
           DEF MeetIInv, NoVerdictYet, SameMeeting, SameVerdict, FirstHasEnded
    <2> QED
      BY <2>1, <2>2
  <1> QED
    BY <1>3, <1>4

(* The steps of the constructor, the last of which decides where all ranks *)
(* go.                                                                     *)
LEMMA ConstructorMeets ==
  ASSUME MeetIInv, UNCHANGED poissonVars,
         ReadMesh \/ MakeModel \/ MakeConditions \/ MakeBoundaryData \/ ProblemThrows
  PROVE  MeetIInv'
  <1>1. UNCHANGED <<case, prm, pc, status, step, vec, alone, unwritten, task>> /\ problem = "none"
    BY 
       DEF ReadMesh, MakeModel, MakeConditions, MakeBoundaryData, ProblemThrows, mainVars,
           NoSystem, poissonVars
  <1> QED
    BY <1>1, ProblemIsMade

(* A rank has its problem, or its constructor threw as on all ranks.       *)
LEMMA ProblemMeets ==
  ASSUME MeetIInv, UNCHANGED poissonVars, NEW rank \in Processes, Problem(rank)
  PROVE  MeetIInv'
  <1>1. SameStates /\ SameMatters /\ UNCHANGED unwritten
    BY NoSystemKeeps DEF Problem, Unread, poissonVars, SameMatters
  <1>2. ~alone => status[rank] = 0 /\ ~HasEnded(rank)
    BY DEF Problem, MeetIInv, NoVerdictYet, HasEnded
  <1>3. CASE problem = "made"
    <2>1. Goto(rank, "system") /\ UNCHANGED status
      BY <1>3 DEF Problem
    <2>2. Meeting(rank)' = Meeting(rank) /\ Meeting(rank) = "system"
      BY <1>3, <2>1 DEF Meeting, Goto, Processes, Problem
    <2> QED
      BY <1>1, <1>2, <2>1, <2>2, OneMoves DEF Ends
  <1>4. CASE problem # "made"
    <2>1. Throw(rank) /\ pc[rank] = "problem" /\ problem # "none"
      BY <1>4 DEF Problem
    <2>2. pc'[rank] = "finalize" /\ status'[rank] = 1 /\ DOMAIN status' = DOMAIN status
          /\ \A r \in Processes \ {rank} : status'[r] = status[r]
      BY <2>1 DEF Throw, Goto, Processes, MeetIInv, OnAllRanks
    <2>3. Meeting(rank)' = Meeting(rank) /\ Verdict(rank)' = Verdict(rank) /\ HasEnded(rank)'
      BY <1>4, <2>1, <2>2 DEF Meeting, Verdict, HasEnded
    <2> QED
      BY <1>1, <1>2, <2>1, <2>2, <2>3, OneMoves DEF Throw
  <1> QED
    BY <1>3, <1>4

(* All ranks take the initial state.                                       *)
LEMMA MakeSystemMeets ==
  ASSUME MeetIInv, UNCHANGED poissonVars, MakeSystem
  PROVE  MeetIInv'
  <1> DEFINE x0 == [d \in Dofs(mesh) |-> Prescribed(data.init_state[d])]
  <1> HIDE DEF x0
  <1>1. vec' = [rank \in Processes |-> [vec[rank] EXCEPT !.nxt = x0, !.hist = [lag \in Lags |-> x0]]]
    BY DEF MakeSystem, x0
  <1>2. /\ Processes' = Processes /\ UNCHANGED <<case, prm, problem, alone, unwritten, task, step, status>>
        /\ \A r \in Processes : pc[r] = "system" /\ pc'[r] \in {"run_info", "observe"}
    BY DEF MakeSystem, AllAt, Unread, poissonVars, Processes
  <1>3. OnAllRanks' /\ Replicated'
    <2>1. DOMAIN vec' = Processes /\ DOMAIN status' = Processes /\ DOMAIN step' = Processes
      BY <1>1, <1>2 DEF MeetIInv, OnAllRanks
    <2>2. ASSUME NEW r \in Processes
          PROVE  DOMAIN vec'[r] = VectorNames /\ vec'[r].nxt = x0
      <3>1. DOMAIN vec[r] = VectorNames
        BY DEF MeetIInv, OnAllRanks
      <3>2. vec'[r] = [vec[r] EXCEPT !.nxt = x0, !.hist = [lag \in Lags |-> x0]]
        BY <1>1
      <3> QED
        BY <3>1, <3>2 DEF VectorNames
    <2> QED
      BY <1>2, <2>1, <2>2 DEF MeetIInv, OnAllRanks, Replicated
  <1>4. CASE alone
    BY <1>2, <1>3, <1>4 DEF MeetIInv
  <1>5. CASE ~alone
    <2>1. \A r \in Processes : status'[r] = 0 /\ ~HasEnded(r)'
      BY <1>2, <1>5 DEF MeetIInv, NoVerdictYet, HasEnded
    <2>2. \A r, other \in Processes : AtLast(r)' <=> AtLast(other)'
      BY <1>2, <1>3 DEF Replicated, AtLast, Stops, Steady
    <2>3. SameMeeting' /\ SameVerdict'
      BY <1>2, <1>3, <2>1, <2>2
         DEF SameMeeting, SameVerdict, Replicated, Meeting, Verdict, HasEnded
    <2>4. NoVerdictYet' /\ FirstHasEnded'
      BY <1>2, <1>5, <2>1 DEF NoVerdictYet, FirstHasEnded, MeetIInv, HasEnded
    <2> QED
      BY <1>3, <2>3, <2>4 DEF MeetIInv
  <1> QED
    BY <1>4, <1>5

(* A rank goes from one place to another on its way.                       *)
LEMMA OnItsWay ==
  ASSUME MeetIInv, SameStates, SameMatters, UNCHANGED <<status, unwritten>>,
         NEW rank \in Processes, NEW place, Goto(rank, place), ~HasEnded(rank),
         Meeting(rank)' = Meeting(rank), Ends(rank) => Verdict(rank)' = Verdict(rank)
  PROVE  MeetIInv'
  <1>1. ~alone => status'[rank] = 0
    BY DEF MeetIInv, NoVerdictYet
  <1> QED
    BY <1>1, OneMoves

(* A rank decides to stop or to go on by the step and the state it has: so *)
(* do the others.                                                          *)
LEMMA ObserveMeets ==
  ASSUME MeetIInv, UNCHANGED poissonVars, NEW rank \in Processes, Observe(rank)
  PROVE  MeetIInv'
  <1>1. SameStates /\ UNCHANGED <<case, prm, problem, unwritten, task>> /\ pc[rank] = "observe"
    BY NoSystemKeeps DEF Observe, Unread, poissonVars
  <1>2. CASE Continues(rank) /\ UNCHANGED <<status, alone>>
    <2>1. SameMatters
      BY <1>1, <1>2 DEF SameMatters
    <2> DEFINE place == IF Stops(rank) \/ step[rank] = prm.time.steps THEN "return" ELSE "setup"
    <2>2. Goto(rank, place) /\ pc'[rank] = place
      BY <1>2 DEF Continues, Goto, Processes
    <2>3. Meeting(rank)' = Meeting(rank) /\ ~HasEnded(rank)
      BY <1>1, <2>2 DEF Meeting, HasEnded, AtLast
    <2>4. Ends(rank) => Verdict(rank)' = Verdict(rank)
      BY <1>1, <2>2 DEF Ends, Meeting, Verdict, HasEnded, AtLast, SameStates, Finite
    <2> QED
      BY <1>1, <1>2, <2>1, <2>2, <2>3, <2>4, OnItsWay
  <1>3. CASE Throw(rank) /\ alone'
    BY <1>1, <1>3, FirstLeaves
  <1> QED
    BY <1>2, <1>3 DEF Observe

(* A rank's status is made of the state it returns, which is that of the   *)
(* others.                                                                 *)
LEMMA ReturnMeets ==
  ASSUME MeetIInv, UNCHANGED poissonVars, NEW rank \in Processes, Return(rank)
  PROVE  MeetIInv'
  <1>1. SameStates /\ UNCHANGED <<case, prm, problem, unwritten, task>> /\ pc[rank] = "return"
    BY NoSystemKeeps DEF Return, Unread, poissonVars
  <1>2. CASE UNCHANGED alone /\ Finite(vec[rank].nxt) /\ Goto(rank, "finalize") /\ UNCHANGED status
    <2>1. pc'[rank] = "finalize" /\ (~alone => status[rank] = 0) /\ ~HasEnded(rank)
      BY <1>1, <1>2 DEF Goto, Processes, MeetIInv, NoVerdictYet, HasEnded
    <2>2. Meeting(rank)' = Meeting(rank) /\ (~alone => Verdict(rank)' = Verdict(rank))
      BY <1>1, <1>2, <2>1 DEF Meeting, Verdict, HasEnded
    <2> QED
      BY <1>1, <1>2, <2>1, <2>2, OneMoves DEF SameMatters
  <1>3. CASE UNCHANGED alone /\ Throw(rank) /\ ~Finite(vec[rank].nxt)
    <2>1. /\ pc'[rank] = "finalize" /\ status'[rank] = 1 /\ DOMAIN status' = DOMAIN status /\ ~HasEnded(rank)
          /\ \A r \in Processes \ {rank} : status'[r] = status[r]
      BY <1>1, <1>3 DEF Throw, Goto, Processes, MeetIInv, OnAllRanks, HasEnded
    <2>2. Meeting(rank)' = Meeting(rank) /\ Verdict(rank)' = Verdict(rank) /\ HasEnded(rank)'
      BY <1>1, <1>3, <2>1 DEF Meeting, Verdict, HasEnded
    <2> QED
      BY <1>1, <1>3, <2>1, <2>2, OneMoves DEF SameMatters, Throw
  <1>4. CASE Throw(rank) /\ alone'
    BY <1>1, <1>4, FirstLeaves
  <1> QED
    BY <1>2, <1>3, <1>4 DEF Return

(* A rank begins or ends the assembly of a step.                           *)
LEMMA AssembleMeets ==
  ASSUME MeetIInv, UNCHANGED poissonVars, NEW rank \in Processes,
         Assemble(rank) \/ EndAssembly(rank)
  PROVE  MeetIInv'
  <1>1. SameMatters /\ UNCHANGED <<status, unwritten>>
    BY DEF Assemble, EndAssembly, Unread, poissonVars, SameMatters
  <1>2. SameStates
    <2>1. CASE Assemble(rank)
      <3>1. UNCHANGED step
        BY <2>1 DEF Assemble
      <3>2. vec' = [vec EXCEPT ![0].res = ZeroResidual] \/ vec' = [vec EXCEPT ![rank].res = ZeroResidual]
        BY <2>1 DEF Assemble, Launch, Start
      <3> QED
        BY <3>1, <3>2, OneVectorKeeps DEF MeetIInv
    <2>2. CASE EndAssembly(rank)
      BY <2>2, NoSystemKeeps DEF EndAssembly
    <2> QED
      BY <2>1, <2>2
  <1>3. PICK place \in {"assembling", "reduce"} :
          Goto(rank, place) /\ pc[rank] = IF place = "reduce" THEN "assembling" ELSE "assemble"
    BY DEF Assemble, EndAssembly
  <1>4. Meeting(rank)' = Meeting(rank) /\ ~HasEnded(rank) /\ ~Ends(rank)
    BY <1>3 DEF Goto, Processes, Meeting, HasEnded, Ends
  <1> QED
    BY <1>1, <1>2, <1>3, <1>4, OnItsWay

(* The threads of a rank, and the blocks of a device, change its residual  *)
(* and the matrix.                                                         *)
LEMMA LoopMeets ==
  ASSUME MeetIInv, UNCHANGED poissonVars, BlockStep \/ \E rank \in Processes : LoopStep(rank)
  PROVE  MeetIInv'
  <1>1. UNCHANGED mainVars /\ UNCHANGED poissonVars
    BY DEF BlockStep, LoopStep
  <1>2. SameStates
    <2>1. ASSUME NEW ie, NEW tid, RunBlock(ie, tid)
          PROVE  UNCHANGED step /\ (UNCHANGED vec \/ \E value : vec' = [vec EXCEPT ![0].res = value])
      <3>1. CASE GatherAndClear(ie, tid)
        BY <3>1 DEF GatherAndClear
      <3>2. CASE EvalRows(ie, tid)
        BY <3>2 DEF EvalRows
      <3>3. CASE AddRows(ie, tid)
        BY <3>3 DEF AddRows
      <3>4. CASE AddEntries(ie, tid)
        BY <3>4 DEF AddEntries
      <3> QED
        BY <2>1, <3>1, <3>2, <3>3, <3>4 DEF RunBlock
    <2>2. ASSUME NEW rank, NEW thread, RunLoop(rank, thread)
          PROVE  UNCHANGED step /\ (UNCHANGED vec \/ \E value : vec' = [vec EXCEPT ![rank].res = value])
      <3>1. CASE Take(rank, thread)
        BY <3>1 DEF Take
      <3>2. CASE LoadEntry(rank, thread)
        BY <3>2 DEF LoadEntry
      <3>3. CASE StoreEntry(rank, thread)
        BY <3>3 DEF StoreEntry
      <3>4. CASE AddElement(rank, thread)
        BY <3>4 DEF AddElement
      <3> QED
        BY <2>2, <3>1, <3>2, <3>3, <3>4 DEF RunLoop
    <2>3. UNCHANGED <<step, vec>> => SameStates
      BY DEF SameStates
    <2> QED
      BY <2>1, <2>2, <2>3, OneVectorKeeps DEF MeetIInv, BlockStep, LoopStep
  <1>3. SameMatters /\ UNCHANGED <<pc, status, unwritten>>
    BY <1>1 DEF mainVars, poissonVars, SameMatters
  <1> QED
    BY <1>2, <1>3, NobodyMoves

(* A rank puts the conditions in its residual.                             *)
LEMMA ConstrainMeets ==
  ASSUME MeetIInv, UNCHANGED poissonVars, NEW rank \in Processes, ConstrainResidual(rank)
  PROVE  MeetIInv'
  <1>1. \E value : vec' = [vec EXCEPT ![rank].res = value]
    BY DEF ConstrainResidual
  <1>2. SameStates
    BY <1>1, OneVectorKeeps DEF ConstrainResidual, MeetIInv
  <1>3. SameMatters /\ UNCHANGED <<status, unwritten>>
    BY DEF ConstrainResidual, Unread, poissonVars, SameMatters
  <1>4. Goto(rank, "replace") /\ Meeting(rank)' = Meeting(rank) /\ ~HasEnded(rank) /\ ~Ends(rank)
    BY DEF ConstrainResidual, Goto, Processes, Meeting, HasEnded, Ends
  <1> QED
    BY <1>2, <1>3, <1>4, OnItsWay

(* A call in which only matrices and replicated vectors other than the     *)
(* state change.                                                           *)
LEMMA CallMeets ==
  ASSUME MeetIInv, SameStates, UNCHANGED <<alone, unwritten, status>>,
         NEW from, AllAt(from), from \notin {"finalize", "exited"}, NEW place, AllGoto(place)
  PROVE  MeetIInv'
  <1>1. Processes' = Processes
    BY DEF AllGoto, Processes
  <1> QED
    BY <1>1, AllMove, StatesStayReplicated DEF MeetIInv

(* A call throws on all ranks.                                             *)
LEMMA AllThrowMeets ==
  ASSUME MeetIInv, SameStates, UNCHANGED <<alone, unwritten>>,
         NEW from, AllAt(from), from \notin {"finalize", "exited"}, AllThrow
  PROVE  MeetIInv'
  <1>1. Processes' = Processes /\ DOMAIN status' = DOMAIN status
    BY DEF AllThrow, AllGoto, Processes, MeetIInv, OnAllRanks
  <1> QED
    BY <1>1, AllMove, StatesStayReplicated DEF MeetIInv, AllThrow

(* The calls of a time step before its solve.                              *)
LEMMA StepCallsMeet ==
  ASSUME MeetIInv, UNCHANGED poissonVars,
         Setup \/ Reduce \/ Replace \/ FinalizeMatrix \/ FormRhs \/ Eliminate
  PROVE  MeetIInv'
  <1>1. UNCHANGED <<alone, unwritten, status, step>>
    BY DEF Setup, Reduce, Replace, FinalizeMatrix, FormRhs, Eliminate, poissonVars
  <1>2. SameStates
    <2>1. CASE UNCHANGED vec
      BY <1>1, <2>1 DEF SameStates
    <2>2. CASE Reduce
      BY <1>1, <2>2 DEF Reduce, SameStates, MeetIInv, OnAllRanks, VectorNames
    <2>3. CASE FormRhs
      <3>1. PICK product : vec' = [rank \in Processes |-> [vec[rank] EXCEPT !.rhs =
              [d \in Dofs(mesh) |-> [product |-> product[d], res |-> vec[rank].res[d], moved |-> {}, set |-> {}]]]]
        BY <2>3 DEF FormRhs
      <3>2. DOMAIN vec' = Processes /\ \A r \in Processes : \E value : vec'[r] = [vec[r] EXCEPT !.rhs = value]
        BY <3>1
      <3> QED
        BY <1>1, <3>2 DEF SameStates, MeetIInv, OnAllRanks, VectorNames
    <2>4. CASE Eliminate
      <3>1. PICK rhs : vec' = [rank \in Processes |-> [vec[rank] EXCEPT !.rhs = rhs]]
        BY <2>4 DEF Eliminate
      <3> QED
        BY <1>1, <3>1 DEF SameStates, MeetIInv, OnAllRanks, VectorNames
    <2> QED
      BY <2>1, <2>2, <2>3, <2>4 DEF Setup, Replace, FinalizeMatrix
  <1>3. \E from, place : AllAt(from) /\ from \notin {"finalize", "exited"} /\ AllGoto(place)
    <2>1. CASE Setup
      BY <2>1 DEF Setup
    <2>2. CASE Reduce
      BY <2>2 DEF Reduce
    <2>3. CASE Replace
      BY <2>3 DEF Replace
    <2>4. CASE FinalizeMatrix
      BY <2>4 DEF FinalizeMatrix
    <2>5. CASE FormRhs
      BY <2>5 DEF FormRhs
    <2>6. CASE Eliminate
      BY <2>6 DEF Eliminate
    <2> QED
      BY <2>1, <2>2, <2>3, <2>4, <2>5, <2>6
  <1> QED
    BY <1>1, <1>2, <1>3, CallMeets

(* Every rank gets the same solution.                                      *)
LEMMA SolveMeets ==
  ASSUME MeetIInv, UNCHANGED poissonVars, Solve
  PROVE  MeetIInv'
  <1>1. AllAt("solve") /\ UNCHANGED <<alone, unwritten>>
    BY DEF Solve, poissonVars
  <1>2. CASE AllThrow /\ UNCHANGED <<vec, step>>
    BY <1>1, <1>2, AllThrowMeets DEF SameStates
  <1>3. ASSUME NEW x,
               vec' = [rank \in Processes |->
                    [vec[rank] EXCEPT !.nxt = x,
                                      !.hist = [lag \in Lags |-> IF lag = 0 THEN x ELSE @[lag - 1]]]],
               step' = [rank \in Processes |-> step[rank] + 1],
               AllGoto("observe"), UNCHANGED status
        PROVE  MeetIInv'
    <2>1. DOMAIN vec' = Processes /\ DOMAIN status' = Processes /\ DOMAIN step' = Processes /\ Processes' = Processes
      BY <1>3 DEF MeetIInv, OnAllRanks, AllGoto, Processes
    <2>2. ASSUME NEW r \in Processes
          PROVE  DOMAIN vec'[r] = VectorNames /\ vec'[r].nxt = x
      <3>1. DOMAIN vec[r] = VectorNames
        BY DEF MeetIInv, OnAllRanks
      <3>2. PICK h : vec'[r] = [vec[r] EXCEPT !.nxt = x, !.hist = h]
        BY <1>3
      <3> QED
        BY <3>1, <3>2, SMTT(30) DEF VectorNames
    <2>3. OnAllRanks' /\ Replicated'
      BY <1>3, <2>1, <2>2, ZenonT(60) DEF MeetIInv, OnAllRanks, Replicated
    <2> QED
      BY <1>1, <1>3, <2>3, AllMove
  <1>4. \/ AllThrow /\ UNCHANGED <<vec, step>>
        \/ \E x : /\ vec' = [rank \in Processes |->
                          [vec[rank] EXCEPT !.nxt = x,
                                            !.hist = [lag \in Lags |-> IF lag = 0 THEN x ELSE @[lag - 1]]]]
                  /\ step' = [rank \in Processes |-> step[rank] + 1]
                  /\ AllGoto("observe") /\ UNCHANGED status
    BY DEF Solve
  <1> QED
    BY <1>2, <1>3, <1>4

(* The session ends on all ranks.                                          *)
LEMMA ExitMeets ==
  ASSUME MeetIInv, UNCHANGED poissonVars, Exit
  PROVE  MeetIInv'
  <1>1. SameStates /\ UNCHANGED <<alone, unwritten, status>>
    BY NoSystemKeeps DEF Exit, poissonVars
  <1>2. Processes' = Processes /\ \A r \in Processes : pc[r] = "finalize" /\ pc'[r] = "exited"
    BY DEF Exit, AllAt, AllGoto, Processes
  <1>3. OnAllRanks' /\ Replicated'
    BY <1>1, <1>2, StatesStayReplicated DEF MeetIInv
  <1>4. NoVerdictYet' /\ SameMeeting' /\ FirstHasEnded'
    BY <1>2 DEF NoVerdictYet, SameMeeting, FirstHasEnded, HasEnded, Meeting
  <1>5. CASE alone
    BY <1>1, <1>3, <1>5 DEF MeetIInv
  <1>6. CASE ~alone
    <2>1. SameVerdict'
      BY <1>1, <1>2, <1>6 DEF MeetIInv, SameVerdict, Verdict, Ends, Meeting, HasEnded
    <2> QED
      BY <1>3, <1>4, <2>1 DEF MeetIInv
  <1> QED
    BY <1>5, <1>6

-----------------------------------------------------------------------------
(* The steps of the stationary programs.                                   *)
StationaryCall ==
  \/ ReadOptions \/ SetupState \/ ReduceRes("state_reduce", "state_boundary") \/ ReduceRes("norm_reduce", "norm_boundary")
  \/ ReplaceStateRows \/ FinalizeState \/ SolveState \/ Tao
  \/ SetupAdjoint \/ ReplaceAdjointRows \/ FinalizeAdjoint \/ SolveAdjoint

(* A call of the stationary programs brings all ranks to one place, or     *)
(* throws on all of them.                                                  *)
LEMMA StationaryCallMoves ==
  ASSUME StationaryCall
  PROVE  \E from : /\ AllAt(from) /\ from \notin {"finalize", "exited"}
                   /\ AllThrow \/ (UNCHANGED status /\ \E place : AllGoto(place))
  <1>1. CASE ReadOptions
    BY <1>1 DEF ReadOptions
  <1>2. CASE SetupState
    BY <1>2 DEF SetupState
  <1>3. CASE ReduceRes("state_reduce", "state_boundary") \/ ReduceRes("norm_reduce", "norm_boundary")
    BY <1>3 DEF ReduceRes
  <1>4. CASE ReplaceStateRows \/ FinalizeState
    BY <1>4 DEF ReplaceStateRows, FinalizeState
  <1>5. CASE SolveState
    BY <1>5 DEF SolveState
  <1>6. CASE Tao
    BY <1>6 DEF Tao
  <1>7. CASE SetupAdjoint
    BY <1>7 DEF SetupAdjoint
  <1>8. CASE ReplaceAdjointRows \/ FinalizeAdjoint
    BY <1>8 DEF ReplaceAdjointRows, FinalizeAdjoint
  <1>9. CASE SolveAdjoint
    BY <1>9, SMTT(30) DEF SolveAdjoint
  <1> QED
    BY <1>1, <1>2, <1>3, <1>4, <1>5, <1>6, <1>7, <1>8, <1>9 DEF StationaryCall

(* A call of the stationary programs gives all ranks the same state.       *)
LEMMA StationaryCallStates ==
  ASSUME StationaryCall
  PROVE  \/ UNCHANGED vec
         \/ \E sums : vec' = [rank \in Processes |-> [vec[rank] EXCEPT !.res = sums[rank]]]
         \/ \E x : vec' = [rank \in Processes |-> [vec[rank] EXCEPT !.nxt = x]]
  <1>1. CASE SolveState
    BY <1>1 DEF SolveState
  <1>2. CASE ReduceRes("state_reduce", "state_boundary") \/ ReduceRes("norm_reduce", "norm_boundary")
    BY <1>2 DEF ReduceRes
  <1>3. CASE UNCHANGED vec
    BY <1>3
  <1> QED
    BY <1>1, <1>2, <1>3 DEF StationaryCall, ReadOptions, SetupState, ReplaceStateRows, FinalizeState, Tao,
       SetupAdjoint, ReplaceAdjointRows, FinalizeAdjoint, SolveAdjoint

(* All ranks leave a call of the stationary programs together.             *)
LEMMA StationaryCallMeets ==
  ASSUME MeetIInv, StationaryCall
  PROVE  MeetIInv'
  <1>1. UNCHANGED <<step, alone, unwritten>>
    BY DEF StationaryCall, ReadOptions, SetupState, ReduceRes, ReplaceStateRows, FinalizeState, SolveState, Tao,
       SetupAdjoint, ReplaceAdjointRows, FinalizeAdjoint, SolveAdjoint, Elsewhere, Unwritten
  <1>2. PICK from : /\ AllAt(from) /\ from \notin {"finalize", "exited"}
                    /\ AllThrow \/ (UNCHANGED status /\ \E place : AllGoto(place))
    BY StationaryCallMoves
  <1>3. Processes' = Processes /\ DOMAIN status' = DOMAIN status
    BY <1>2 DEF AllThrow, AllGoto, Processes, MeetIInv, OnAllRanks
  <1> DEFINE Copied ==
               /\ DOMAIN vec' = Processes
               /\ \A r \in Processes : DOMAIN vec'[r] = VectorNames
               /\ \A r, other \in Processes : vec'[r].nxt = vec'[other].nxt
  <1>4. Copied
    <2>1. CASE UNCHANGED vec
      BY <2>1 DEF MeetIInv, OnAllRanks, Replicated
    <2>2. ASSUME NEW sums, vec' = [rank \in Processes |-> [vec[rank] EXCEPT !.res = sums[rank]]]
          PROVE  Copied
      BY <2>2 DEF MeetIInv, OnAllRanks, Replicated, VectorNames
    <2>3. ASSUME NEW x, vec' = [rank \in Processes |-> [vec[rank] EXCEPT !.nxt = x]]
          PROVE  Copied
      BY <2>3 DEF MeetIInv, OnAllRanks, Replicated, VectorNames
    <2> QED
      BY <2>1, <2>2, <2>3, StationaryCallStates
  <1>5. OnAllRanks' /\ Replicated'
    BY <1>1, <1>3, <1>4 DEF MeetIInv, OnAllRanks, Replicated
  <1> QED
    BY <1>1, <1>2, <1>5, AllMove, SMTT(30) DEF AllThrow

(* A rank assembles, or puts conditions in its residual, on its own.       *)
LEMMA StationaryStepMeets ==
  ASSUME MeetIInv, NEW rank \in Processes,
         \/ AssembleRes(rank, "state_residual", ZeroState, "state_reduce")
         \/ AssembleRes(rank, "norm_residual", vec[rank].nxt, "norm_reduce")
         \/ AssembleStateJac(rank) \/ ConstrainNorm(rank) \/ AssembleAdjointJac(rank)
  PROVE  MeetIInv'
  <1>1. SameMatters /\ UNCHANGED <<step, status, unwritten>>
    BY 
       DEF AssembleRes, AssembleStateJac, ConstrainNorm, AssembleAdjointJac, Elsewhere,
           Unwritten, SameMatters
  <1>2. \/ UNCHANGED vec
        \/ \E value : vec' = [vec EXCEPT ![rank].res = value]
        \/ \E value : vec' = [vec EXCEPT ![rank].rhs = value]
    <2>1. CASE AssembleStateJac(rank)
      BY <2>1 DEF AssembleStateJac
    <2>2. CASE ConstrainNorm(rank)
      BY <2>2 DEF ConstrainNorm
    <2>3. CASE AssembleAdjointJac(rank)
      BY <2>3 DEF AssembleAdjointJac
    <2> QED
      BY <2>1, <2>2, <2>3 DEF AssembleRes
  <1>3. SameStates
    <2>1. CASE UNCHANGED vec
      BY <1>1, <2>1 DEF SameStates
    <2> QED
      BY <1>1, <1>2, <2>1, OneVectorKeeps DEF MeetIInv
  <1>4. PICK from, place :
          /\ pc[rank] = from /\ Goto(rank, place)
          /\ <<from, place>> \in {<<"state_residual", "state_reduce">>, <<"norm_residual", "norm_reduce">>,
                                  <<"state_boundary", "state_rows">>, <<"norm_boundary", "report">>,
                                  <<"adj_jacobian", "adj_rows">>}
    BY DEF AssembleRes, AssembleStateJac, ConstrainNorm, AssembleAdjointJac
  <1>5. pc'[rank] = place
    BY <1>4 DEF Goto, Processes
  <1>6. Meeting(rank)' = Meeting(rank) /\ ~HasEnded(rank)
    BY <1>4, <1>5 DEF Meeting, HasEnded
  <1>7. Ends(rank) => Verdict(rank)' = Verdict(rank)
    BY <1>1, <1>4, <1>5 DEF Ends, Meeting, Verdict, HasEnded, SameMatters
  <1> QED
    BY <1>1, <1>3, <1>4, <1>6, <1>7, OnItsWay

(* A rank reports: its status is that of the others, but where the first   *)
(* could not write a file.                                                 *)
LEMMA ReportMeets ==
  ASSUME MeetIInv, NEW rank \in Processes, Report(rank)
  PROVE  MeetIInv'
  <1>1. SameMatters /\ SameStates /\ pc[rank] = "report"
    BY DEF Report, Elsewhere, SameMatters, SameStates
  <1>2. /\ Processes' = Processes /\ pc'[rank] = "finalize" /\ \A r \in Processes \ {rank} : pc'[r] = pc[r]
        /\ DOMAIN status' = DOMAIN status /\ \A r \in Processes \ {rank} : status'[r] = status[r]
        /\ status'[rank] = IF (rank = 0 /\ unwritten') \/ ~task.converged THEN 1 ELSE 0
        /\ rank # 0 => unwritten' = unwritten
    <2>1. PICK out : /\ status' = [status EXCEPT ![rank] = IF (rank = 0 /\ out[2]) \/ ~task.converged THEN 1 ELSE 0]
                     /\ unwritten' = out[2] /\ (rank # 0 => out = <<files, unwritten>>)
      BY DEF Report
    <2>2. rank # 0 => unwritten' = unwritten
      BY <2>1
    <2>3. Goto(rank, "finalize")
      BY DEF Report
    <2> QED
      BY <2>1, <2>2, <2>3 DEF Goto, Processes, MeetIInv, OnAllRanks
  <1>3. OnAllRanks' /\ Replicated'
    BY <1>1, <1>2, StatesStayReplicated DEF MeetIInv
  <1>4. CASE alone
    BY <1>1, <1>3, <1>4 DEF MeetIInv, SameMatters
  <1>5. CASE ~alone
    <2>1. ASSUME NEW r \in Processes \ {rank}
          PROVE  /\ Meeting(r)' = Meeting(r) /\ Verdict(r)' = Verdict(r)
                 /\ Ends(r)' = Ends(r) /\ HasEnded(r)' = HasEnded(r)
      BY <1>1, <1>2, MeetingStays, VerdictStays DEF Ends, HasEnded
    <2>2. Meeting(rank)' = Meeting(rank) /\ HasEnded(rank)'
      BY <1>1, <1>2 DEF Meeting, HasEnded
    <2>3. rank = 0 => ~unwritten
      BY <1>1, <1>5 DEF MeetIInv, FirstHasEnded, HasEnded
    <2>4. ~unwritten' => ~unwritten
      BY <1>2, <2>3
    <2>5. ~unwritten' => Verdict(rank)' = Verdict(rank)
      BY <1>1, <1>2 DEF Verdict, HasEnded
    <2>6. \A r \in Processes : Meeting(r)' = Meeting(r) /\ (Ends(r)' <=> Ends(r)) /\ (~unwritten' => Verdict(r)' = Verdict(r))
      BY <2>1, <2>2, <2>5 DEF Ends
    <2>7. SameMeeting'
      BY <1>2, <1>5, <2>6 DEF MeetIInv, SameMeeting
    <2>8. SameVerdict'
      BY <1>2, <1>5, <2>4, <2>6 DEF MeetIInv, SameVerdict
    <2>9. NoVerdictYet'
      BY <1>2, <1>5, <2>1, <2>2 DEF MeetIInv, NoVerdictYet
    <2>10. FirstHasEnded'
      BY <1>2, <1>5, <2>1, <2>2 DEF MeetIInv, FirstHasEnded
    <2> QED
      BY <1>3, <2>7, <2>8, <2>9, <2>10 DEF MeetIInv
  <1> QED
    BY <1>4, <1>5

-----------------------------------------------------------------------------
(* Every step of the Navier-Stokes programs.                               *)
LEMMA NavierStepMeets ==
  ASSUME MeetIInv, UNCHANGED poissonVars, Next
  PROVE  MeetIInv'
  <1>1. CASE Ended
    <2>1. SameStates /\ SameMatters /\ UNCHANGED <<pc, status, unwritten>>
      BY <1>1 DEF Ended, vars, poissonVars, SameStates, SameMatters
    <2> QED
      BY <2>1, NobodyMoves
  <1>2. CASE Main \/ WriteBuildInfo \/ OpenRunInfo
    BY <1>2, MainMeets, WriteMeets
  <1>3. CASE ReadMesh \/ MakeModel \/ MakeConditions \/ MakeBoundaryData \/ ProblemThrows
    BY <1>3, ConstructorMeets
  <1>4. CASE MakeSystem \/ Solve \/ Exit
    BY <1>4, MakeSystemMeets, SolveMeets, ExitMeets
  <1>5. CASE Setup \/ Reduce \/ Replace \/ FinalizeMatrix \/ FormRhs \/ Eliminate
    BY <1>5, StepCallsMeet
  <1>6. CASE BlockStep \/ \E rank \in Processes : LoopStep(rank)
    BY <1>6, LoopMeets
  <1>7. ASSUME NEW rank \in Processes,
               \/ Problem(rank) \/ Observe(rank) \/ Return(rank)
               \/ Assemble(rank) \/ EndAssembly(rank) \/ ConstrainResidual(rank)
        PROVE  MeetIInv'
    BY <1>7, ProblemMeets, ObserveMeets, ReturnMeets, AssembleMeets, ConstrainMeets
  <1> QED
    BY <1>1, <1>2, <1>3, <1>4, <1>5, <1>6, <1>7 DEF Next

(* Every step of the stationary programs.                                  *)
LEMMA PoissonStepMeets ==
  ASSUME MeetIInv, PoissonNext
  PROVE  MeetIInv'
  <1>1. CASE StationaryCall
    BY <1>1, StationaryCallMeets
  <1>2. ASSUME NEW rank \in Processes,
               \/ AssembleRes(rank, "state_residual", ZeroState, "state_reduce")
               \/ AssembleRes(rank, "norm_residual", vec[rank].nxt, "norm_reduce")
               \/ AssembleStateJac(rank) \/ ConstrainNorm(rank) \/ AssembleAdjointJac(rank)
        PROVE  MeetIInv'
    BY <1>2, StationaryStepMeets
  <1>3. ASSUME NEW rank \in Processes, Report(rank) PROVE MeetIInv'
    BY <1>3, ReportMeets
  <1> QED
    BY <1>1, <1>2, <1>3 DEF PoissonNext, StationaryCall

(* In every reachable state the ranks are on their way to the same call    *)
(* and the same status, unless the first left.                             *)
THEOREM MeetInvariant == Programs => []MeetIInv
  <1>1. ProgramsInit => MeetIInv
    BY InitMeetIInv
  <1>2. MeetIInv /\ [ProgramsNext]_programVars => MeetIInv'
    <2> SUFFICES ASSUME MeetIInv, [ProgramsNext]_programVars PROVE MeetIInv'
      OBVIOUS
    <2>1. CASE Next /\ UNCHANGED poissonVars
      BY <2>1, NavierStepMeets
    <2>2. CASE PoissonNext
      BY <2>2, PoissonStepMeets
    <2>3. CASE UNCHANGED programVars
      <3>1. SameStates /\ SameMatters /\ UNCHANGED <<pc, status, unwritten>>
        BY <2>3 DEF programVars, SameStates, SameMatters
      <3> QED
        BY <3>1, NobodyMoves
    <2> QED
      BY <2>1, <2>2, <2>3 DEF ProgramsNext
  <1> QED
    BY <1>1, <1>2, PTL DEF Programs

(* Ranks on their way to one call that are in calls are in the same.       *)
LEMMA IInvMeets ==
  ASSUME MeetIInv
  PROVE  RanksMeet
  <1>1. CASE alone
    BY <1>1 DEF RanksMeet
  <1>2. CASE ~alone
    <2>1. ASSUME NEW rank \in Processes, NEW other \in Processes,
                 pc[rank] \in AllCollectives, pc[other] \in AllCollectives
          PROVE  pc[rank] = pc[other]
      <3>1. Meeting(rank) = pc[rank] /\ Meeting(other) = pc[other]
        BY <2>1 DEF Meeting, AllCollectives, Collectives
      <3> QED
        BY <1>2, <3>1 DEF MeetIInv, SameMeeting
    <2>2. ASSUME NEW rank \in Processes, NEW other \in Processes, pc[rank] = "exited", ~unwritten
          PROVE  status[rank] = status[other]
      <3>1. Meeting(rank) = "exited" /\ Meeting(other) = "exited"
        BY <1>2, <2>2 DEF MeetIInv, SameMeeting, Meeting
      <3>2. pc[other] = "exited"
        BY <3>1 DEF Meeting
      <3> QED
        BY <1>2, <2>2, <3>1, <3>2 DEF MeetIInv, SameVerdict, Verdict, Ends, HasEnded
    <2> QED
      BY <2>1, <2>2 DEF RanksMeet
  <1> QED
    BY <1>1, <1>2

(* Two ranks in collective calls are in the same call, and ranks that have *)
(* ended have the same status, for every number of ranks, every            *)
(* configuration, mesh, command line and partition, unless the first rank  *)
(* leaves on its own. (main, run, solve, and the collective calls of the   *)
(* PETSc classes.)                                                         *)
THEOREM RanksMeetAlways == Programs => []RanksMeet
  BY MeetInvariant, IInvMeets, PTL

-----------------------------------------------------------------------------
(* Products with a natural number keep the order.                          *)
LEMMA TimesKeepsOrder ==
  ASSUME NEW a \in Int, NEW b \in Int, NEW n \in Nat, a <= b
  PROVE  a * n <= b * n
  <1>1. (b - a) * n >= 0
    OBVIOUS
  <1>2. (b - a) * n = b * n - a * n
    OBVIOUS
  <1> QED
    BY <1>1, <1>2

(* The division the ranges are made with.                                  *)
LEMMA Quotient ==
  ASSUME NEW count \in Nat, NEW size \in Nat \ {0}
  PROVE  count \div size \in Nat
  OBVIOUS

(* The remainder contiguousRange spreads over the first ranks is less than *)
(* their number.                                                           *)
LEMMA Remainder ==
  ASSUME NEW count \in Nat, NEW size \in Nat \ {0}
  PROVE  count % size \in 0 .. size - 1
  OBVIOUS

(* Quotient and remainder of contiguousRange make up the number of         *)
(* elements.                                                               *)
LEMMA Division ==
  ASSUME NEW count \in Nat, NEW size \in Nat \ {0}
  PROVE  count = size * (count \div size) + (count % size)
  OBVIOUS

(* A range ends where that of the next rank begins.                        *)
LEMMA Consecutive ==
  ASSUME NEW count \in Nat, NEW size \in Nat \ {0}, NEW rank \in Ranks(size)
  PROVE  ContiguousRange(count, rank, size).end = Begin(count, rank + 1, size)
  <1> DEFINE q == count \div size
             r == count % size
  <1>1. q \in Nat /\ r \in 0 .. size - 1 /\ rank \in Nat
    <2>1. q \in Nat /\ r \in 0 .. size - 1
      BY Quotient, Remainder
    <2> QED
      BY <2>1 DEF Ranks
  <1>2. (rank + 1) * q = rank * q + q
    BY <1>1
  <1>3. rank * q \in Nat
    BY <1>1
  <1> HIDE DEF q, r
  <1>4. rank * q + Smaller(rank, r) + (q + (IF rank < r THEN 1 ELSE 0))
          = (rank + 1) * q + Smaller(rank + 1, r)
    BY <1>1, <1>2, <1>3 DEF Smaller
  <1> QED
    BY <1>4 DEF ContiguousRange, Begin, Width, q, r

(* Ranges begin in the order of the ranks.                                 *)
LEMMA InOrderOfRanks ==
  ASSUME NEW count \in Nat, NEW size \in Nat \ {0},
         NEW a \in Nat, NEW b \in Nat, a <= b
  PROVE  Begin(count, a, size) <= Begin(count, b, size)
  <1> DEFINE q == count \div size
             r == count % size
  <1>1. q \in Nat /\ r \in Nat
    BY Quotient, Remainder
  <1> HIDE DEF q, r
  <1>2. a * q <= b * q
    BY <1>1, TimesKeepsOrder
  <1>3. a * q \in Nat /\ b * q \in Nat
    BY <1>1
  <1>4. a * q + Smaller(a, r) <= b * q + Smaller(b, r)
    BY <1>1, <1>2, <1>3 DEF Smaller
  <1> QED
    BY <1>4 DEF Begin, q, r

(* No element is assembled by two ranks.  (MpiContext::ownsElement.)       *)
THEOREM NoElementTwice ==
  ASSUME NEW count \in Nat, NEW size \in Nat \ {0}, NEW ie \in 0 .. count - 1,
         NEW a \in Ranks(size), NEW b \in Ranks(size),
         OwnsContiguous(ie, count, a, size), OwnsContiguous(ie, count, b, size)
  PROVE  a = b
  <1>1. ASSUME NEW c \in Ranks(size), NEW d \in Ranks(size), c < d,
               OwnsContiguous(ie, count, c, size)
        PROVE  ~OwnsContiguous(ie, count, d, size)
    <2>1. Begin(count, c + 1, size) <= Begin(count, d, size)
      BY <1>1, InOrderOfRanks DEF Ranks
    <2>2. ie < Begin(count, c + 1, size)
      BY <1>1, Consecutive DEF OwnsContiguous, InRange
    <2>3. Begin(count, c + 1, size) \in Int /\ Begin(count, d, size) \in Int
      <3>1. count \div size \in Nat /\ count % size \in 0 .. size - 1
        BY Quotient, Remainder
      <3>2. c + 1 \in Nat /\ d \in Nat
        <4>1. c \in 0 .. size - 1 /\ d \in 0 .. size - 1
          BY DEF Ranks
        <4> QED
          BY <4>1
      <3>3. /\ (c + 1) * (count \div size) \in Nat
            /\ d * (count \div size) \in Nat
        BY <3>1, <3>2
      <3> QED
        BY <3>1, <3>2, <3>3 DEF Begin, Smaller
    <2>4. ie < Begin(count, d, size)
      BY <2>1, <2>2, <2>3
    <2> QED
      BY <2>3, <2>4 DEF OwnsContiguous, InRange, ContiguousRange
  <1>2. ~(a < b)
    BY <1>1
  <1>3. ~(b < a)
    BY <1>1
  <1> QED
    BY <1>2, <1>3 DEF Ranks

(* The rank an element falls to: the first r ranks hold q + 1 elements.    *)
OwnerOf(ie, q, r) == IF ie < r * (q + 1) THEN ie \div (q + 1)
                                         ELSE r + ((ie - r * (q + 1)) \div q)

(* The element lies in the range of that rank.                             *)
LEMMA OwnerHolds ==
  ASSUME NEW size \in Nat \ {0}, NEW q \in Nat, NEW r \in 0 .. size - 1,
         NEW ie \in 0 .. (size * q + r) - 1, NEW k \in Nat, k = OwnerOf(ie, q, r)
  PROVE  /\ k < size
         /\ k * q + Smaller(k, r) <= ie
         /\ ie < k * q + Smaller(k, r) + (q + (IF k < r THEN 1 ELSE 0))
  <1>1. CASE ie < r * (q + 1)
    <2>1. /\ k = ie \div (q + 1) /\ ie % (q + 1) \in 0 .. q
          /\ ie = (q + 1) * k + (ie % (q + 1))
      <3> DEFINE n == q + 1
      <3>1. n \in Nat \ {0} /\ ie \in Nat
        OBVIOUS
      <3>2. k = ie \div n
        BY <1>1 DEF OwnerOf
      <3>3. ie % n \in 0 .. n - 1 /\ ie = n * (ie \div n) + (ie % n)
        BY <3>1, Remainder, Division
      <3> QED
        BY <3>2, <3>3
    <2>2. k < r
      <3>1. SUFFICES ASSUME r <= k PROVE FALSE
        OBVIOUS
      <3>2. r * (q + 1) <= k * (q + 1)
        BY <3>1, TimesKeepsOrder
      <3> QED
        BY <1>1, <2>1, <3>2
    <2>3. (q + 1) * k = k * q + k
      OBVIOUS
    <2>4. Smaller(k, r) = k
      BY <2>2 DEF Smaller
    <2>5. k * q \in Nat
      OBVIOUS
    <2> QED
      BY <2>1, <2>2, <2>3, <2>4, <2>5
  <1>2. CASE r * (q + 1) <= ie
    <2> DEFINE rest == ie - r * (q + 1)
    <2>1. r * (q + 1) = r * q + r /\ r * q \in Nat
      OBVIOUS
    <2>2. rest \in Nat
      BY <1>2, <2>1
    <2>3. q # 0
      <3>1. SUFFICES ASSUME q = 0 PROVE FALSE
        OBVIOUS
      <3>2. size * q = 0 /\ r * q = 0
        BY <3>1
      <3> QED
        BY <1>2, <2>1, <3>2
    <2>4. /\ k = r + (rest \div q) /\ rest \div q \in Nat
          /\ rest % q \in 0 .. q - 1 /\ rest = q * (rest \div q) + (rest % q)
      BY <1>2, <2>1, <2>2, <2>3, Quotient, Remainder, Division DEF OwnerOf
    <2> DEFINE d == rest \div q
    <2>5. k * q = r * q + q * d
      BY <2>4
    <2>6. r <= k /\ Smaller(k, r) = r
      BY <2>4 DEF Smaller
    <2>7. ie = k * q + r + (rest % q)
      <3> DEFINE m == rest % q
      <3>1. rest = q * d + m /\ m \in Nat /\ d \in Nat
        BY <2>4
      <3>2. ie - (r * q + r) = q * d + m
        BY <2>1, <3>1
      <3>3. k * q \in Nat /\ q * d \in Int
        BY <3>1
      <3> HIDE DEF d, m
      <3>4. ie = k * q + r + m
        BY <2>1, <2>5, <3>1, <3>2, <3>3
      <3> QED
        BY <3>4 DEF m
    <2>8. k < size
      <3>1. SUFFICES ASSUME size <= k PROVE FALSE
        OBVIOUS
      <3>2. size * q <= k * q
        BY <3>1, TimesKeepsOrder
      <3>3. size * q \in Nat /\ k * q \in Nat /\ rest % q \in Nat
        BY <2>4
      <3> QED
        BY <2>7, <3>2, <3>3
    <2>9. k * q \in Nat /\ rest % q \in 0 .. q - 1
      BY <2>4
    <2> QED
      BY <2>6, <2>7, <2>8, <2>9
  <1> QED
    BY <1>1, <1>2

(* Every element is assembled by some rank: none is left out and, with     *)
(* NoElementTwice, the ranges partition the elements.                      *)
THEOREM NoElementLost ==
  ASSUME NEW count \in Nat, NEW size \in Nat \ {0}, NEW ie \in 0 .. count - 1
  PROVE  \E rank \in Ranks(size) : OwnsContiguous(ie, count, rank, size)
  <1> DEFINE q == count \div size
             r == count % size
             k == OwnerOf(ie, q, r)
  <1>1. q \in Nat /\ r \in 0 .. size - 1 /\ count = size * q + r
    BY Quotient, Remainder, Division
  <1> HIDE DEF q, r
  <1>2. k \in Nat
    <2>1. CASE ie < r * (q + 1)
      BY <1>1, <2>1, Quotient DEF OwnerOf
    <2>2. CASE ~(ie < r * (q + 1))
      <3>1. r * (q + 1) = r * q + r /\ r * q \in Nat
        BY <1>1
      <3>2. q # 0
        <4>1. SUFFICES ASSUME q = 0 PROVE FALSE
          OBVIOUS
        <4>2. size * q = 0 /\ r * q = 0
          BY <1>1, <4>1
        <4> QED
          BY <1>1, <2>2, <3>1, <4>2
      <3>3. ie - r * (q + 1) \in Nat
        BY <2>2, <3>1, <1>1
      <3>4. (ie - r * (q + 1)) \div q \in Nat
        BY <1>1, <3>2, <3>3, Quotient
      <3> QED
        BY <1>1, <2>2, <3>4 DEF OwnerOf
    <2> QED
      BY <2>1, <2>2
  <1>3. /\ k < size /\ k * q + Smaller(k, r) <= ie
        /\ ie < k * q + Smaller(k, r) + (q + (IF k < r THEN 1 ELSE 0))
    BY <1>1, <1>2, OwnerHolds
  <1>4. OwnsContiguous(ie, count, k, size)
    BY <1>3 DEF OwnsContiguous, InRange, ContiguousRange, Begin, Width, q, r
  <1> QED
    BY <1>2, <1>3, <1>4 DEF Ranks

(* Every edge of the graph of the rows is given by exactly one rank, that  *)
(* of its first row, and no row is its own neighbour.                      *)
(* (PETScPartition.cpp, makeAdjacency.)                                    *)
THEOREM EdgeOfOneRank ==
  ASSUME NEW count \in Nat, NEW size \in Nat \ {0}, NEW pattern,
         NEW i \in 0 .. count - 1, NEW j \in 0 .. count - 1
  PROVE  /\ (\E rank \in Ranks(size) : <<i, j>> \in Adjacency(pattern, count, rank, size))
              <=> i # j /\ (<<i, j>> \in pattern \/ <<j, i>> \in pattern)
         /\ \A a, b \in Ranks(size) :
              /\ <<i, j>> \in Adjacency(pattern, count, a, size)
              /\ <<i, j>> \in Adjacency(pattern, count, b, size)
              => a = b
  <1>1. \A rank \in Ranks(size) :
          <<i, j>> \in Adjacency(pattern, count, rank, size)
            <=> /\ OwnsContiguous(i, count, rank, size)
                /\ i # j /\ (<<i, j>> \in pattern \/ <<j, i>> \in pattern)
    BY DEF Adjacency
  <1>2. \E rank \in Ranks(size) : OwnsContiguous(i, count, rank, size)
    BY NoElementLost
  <1>3. \A a, b \in Ranks(size) :
          OwnsContiguous(i, count, a, size) /\ OwnsContiguous(i, count, b, size) => a = b
    BY NoElementTwice
  <1> QED
    BY <1>1, <1>2, <1>3

(* The graph is symmetric, whatever the pattern: an edge that a rank gives *)
(* is given by some rank in the other direction.  The partitioners require *)
(* it of the adjacency matrix.                                             *)
THEOREM GraphSymmetric ==
  ASSUME NEW count \in Nat, NEW size \in Nat \ {0}, NEW pattern,
         NEW a \in Ranks(size), NEW i \in 0 .. count - 1, NEW j \in 0 .. count - 1,
         <<i, j>> \in Adjacency(pattern, count, a, size)
  PROVE  \E b \in Ranks(size) : <<j, i>> \in Adjacency(pattern, count, b, size)
  <1>1. i # j /\ (<<i, j>> \in pattern \/ <<j, i>> \in pattern)
    BY EdgeOfOneRank
  <1>2. (\E b \in Ranks(size) : <<j, i>> \in Adjacency(pattern, count, b, size))
          <=> j # i /\ (<<j, i>> \in pattern \/ <<i, j>> \in pattern)
    BY EdgeOfOneRank
  <1> QED
    BY <1>1, <1>2

--------------------------------------------------------------------------------

(* The unknowns that come before another in the numbering of the system.   *)
NumberedBefore(owners, d) ==
  {e \in DOMAIN owners : owners[e] < owners[d] \/ (owners[e] = owners[d] /\ e < d)}

(* The unknowns of the ranks below one.                                    *)
Below(owners, rank) == {d \in DOMAIN owners : owners[d] < rank}

(* Who owns which of n unknowns.                                           *)
Owners(n, size) == [0 .. n - 1 -> 0 .. size - 1]

(* Sets of unknowns are finite.                                            *)
LEMMA UnknownsFinite ==
  ASSUME NEW n \in Nat, NEW s \in SUBSET (0 .. n - 1)
  PROVE  IsFiniteSet(s) /\ Cardinality(s) \in Nat /\ Cardinality(0 .. n - 1) = n
  <1>1. IsFiniteSet(0 .. n - 1) /\ Cardinality(0 .. n - 1) = n
    BY FS_Interval
  <1>2. IsFiniteSet(s)
    BY <1>1, FS_Subset
  <1> QED
    BY <1>1, <1>2, FS_CardinalityType

(* Without one of them there is one less.                                  *)
LEMMA OneUnknownLess ==
  ASSUME NEW S, IsFiniteSet(S), NEW d \in S
  PROVE  Cardinality(S \ {d}) = Cardinality(S) - 1
  BY FS_RemoveElement

(* Two kinds of unknowns are as many as there are of each.                 *)
LEMMA TwoKinds ==
  ASSUME NEW S, NEW T, IsFiniteSet(S), IsFiniteSet(T), S \cap T = {}
  PROVE  Cardinality(S \cup T) = Cardinality(S) + Cardinality(T)
  <1>1. Cardinality(S) \in Nat /\ Cardinality(T) \in Nat /\ Cardinality(S \cap T) = 0
    BY FS_CardinalityType, FS_EmptySet
  <1>2. Cardinality(S \cup T) = Cardinality(S) + Cardinality(T) - Cardinality(S \cap T)
    BY FS_Union
  <1> QED
    BY <1>1, <1>2

(* The numbering is in the order of ranks and unknowns.                    *)
LEMMA NumberingInOrder ==
  ASSUME NEW n \in Nat, NEW size \in Nat \ {0}, NEW owners \in Owners(n, size),
         NEW d \in 0 .. n - 1, NEW e \in NumberedBefore(owners, d)
  PROVE  Cardinality(NumberedBefore(owners, e)) < Cardinality(NumberedBefore(owners, d))
  <1>1. DOMAIN owners = 0 .. n - 1 /\ e \in 0 .. n - 1 /\ \A c \in 0 .. n - 1 : c \in Int /\ owners[c] \in Int
    BY DEF Owners, NumberedBefore
  <1>2. NumberedBefore(owners, e) \subseteq NumberedBefore(owners, d) /\ e \notin NumberedBefore(owners, e)
    BY <1>1 DEF NumberedBefore
  <1>3. NumberedBefore(owners, d) \in SUBSET (0 .. n - 1) /\ NumberedBefore(owners, e) \in SUBSET (0 .. n - 1)
    BY <1>1 DEF NumberedBefore
  <1>4. /\ IsFiniteSet(NumberedBefore(owners, d)) /\ Cardinality(NumberedBefore(owners, d)) \in Nat
        /\ Cardinality(NumberedBefore(owners, e)) \in Nat
    BY <1>3, UnknownsFinite
  <1>5. /\ Cardinality(NumberedBefore(owners, e)) <= Cardinality(NumberedBefore(owners, d))
        /\ Cardinality(NumberedBefore(owners, d)) = Cardinality(NumberedBefore(owners, e)) => NumberedBefore(owners, d) = NumberedBefore(owners, e)
    BY <1>2, <1>4, FS_Subset
  <1> QED
    BY <1>2, <1>4, <1>5

(* The system's numbering is one of the unknowns: each has a number, and   *)
(* each number is one unknown's.                                           *)
THEOREM NumberingPermutes ==
  ASSUME NEW n \in Nat, NEW size \in Nat \ {0}, NEW owners \in Owners(n, size)
  PROVE  Numbering(owners) \in Bijection(0 .. n - 1, 0 .. n - 1)
  <1> DEFINE S == 0 .. n - 1
             f == Numbering(owners)
  <1>1. DOMAIN owners = S /\ \A c \in S : c \in Int /\ owners[c] \in Int
    BY DEF Owners
  <1>2. f = [d \in S |-> Cardinality(NumberedBefore(owners, d))]
    BY <1>1 DEF Numbering, NumberedBefore
  <1>3. ASSUME NEW d \in S PROVE f[d] \in S
    <2>1. NumberedBefore(owners, d) \in SUBSET (S \ {d})
      BY <1>1 DEF NumberedBefore
    <2>2. S \ {d} \in SUBSET S /\ NumberedBefore(owners, d) \in SUBSET S
      BY <2>1
    <2>3. IsFiniteSet(S) /\ Cardinality(S) = n /\ IsFiniteSet(S \ {d}) /\ Cardinality(NumberedBefore(owners, d)) \in Nat
      BY <2>2, UnknownsFinite
    <2>4. Cardinality(S \ {d}) = n - 1
      BY <2>3, OneUnknownLess
    <2>5. Cardinality(NumberedBefore(owners, d)) <= n - 1
      BY <2>1, <2>3, <2>4, FS_Subset
    <2> QED
      BY <1>2, <2>3, <2>5
  <1>4. ASSUME NEW d \in S, NEW e \in S, d # e PROVE f[d] # f[e]
    <2>1. e \in NumberedBefore(owners, d) \/ d \in NumberedBefore(owners, e)
      BY <1>1, <1>4 DEF NumberedBefore
    <2>2. /\ Cardinality(NumberedBefore(owners, e)) \in Nat /\ Cardinality(NumberedBefore(owners, d)) \in Nat
      <3>1. NumberedBefore(owners, d) \in SUBSET S /\ NumberedBefore(owners, e) \in SUBSET S
        BY <1>1 DEF NumberedBefore
      <3> QED
        BY <3>1, UnknownsFinite
    <2>3. f[d] = Cardinality(NumberedBefore(owners, d)) /\ f[e] = Cardinality(NumberedBefore(owners, e))
      BY <1>2
    <2>4. CASE e \in NumberedBefore(owners, d)
      <3>1. Cardinality(NumberedBefore(owners, e)) < Cardinality(NumberedBefore(owners, d))
        BY <2>4, NumberingInOrder
      <3> QED
        BY <2>2, <2>3, <3>1
    <2>5. CASE d \in NumberedBefore(owners, e)
      <3>1. Cardinality(NumberedBefore(owners, d)) < Cardinality(NumberedBefore(owners, e))
        BY <2>5, NumberingInOrder
      <3> QED
        BY <2>2, <2>3, <3>1
    <2> QED
      BY <2>1, <2>4, <2>5
  <1>5. f \in [S -> S]
    BY <1>2, <1>3
  <1> HIDE DEF f
  <1>6. f \in Injection(S, S)
    BY <1>4, <1>5 DEF Injection, IsInjective
  <1>7. IsFiniteSet(S)
    BY UnknownsFinite
  <1> HIDE DEF S
  <1>8. f \in Surjection(S, S)
    BY <1>6, <1>7, FS_Injection
  <1> QED
    BY <1>6, <1>8 DEF Bijection, S, f

(* The two directions of the permutation are inverse to each other.        *)
THEOREM IndicesInvert ==
  ASSUME NEW n \in Nat, NEW size \in Nat \ {0}, NEW owners \in Owners(n, size)
  PROVE  /\ \A d \in 0 .. n - 1 : /\ PetscIndex(Create(owners), d) \in 0 .. n - 1
                                  /\ ApplicationIndex(Create(owners), PetscIndex(Create(owners), d)) = d
         /\ \A i \in 0 .. n - 1 : /\ ApplicationIndex(Create(owners), i) \in 0 .. n - 1
                                  /\ PetscIndex(Create(owners), ApplicationIndex(Create(owners), i)) = i
  <1> DEFINE f == Numbering(owners)
             p == Create(owners)
  <1>1. DOMAIN owners = 0 .. n - 1
    BY DEF Owners
  <1>2. p.app_to_petsc = f /\ p.petsc_to_app = [i \in 0 .. n - 1 |-> CHOOSE d \in 0 .. n - 1 : f[d] = i]
    BY <1>1 DEF Create
  <1>3. p # NoPartition
    <2>1. "owners" \in DOMAIN p
      BY DEF Create
    <2> QED
      BY <2>1 DEF NoPartition
  <1>4. /\ f \in [0 .. n - 1 -> 0 .. n - 1]
        /\ \A d, e \in 0 .. n - 1 : f[d] = f[e] => d = e
        /\ \A i \in 0 .. n - 1 : \E d \in 0 .. n - 1 : f[d] = i
    <2>1. f \in Injection(0 .. n - 1, 0 .. n - 1) /\ f \in Surjection(0 .. n - 1, 0 .. n - 1)
      BY NumberingPermutes DEF Bijection
    <2> HIDE DEF f
    <2> QED
      BY <2>1 DEF Injection, Surjection, IsInjective
  <1> HIDE DEF f, p
  <1>5. ASSUME NEW i \in 0 .. n - 1
        PROVE  p.petsc_to_app[i] \in 0 .. n - 1 /\ f[p.petsc_to_app[i]] = i
    BY <1>2, <1>4
  <1>6. ASSUME NEW d \in 0 .. n - 1
        PROVE  f[d] \in 0 .. n - 1 /\ p.petsc_to_app[f[d]] = d
    BY <1>4, <1>5
  <1> QED
    BY <1>2, <1>3, <1>5, <1>6 DEF PetscIndex, ApplicationIndex, p

(* The rows of a rank are consecutive, and those of its unknowns.          *)
LEMMA NumberInRange ==
  ASSUME NEW n \in Nat, NEW size \in Nat \ {0}, NEW owners \in Owners(n, size), NEW d \in 0 .. n - 1
  PROVE  /\ Cardinality(Below(owners, owners[d])) <= Numbering(owners)[d]
         /\ Numbering(owners)[d]
              < Cardinality(Below(owners, owners[d])) + Cardinality(OwnedBy(owners, owners[d]))
  <1> DEFINE B == NumberedBefore(owners, d)
             L == Below(owners, owners[d])
             O == OwnedBy(owners, owners[d])
  <1>1. DOMAIN owners = 0 .. n - 1 /\ \A c \in 0 .. n - 1 : c \in Int /\ owners[c] \in Int
    BY DEF Owners
  <1>2. Numbering(owners)[d] = Cardinality(B)
    BY <1>1 DEF Numbering, NumberedBefore
  <1>3. /\ L \subseteq B /\ B \subseteq L \cup O /\ d \in (L \cup O) \ B /\ L \cap O = {}
        /\ B \in SUBSET (0 .. n - 1) /\ L \in SUBSET (0 .. n - 1) /\ O \in SUBSET (0 .. n - 1)
        /\ L \cup O \in SUBSET (0 .. n - 1)
    BY <1>1 DEF NumberedBefore, Below, OwnedBy
  <1> HIDE DEF B, L, O
  <1>4. /\ IsFiniteSet(B) /\ IsFiniteSet(L) /\ IsFiniteSet(O) /\ IsFiniteSet(L \cup O)
        /\ Cardinality(B) \in Nat /\ Cardinality(L) \in Nat /\ Cardinality(O) \in Nat
        /\ Cardinality(L \cup O) \in Nat
    BY <1>3, UnknownsFinite
  <1>5. Cardinality(L) <= Cardinality(B)
    BY <1>3, <1>4, FS_Subset
  <1>6. Cardinality(L \cup O) = Cardinality(L) + Cardinality(O)
    BY <1>3, <1>4, TwoKinds
  <1>7. Cardinality(B) <= Cardinality(L \cup O) /\ Cardinality(B) # Cardinality(L \cup O)
    BY <1>3, <1>4, FS_Subset
  <1> QED
    BY <1>2, <1>4, <1>5, <1>6, <1>7 DEF L, O

(* The ranges of the ranks come one after the other.                       *)
LEMMA RangesApart ==
  ASSUME NEW n \in Nat, NEW size \in Nat \ {0}, NEW owners \in Owners(n, size), NEW r \in Int, NEW s \in Int, r < s
  PROVE  /\ Cardinality(Below(owners, r)) \in Nat /\ Cardinality(Below(owners, s)) \in Nat
         /\ Cardinality(OwnedBy(owners, r)) \in Nat
         /\ Cardinality(Below(owners, r)) + Cardinality(OwnedBy(owners, r)) <= Cardinality(Below(owners, s))
  <1> DEFINE R == Below(owners, r)
             S == Below(owners, s)
             O == OwnedBy(owners, r)
  <1>1. DOMAIN owners = 0 .. n - 1 /\ \A c \in 0 .. n - 1 : owners[c] \in Int
    BY DEF Owners
  <1>2. /\ R \cup O \subseteq S /\ R \cap O = {}
        /\ R \in SUBSET (0 .. n - 1) /\ S \in SUBSET (0 .. n - 1) /\ O \in SUBSET (0 .. n - 1)
    BY <1>1 DEF Below, OwnedBy
  <1> HIDE DEF R, S, O
  <1>3. /\ IsFiniteSet(R) /\ IsFiniteSet(S) /\ IsFiniteSet(O)
        /\ Cardinality(R) \in Nat /\ Cardinality(S) \in Nat /\ Cardinality(O) \in Nat
    BY <1>2, UnknownsFinite
  <1>4. Cardinality(R \cup O) = Cardinality(R) + Cardinality(O)
    BY <1>2, <1>3, TwoKinds
  <1>5. Cardinality(R \cup O) <= Cardinality(S)
    BY <1>2, <1>3, FS_Subset
  <1> QED
    BY <1>3, <1>4, <1>5 DEF R, S, O

(* The rank that has the row of an unknown is the one that owns it.        *)
THEOREM RowOwnerOwns ==
  ASSUME NEW n \in Nat, NEW size \in Nat \ {0}, NEW owners \in Owners(n, size), NEW d \in 0 .. n - 1
  PROVE  RowOwner(Create(owners), PetscIndex(Create(owners), d)) = owners[d]
  <1> DEFINE p == Create(owners)
             i == Numbering(owners)[d]
             RangeOf(r) == [begin |-> Cardinality(Below(owners, r)),
                          end |-> Cardinality(Below(owners, r)) + Cardinality(OwnedBy(owners, r))]
             Holders == {owners[c] : c \in 0 .. n - 1}
  <1>1. DOMAIN owners = 0 .. n - 1 /\ \A c \in 0 .. n - 1 : owners[c] \in Int
    BY DEF Owners
  <1>2. p # NoPartition
    <2>1. "owners" \in DOMAIN p
      BY DEF Create
    <2> QED
      BY <2>1 DEF NoPartition
  <1>3. PetscIndex(p, d) = i /\ i \in Int
    <2>1. p.app_to_petsc = Numbering(owners)
      BY DEF Create
    <2>2. Numbering(owners) \in [0 .. n - 1 -> 0 .. n - 1]
      BY NumberingPermutes DEF Bijection, Surjection
    <2>3. i \in 0 .. n - 1
      BY <2>2
    <2> HIDE DEF p, i
    <2>4. PetscIndex(p, d) = i
      BY <1>2, <2>1 DEF PetscIndex, i
    <2> QED
      BY <2>3, <2>4
  <1>4. p.ranges = [r \in Holders |-> RangeOf(r)]
    BY <1>1 DEF Create, Below
  <1>5. owners[d] \in Holders /\ \A r \in Holders : r \in Int
    BY <1>1
  <1>6. \A r : InRange(i, RangeOf(r)) <=>
          /\ Cardinality(Below(owners, r)) <= i
          /\ i < Cardinality(Below(owners, r)) + Cardinality(OwnedBy(owners, r))
    BY DEF InRange
  <1>7. InRange(i, RangeOf(owners[d]))
    BY <1>6, NumberInRange
  <1> HIDE DEF p, i, RangeOf, Holders
  <1>8. ASSUME NEW r \in Holders, NEW s \in Holders, r < s, InRange(i, RangeOf(r)), InRange(i, RangeOf(s))
        PROVE  FALSE
    <2>1. /\ Cardinality(Below(owners, r)) \in Nat /\ Cardinality(Below(owners, s)) \in Nat
          /\ Cardinality(OwnedBy(owners, r)) \in Nat
          /\ Cardinality(Below(owners, r)) + Cardinality(OwnedBy(owners, r)) <= Cardinality(Below(owners, s))
      BY <1>5, <1>8, RangesApart
    <2> QED
      BY <1>3, <1>6, <1>8, <2>1
  <1>9. \A r \in Holders : InRange(i, RangeOf(r)) => r = owners[d]
    BY <1>5, <1>7, <1>8
  <1>10. RowOwner(p, i) = CHOOSE r \in Holders : InRange(i, RangeOf(r))
    BY <1>2, <1>4 DEF RowOwner
  <1>11. RowOwner(p, i) = owners[d]
    BY <1>5, <1>7, <1>9, <1>10
  <1> QED
    BY <1>3, <1>11 DEF p

(* A replicated vector that goes to the system and comes back is what its  *)
(* owners had, component by component.                                     *)
THEOREM CopiesComeBack ==
  ASSUME NEW n \in Nat, NEW size \in Nat \ {0}, NEW owners \in Owners(n, size), part = Create(owners), NEW copies
  PROVE  CopyFromPETSc(CopyToPETSc(copies, 0 .. n - 1)) = [d \in 0 .. n - 1 |-> copies[owners[d]][d]]
  <1> DEFINE b == CopyToPETSc(copies, 0 .. n - 1)
  <1>1. b = [i \in 0 .. n - 1 |-> copies[RowOwner(part, i)][ApplicationIndex(part, i)]]
    BY DEF CopyToPETSc
  <1>2. CopyFromPETSc(b) = [d \in 0 .. n - 1 |-> b[PetscIndex(part, d)]]
    BY <1>1 DEF CopyFromPETSc
  <1> HIDE DEF b
  <1>3. ASSUME NEW d \in 0 .. n - 1 PROVE b[PetscIndex(part, d)] = copies[owners[d]][d]
    <2>1. PetscIndex(part, d) \in 0 .. n - 1 /\ ApplicationIndex(part, PetscIndex(part, d)) = d
      BY IndicesInvert
    <2>2. RowOwner(part, PetscIndex(part, d)) = owners[d]
      BY RowOwnerOwns
    <2> QED
      BY <1>1, <2>1, <2>2
  <1> QED
    BY <1>2, <1>3 DEF b

(* Of several numbers there is a least one.                                *)
LEMMA LeastNumber ==
  ASSUME NEW S \in SUBSET Nat, S # {}
  PROVE  \E k \in S : \A l \in S : k <= l
  <1>1. PICK k \in S : \A l \in S : <<l, k>> \notin OpToRel(<, Nat)
    BY NatLessThanWellFounded, WFMin
  <1>2. ASSUME NEW l \in S PROVE k <= l
    <2>1. k \in Nat /\ l \in Nat
      OBVIOUS
    <2>2. ~(l < k)
      BY <1>1, <2>1 DEF OpToRel
    <2> QED
      BY <2>1, <2>2
  <1> QED
    BY <1>2

(* Among ranks that hold some of the rows there is one that no other goes  *)
(* before: of those with the most, the lowest.                             *)
LEMMA FirstOfHolders ==
  \A most \in Nat : \A H \in SUBSET Nat : \A h \in [H -> 0 .. most] : H # {} =>
    \E rank \in H :
      \A other \in H : h[rank] > h[other] \/ (h[rank] = h[other] /\ rank <= other)
  <1> SUFFICES ASSUME NEW most \in Nat, NEW H \in SUBSET Nat, NEW h \in [H -> 0 .. most], H # {}
               PROVE  \E rank \in H :
                        \A other \in H :
                          h[rank] > h[other] \/ (h[rank] = h[other] /\ rank <= other)
    OBVIOUS
  <1> DEFINE Lacks == {most - h[r] : r \in H}
  <1>1. Lacks \in SUBSET Nat /\ Lacks # {}
    <2>1. \A r \in H : h[r] \in 0 .. most /\ most - h[r] \in Nat
      OBVIOUS
    <2> QED
      BY <2>1
  <1> HIDE DEF Lacks
  <1>2. PICK lack \in Lacks : \A l \in Lacks : lack <= l
    BY <1>1, LeastNumber
  <1> DEFINE Best == {r \in H : most - h[r] = lack}
  <1>3. Best \in SUBSET Nat /\ Best # {}
    BY <1>2 DEF Lacks
  <1> HIDE DEF Best
  <1>4. PICK rank \in Best : \A r \in Best : rank <= r
    BY <1>3, LeastNumber
  <1>5. rank \in H /\ most - h[rank] = lack
    BY <1>4 DEF Best
  <1>6. ASSUME NEW other \in H
        PROVE  h[rank] > h[other] \/ (h[rank] = h[other] /\ rank <= other)
    <2>1. most - h[rank] <= most - h[other]
      BY <1>2, <1>5 DEF Lacks
    <2>2. h[rank] = h[other] => other \in Best
      BY <1>5 DEF Best
    <2> QED
      BY <1>4, <1>5, <2>1, <2>2
  <1> QED
    BY <1>5, <1>6

(* With a partition, every rank looks at all elements, and each element is *)
(* assembled by exactly one of them, which owns one of its rows and no     *)
(* fewer of them than any other.  (PETScPartition::elementOwner,           *)
(* MpiContext::ownsElement.)                                               *)
THEOREM ElementOfOneRank ==
  ASSUME NEW n \in Nat, NEW size \in Nat \ {0}, NEW owners \in Owners(n, size),
         NEW num \in Nat \ {0}, NEW rows \in [0 .. num - 1 -> 0 .. n - 1],
         NEW count \in Nat, NEW ie \in 0 .. count - 1
  PROVE  LET Assembles(rank) == /\ InRange(ie, ElementRange(Create(owners), count, rank, size))
                                /\ OwnsElement(Create(owners), ie, count, rows, rank, size)
             Held(rank) == Cardinality({i \in 0 .. num - 1 : owners[rows[i]] = rank})
         IN \E rank \in Ranks(size) :
              /\ \A other \in Ranks(size) : Assembles(other) <=> other = rank
              /\ \E i \in 0 .. num - 1 : owners[rows[i]] = rank
              /\ \A other \in Ranks(size) : Held(other) <= Held(rank)
  <1> DEFINE p == Create(owners)
             Assembles(rank) == /\ InRange(ie, ElementRange(p, count, rank, size))
                                /\ OwnsElement(p, ie, count, rows, rank, size)
             Held(rank) == Cardinality({i \in 0 .. num - 1 : owners[rows[i]] = rank})
             holders == {owners[rows[i]] : i \in 0 .. num - 1}
             held == [rank \in Ranks(size) |-> Held(rank)]
  <1>1. DOMAIN rows = 0 .. num - 1 /\ \A i \in 0 .. num - 1 : owners[rows[i]] \in Ranks(size)
    BY DEF Owners, Ranks
  <1>2. p # NoPartition /\ p.owners = owners
    <2>1. "owners" \in DOMAIN p /\ p.owners = owners
      BY DEF Create
    <2> QED
      BY <2>1 DEF NoPartition
  <1>3. ElementOwner(p, rows) = CHOOSE rank \in holders :
          \A other \in holders : Held(rank) > Held(other) \/ (Held(rank) = Held(other) /\ rank <= other)
    BY <1>1, <1>2 DEF ElementOwner
  <1>4. holders \in SUBSET Ranks(size) /\ holders # {} /\ Ranks(size) \in SUBSET Nat
    <2>1. 0 \in 0 .. num - 1 /\ Ranks(size) \in SUBSET Nat
      BY DEF Ranks
    <2>2. owners[rows[0]] \in holders
      BY <2>1
    <2>3. holders \in SUBSET Ranks(size)
      BY <1>1
    <2> QED
      BY <2>1, <2>2, <2>3
  <1>5. ASSUME NEW rank \in Ranks(size)
        PROVE  held[rank] \in 0 .. num /\ (rank \notin holders => held[rank] = 0)
    <2> DEFINE Of == {i \in 0 .. num - 1 : owners[rows[i]] = rank}
    <2>1. Of \in SUBSET (0 .. num - 1) /\ (rank \notin holders => Of = {}) /\ held[rank] = Cardinality(Of)
      OBVIOUS
    <2> HIDE DEF Of, held, holders
    <2>2. IsFiniteSet(0 .. num - 1) /\ Cardinality(0 .. num - 1) = num /\ Cardinality(Of) \in Nat
      BY <2>1, UnknownsFinite
    <2>3. Cardinality(Of) <= num
      BY <2>1, <2>2, FS_Subset
    <2>4. rank \notin holders => Cardinality(Of) = 0
      BY <2>1, FS_EmptySet
    <2> QED
      BY <2>1, <2>2, <2>3, <2>4
  <1>6. \A rank \in holders : Held(rank) = held[rank]
    BY <1>4
  <1> HIDE DEF p, holders, Held, held
  <1>7. ElementOwner(p, rows) = CHOOSE rank \in holders :
          \A other \in holders : held[rank] > held[other] \/ (held[rank] = held[other] /\ rank <= other)
    BY <1>3, <1>6
  <1>8. \E rank \in holders :
          \A other \in holders : held[rank] > held[other] \/ (held[rank] = held[other] /\ rank <= other)
    <2> DEFINE h == [rank \in holders |-> held[rank]]
    <2>1. h \in [holders -> 0 .. num] /\ holders \in SUBSET Nat /\ holders # {} /\ num \in Nat
      BY <1>4, <1>5
    <2>2. \A rank \in holders : h[rank] = held[rank]
      OBVIOUS
    <2> HIDE DEF h
    <2>3. num \in Nat
      OBVIOUS
    <2>4. \A S \in SUBSET Nat : \A f \in [S -> 0 .. num] : S # {} =>
            \E rank \in S : \A other \in S : f[rank] > f[other] \/ (f[rank] = f[other] /\ rank <= other)
      BY ONLY <2>3, FirstOfHolders
    <2>5. \E rank \in holders :
            \A other \in holders : h[rank] > h[other] \/ (h[rank] = h[other] /\ rank <= other)
      BY <2>1, <2>4
    <2> QED
      BY <2>2, <2>5
  <1>9. PICK rank \in holders : /\ rank = ElementOwner(p, rows)
                                 /\ \A other \in holders : held[rank] > held[other] \/ held[rank] = held[other]
    BY <1>7, <1>8
  <1>10. rank \in Ranks(size) /\ \E i \in 0 .. num - 1 : owners[rows[i]] = rank
    BY <1>4 DEF holders
  <1>11. \A other \in Ranks(size) : Assembles(other) <=> other = rank
    BY <1>2, <1>9 DEF ElementRange, OwnsElement, InRange
  <1>12. \A other \in Ranks(size) : held[other] <= held[rank]
    BY <1>5, <1>9, <1>10
  <1> QED
    BY <1>10, <1>11, <1>12 DEF p, Held, held

=============================================================================
