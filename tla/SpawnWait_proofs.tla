-------------------------- MODULE SpawnWait_proofs --------------------------
(* What SpawnWait promises whenever it is looked at, for any threads,       *)
(* numbers of commands, sizes of pipes and reads, exit codes and handles.   *)
EXTENDS SpawnWait, TLAPS

Places == {"next", "create", "insert", "wait", "erase", "collect", "poll", "reap",
           "returned", "finished"}
States == {"none", "running", "exited", "killed", "stopped", "gone"}
Doings == {"waiting", "stop", "terminate", "join", "done"}
Children == [state : States, code : Int, handle : Handles \cup {NoHandle},
             todo : Int, unread : Int]

(* What every variable is.                                                  *)
Shapes ==
  /\ build \in {"windows", "posix"} /\ build \in Builds
  /\ capture \in BOOLEAN
  /\ stopAll \in BOOLEAN
  /\ waiter \in [doing : Doings, at : {waiter.at}, rv : {waiter.rv}]
  /\ pc \in [ThreadSet -> Places]
  /\ left \in [ThreadSet -> Nat]
  /\ \A t \in ThreadSet : left[t] <= Commands[t]
  /\ result \in [ThreadSet -> Int]
  /\ child \in [ThreadSet -> Children]
  /\ pipe \in [ThreadSet -> [open : BOOLEAN, bytes : 0 .. PipeSize]]
  /\ processIds \subseteq Handles
  /\ handles \subseteq Handles
  /\ startedLate \in [ThreadSet -> Nat]

(* A command started after the stop is the one the thread was about to      *)
(* start, and the thread has not tested the flag since.                     *)
Late ==
  \A t \in ThreadSet :
    /\ ~stopAll => startedLate[t] = 0
    /\ startedLate[t] <= 1
    /\ startedLate[t] = 1 => pc[t] \notin {"next", "create"}

(* Each thread between CreateProcess and CloseHandle has a handle of its    *)
(* own; those are the open ones, and the set holds those that are waited    *)
(* for.                                                                     *)
Holding(t) == pc[t] \in {"insert", "wait", "erase", "collect"}
Listed(t)  == pc[t] \in {"wait", "erase"}
Owned ==
  /\ \A t \in ThreadSet : Holding(t) => build = "windows" /\ child[t].handle \in Handles
  /\ \A t, u \in ThreadSet :
       Holding(t) /\ Holding(u) /\ t # u => child[t].handle # child[u].handle
  /\ \A h \in Handles :
       /\ h \in handles <=> \E t \in ThreadSet : Holding(t) /\ child[t].handle = h
       /\ h \in processIds <=> \E t \in ThreadSet : Listed(t) /\ child[t].handle = h

(* What a thread can find of its command at each place.                     *)
Here(t) ==
  /\ pc[t] \in {"next", "create", "finished"} => child[t].state \in {"none", "stopped"}
  /\ pc[t] \in {"insert", "wait"} => child[t].state \in {"running", "exited", "killed"}
  /\ pc[t] \in {"erase", "collect"} => child[t].state \in {"exited", "killed"}
  /\ pc[t] \in {"poll", "reap"} =>
       build = "posix" /\ child[t].state \in {"running", "exited", "killed", "stopped", "gone"}
  /\ pc[t] = "returned" =>
       child[t].state \in (IF build = "posix" THEN {"none", "exited", "stopped", "gone"}
                           ELSE {"none", "exited", "killed"})
Found ==
  \A t \in ThreadSet :
    /\ Here(t)
    /\ child[t].state \in {"killed", "gone"} => child[t].code = 0
    /\ child[t].state = "stopped" /\ pc[t] \in {"poll", "reap"} => child[t].code = StopSignal
    /\ pc[t] = "returned" =>
         result[t] = CASE child[t].state = "none" -> -1
                       [] child[t].state = "stopped" -> StopSignal
                       [] OTHER -> child[t].code
    /\ pc[t] \in {"reap", "returned"} => child[t].unread = 0
    /\ pipe[t].open => pc[t] \in {"insert", "wait", "erase", "collect", "poll", "reap", "returned"}

Ended == Doing("done") => \A t \in ThreadSet : pc[t] = "finished"

IInv == Shapes /\ Late /\ Owned /\ Found /\ Ended

-----------------------------------------------------------------------------
(* The record of a command after each kind of change.                       *)
LEMMA ChildEnds ==
  ASSUME NEW c \in Children, NEW state \in States, NEW code \in Int
  PROVE  [c EXCEPT !.state = state, !.code = code] \in Children
BY DEF Children

LEMMA ChildDies ==
  ASSUME NEW c \in Children
  PROVE  [c EXCEPT !.state = "killed", !.code = 0] \in Children
<1>1. "killed" \in States
  BY DEF States
<1>2. 0 \in Int
  OBVIOUS
<1> QED
  BY <1>1, <1>2, ChildEnds, Zenon

LEMMA ChildStarts ==
  ASSUME NEW h \in Handles \cup {NoHandle}, NEW todo \in Int
  PROVE  [NoChild EXCEPT !.state = "running", !.handle = h, !.todo = todo] \in Children
<1>1. NoChild \in Children
  BY DEF NoChild, Children, States
<1>2. ASSUME NEW state \in States
      PROVE  [NoChild EXCEPT !.state = state, !.handle = h, !.todo = todo] \in Children
  BY <1>1 DEF Children
<1> QED
  BY <1>2 DEF States

LEMMA ChildSeen ==
  ASSUME NEW c \in Children, NEW h \in Handles \cup {NoHandle}, NEW unread \in Int
  PROVE  /\ [c EXCEPT !.handle = h, !.unread = unread] \in Children
         /\ [c EXCEPT !.unread = unread] \in Children
BY DEF Children

LEMMA InitIInv == Init => IInv
<1> SUFFICES ASSUME Init PROVE IInv
  OBVIOUS
<1> USE DEF Init
<1>1. Shapes
  <2>1. \A t \in ThreadSet : Commands[t] \in Nat
    BY SpawnAssumption DEF ThreadSet
  <2>2. NoChild \in Children /\ NoPipe \in [open : BOOLEAN, bytes : 0 .. PipeSize]
    BY SpawnAssumption DEF Children, States, NoChild, NoPipe
  <2>3. build \in {"windows", "posix"} /\ build \in Builds /\ capture \in BOOLEAN
    BY SpawnAssumption
  <2>4. left \in [ThreadSet -> Nat] /\ \A t \in ThreadSet : left[t] <= Commands[t]
    BY <2>1
  <2>5. child \in [ThreadSet -> Children] /\ pipe \in [ThreadSet -> [open : BOOLEAN, bytes : 0 .. PipeSize]]
    BY <2>2
  <2>6. pc \in [ThreadSet -> Places] /\ waiter \in [doing : Doings, at : {waiter.at}, rv : {waiter.rv}]
    BY DEF Places, Doings
  <2>7. stopAll \in BOOLEAN
    OBVIOUS
  <2>8. processIds \subseteq Handles /\ handles \subseteq Handles
    OBVIOUS
  <2>9. result \in [ThreadSet -> Int]
    <3>1. 0 \in Int
      OBVIOUS
    <3> QED
      BY <3>1, Zenon
  <2>10. startedLate \in [ThreadSet -> Nat]
    BY Zenon, 0 \in Nat
  <2> HIDE DEF Init
  <2> QED
    BY <2>3, <2>4, <2>5, <2>6, <2>7, <2>8, <2>9, <2>10 DEF Shapes
<1>2. Late
  BY DEF Late
<1>3. Owned
  BY DEF Owned, Holding, Listed
<1>4. Found
  BY DEF Found, Here, NoChild, NoPipe
<1>5. Ended
  BY DEF Ended, Doing
<1> QED
  BY <1>1, <1>2, <1>3, <1>4, <1>5 DEF IInv

(* A step that opens and closes no handle and leaves each thread among, or  *)
(* outside, those that hold one.                                            *)
LEMMA OwnedKept ==
  ASSUME Owned, UNCHANGED <<build, handles, processIds>>,
         \A t \in ThreadSet : /\ Holding(t)' <=> Holding(t)
                              /\ Listed(t)' <=> Listed(t)
                              /\ child'[t].handle = child[t].handle
  PROVE  Owned'
BY DEF Owned

(* A thread that is not waited for closes its handle.                       *)
LEMMA OwnedClosed ==
  ASSUME Owned, NEW t \in ThreadSet, Holding(t), ~Listed(t),
         UNCHANGED <<build, processIds>>, handles' = handles \ {child[t].handle},
         \A u \in ThreadSet : /\ Holding(u)' <=> Holding(u) /\ u # t
                              /\ Listed(u)' <=> Listed(u)
                              /\ u # t => child'[u].handle = child[u].handle
  PROVE  Owned'
<1>1. \A u \in ThreadSet : Listed(u) => Holding(u)
  BY DEF Listed, Holding
<1>2. \A u \in ThreadSet : Holding(u)' => build' = "windows" /\ child'[u].handle \in Handles
  BY DEF Owned
<1>3. \A u, v \in ThreadSet :
        Holding(u)' /\ Holding(v)' /\ u # v => child'[u].handle # child'[v].handle
  BY DEF Owned
<1>4. ASSUME NEW h \in Handles
      PROVE  h \in handles' <=> \E u \in ThreadSet : Holding(u)' /\ child'[u].handle = h
  BY DEF Owned
<1>5. ASSUME NEW h \in Handles
      PROVE  h \in processIds' <=> \E u \in ThreadSet : Listed(u)' /\ child'[u].handle = h
  BY <1>1 DEF Owned
<1> QED
  BY <1>2, <1>3, <1>4, <1>5 DEF Owned

LEMMA ChildWritesIInv ==
  ASSUME IInv, NEW t \in ThreadSet, ChildWrites(t)
  PROVE  IInv'
<1> USE DEF IInv, ChildWrites, Running, Piped
<1>1. Shapes'
  <2>1. child' \in [ThreadSet -> Children]
    <3>1. child[t] \in Children
      BY DEF Shapes
    <3>2. [child[t] EXCEPT !.todo = @ - 1] \in Children
      BY <3>1 DEF Children
    <3> QED
      BY <3>2 DEF Shapes
  <2>2. pipe' \in [ThreadSet -> [open : BOOLEAN, bytes : 0 .. PipeSize]]
    BY SpawnAssumption DEF Shapes
  <2>3. left' \in [ThreadSet -> Nat] /\ \A u \in ThreadSet : left'[u] <= Commands[u]
    BY DEF Shapes
  <2>4. result' \in [ThreadSet -> Int] /\ startedLate' \in [ThreadSet -> Nat]
    BY DEF Shapes
  <2> QED
    BY <2>1, <2>2, <2>3, <2>4 DEF Shapes, Places
<1>2. Late'
  BY DEF Late, Shapes
<1>3. Owned'
  BY OwnedKept DEF Holding, Listed, Shapes, Places
<1>4. Found'
  BY DEF Found, Here, Shapes, Children, States
<1>5. Ended'
  BY DEF Ended, Doing, Shapes
<1> QED
  BY <1>1, <1>2, <1>3, <1>4, <1>5

LEMMA ChildExitsIInv ==
  ASSUME IInv, NEW t \in ThreadSet, ChildExits(t)
  PROVE  IInv'
<1> USE DEF IInv, ChildExits, Ends, Running
<1>1. Shapes'
  <2>1. child' \in [ThreadSet -> Children]
    <3>1. child[t] \in Children
      BY DEF Shapes
    <3>2. \A code \in Codes : [child[t] EXCEPT !.state = "exited", !.code = code] \in Children
      <4>1. Codes \subseteq Int /\ "exited" \in States
        BY SpawnAssumption DEF States
      <4> QED
        BY <3>1, <4>1, ChildEnds
    <3>3. PICK code \in Codes :
            child' = [child EXCEPT ![t] = [child[t] EXCEPT !.state = "exited", !.code = code]]
      OBVIOUS
    <3> QED
      BY <3>2, <3>3 DEF Shapes
  <2>2. pipe' \in [ThreadSet -> [open : BOOLEAN, bytes : 0 .. PipeSize]]
    BY SpawnAssumption DEF Shapes
  <2>3. left' \in [ThreadSet -> Nat] /\ \A u \in ThreadSet : left'[u] <= Commands[u]
    BY DEF Shapes
  <2>4. result' \in [ThreadSet -> Int] /\ startedLate' \in [ThreadSet -> Nat]
    BY DEF Shapes
  <2> QED
    BY <2>1, <2>2, <2>3, <2>4 DEF Shapes, Places
<1>2. Late'
  BY DEF Late, Shapes
<1>3. Owned'
  BY OwnedKept DEF Holding, Listed, Shapes, Children, Places
<1>4. Found'
  BY DEF Found, Here, Shapes, Children, States
<1>5. Ended'
  BY DEF Ended, Doing, Shapes
<1> QED
  BY <1>1, <1>2, <1>3, <1>4, <1>5

LEMMA ChildKilledIInv ==
  ASSUME IInv, NEW t \in ThreadSet, ChildKilled(t)
  PROVE  IInv'
<1> USE DEF IInv, ChildKilled, Ends, Running
<1>1. Shapes'
  <2>1. child' \in [ThreadSet -> Children]
    <3>1. child[t] \in Children
      BY DEF Shapes
    <3>2. [child[t] EXCEPT !.state = "killed", !.code = 0] \in Children
      BY <3>1, ChildDies
    <3> QED
      BY <3>2 DEF Shapes
  <2>2. pipe' \in [ThreadSet -> [open : BOOLEAN, bytes : 0 .. PipeSize]]
    BY SpawnAssumption DEF Shapes
  <2>3. left' \in [ThreadSet -> Nat] /\ \A u \in ThreadSet : left'[u] <= Commands[u]
    BY DEF Shapes
  <2>4. result' \in [ThreadSet -> Int] /\ startedLate' \in [ThreadSet -> Nat]
    BY DEF Shapes
  <2> QED
    BY <2>1, <2>2, <2>3, <2>4 DEF Shapes, Places
<1>2. Late'
  BY DEF Late, Shapes
<1>3. Owned'
  BY OwnedKept DEF Holding, Listed, Shapes, Places
<1>4. Found'
  BY DEF Found, Here, Shapes, Children, States
<1>5. Ended'
  BY DEF Ended, Doing, Shapes
<1> QED
  BY <1>1, <1>2, <1>3, <1>4, <1>5

LEMMA ChildStoppedIInv ==
  ASSUME IInv, NEW t \in ThreadSet, ChildStopped(t)
  PROVE  IInv'
<1> USE DEF IInv, ChildStopped, Ends, Running
<1>1. Shapes'
  <2>1. child' \in [ThreadSet -> Children]
    <3>1. child[t] \in Children
      BY DEF Shapes
    <3>2. [child[t] EXCEPT !.state = "stopped", !.code = StopSignal] \in Children
      <4>1. StopSignal \in Int /\ "stopped" \in States
        BY SpawnAssumption DEF States
      <4> QED
        BY <3>1, <4>1, ChildEnds
    <3> QED
      BY <3>2 DEF Shapes
  <2>2. pipe' \in [ThreadSet -> [open : BOOLEAN, bytes : 0 .. PipeSize]]
    BY SpawnAssumption DEF Shapes
  <2>3. left' \in [ThreadSet -> Nat] /\ \A u \in ThreadSet : left'[u] <= Commands[u]
    BY DEF Shapes
  <2>4. result' \in [ThreadSet -> Int] /\ startedLate' \in [ThreadSet -> Nat]
    BY DEF Shapes
  <2> QED
    BY <2>1, <2>2, <2>3, <2>4 DEF Shapes, Places
<1>2. Late'
  BY DEF Late, Shapes
<1>3. Owned'
  BY OwnedKept DEF Holding, Listed, Shapes, Places
<1>4. Found'
  BY SpawnAssumption DEF Found, Here, Shapes, Children, States, Owned, Holding, Listed
<1>5. Ended'
  BY DEF Ended, Doing, Shapes
<1> QED
  BY <1>1, <1>2, <1>3, <1>4, <1>5

LEMMA NextCommandIInv ==
  ASSUME IInv, NEW t \in ThreadSet, NextCommand(t)
  PROVE  IInv'
<1> USE DEF IInv, NextCommand, At, Goto, Stopped
<1>1. Shapes'
  <2>1. child' \in [ThreadSet -> Children]
    BY SpawnAssumption DEF Shapes, States, Children
  <2>2. pipe' \in [ThreadSet -> [open : BOOLEAN, bytes : 0 .. PipeSize]]
    BY SpawnAssumption DEF Shapes
  <2>3. left' \in [ThreadSet -> Nat] /\ \A u \in ThreadSet : left'[u] <= Commands[u]
    <3>1. Commands[t] \in Nat /\ left[t] \in Nat /\ left[t] <= Commands[t]
      BY SpawnAssumption DEF Shapes, ThreadSet
    <3>2. CASE left' = [left EXCEPT ![t] = left[t] - 1] /\ left[t] > 0
      <4>1. left[t] - 1 \in Nat /\ left[t] - 1 <= left[t]
        BY <3>1, <3>2
      <4>2. \A u \in ThreadSet : Commands[u] \in Nat
        BY SpawnAssumption DEF ThreadSet
      <4> QED
        BY <3>1, <3>2, <4>1, <4>2 DEF Shapes
    <3>3. CASE left' = left
      BY <3>3 DEF Shapes
    <3> QED
      BY <3>2, <3>3
  <2>4. result' \in [ThreadSet -> Int] /\ startedLate' \in [ThreadSet -> Nat]
    BY DEF Shapes
  <2> QED
    BY <2>1, <2>2, <2>3, <2>4 DEF Shapes, Places
<1>2. Late'
  BY DEF Late, Shapes
<1>3. Owned'
  BY OwnedKept DEF Holding, Listed, Shapes, Children, Places
<1>4. Found'
  BY DEF Found, Here, Shapes, Children, States
<1>5. Ended'
  BY DEF Ended, Doing, Shapes
<1> QED
  BY <1>1, <1>2, <1>3, <1>4, <1>5

LEMMA CreateIInv ==
  ASSUME IInv, NEW t \in ThreadSet, Create(t)
  PROVE  IInv'
<1> USE DEF IInv, Create, At, Goto, Piped
<1>1. Shapes'
  <2>1. child' \in [ThreadSet -> Children]
    <3>1. \A todo \in Outputs, h \in Handles \cup {NoHandle} :
            [NoChild EXCEPT !.state = "running", !.handle = h, !.todo = todo] \in Children
      <4>1. Outputs \subseteq Int
        BY SpawnAssumption
      <4> QED
        BY <4>1, ChildStarts
    <3>2. PICK todo \in Outputs, h \in Handles \cup {NoHandle} :
            child' = [child EXCEPT ![t] =
                        [NoChild EXCEPT !.state = "running", !.handle = h, !.todo = todo]]
      OBVIOUS
    <3> QED
      BY <3>1, <3>2 DEF Shapes
  <2>2. pipe' \in [ThreadSet -> [open : BOOLEAN, bytes : 0 .. PipeSize]]
    BY SpawnAssumption DEF Shapes
  <2>3. left' \in [ThreadSet -> Nat] /\ \A u \in ThreadSet : left'[u] <= Commands[u]
    BY DEF Shapes
  <2>4. result' \in [ThreadSet -> Int] /\ startedLate' \in [ThreadSet -> Nat]
    BY DEF Shapes
  <2> QED
    BY <2>1, <2>2, <2>3, <2>4 DEF Shapes, Places
<1>2. Late'
  BY DEF Late, Shapes
<1>3. Owned'
  BY HandleAssumption DEF NoChild, Owned, Holding, Listed, Shapes, Children, Found, Here
<1>4. Found'
  BY SpawnAssumption DEF NoChild, Found, Here, Shapes, Children, States, Owned, Holding, Listed
<1>5. Ended'
  BY DEF Ended, Doing, Shapes
<1> QED
  BY <1>1, <1>2, <1>3, <1>4, <1>5

LEMMA CreateFailsIInv ==
  ASSUME IInv, NEW t \in ThreadSet, CreateFails(t)
  PROVE  IInv'
<1> USE DEF IInv, CreateFails, At, Goto, NoChild, PipeAfterFailure, NoPipe
<1>1. Shapes'
  BY SpawnAssumption DEF Shapes, Places, Doings, States, Children
<1>2. Late'
  BY DEF Late, Shapes
<1>3. Owned'
  BY HandleAssumption DEF Owned, Holding, Listed, Shapes, Children, Found, Here
<1>4. Found'
  BY DEF Found, Here, Shapes, Children, States
<1>5. Ended'
  BY DEF Ended, Doing, Shapes
<1> QED
  BY <1>1, <1>2, <1>3, <1>4, <1>5

LEMMA ActionsFailIInv ==
  ASSUME IInv, NEW t \in ThreadSet, ActionsFail(t)
  PROVE  IInv'
<1> USE DEF IInv, ActionsFail, At, Goto, NoChild
<1>1. Shapes'
  BY SpawnAssumption DEF Shapes, Places, Doings, States, Children
<1>2. Late'
  BY DEF Late, Shapes
<1>3. Owned'
  BY HandleAssumption DEF Owned, Holding, Listed, Shapes, Children, Found, Here
<1>4. Found'
  BY DEF Found, Here, Shapes, Children, States
<1>5. Ended'
  BY DEF Ended, Doing, Shapes
<1> QED
  BY <1>1, <1>2, <1>3, <1>4, <1>5

LEMMA InsertIInv ==
  ASSUME IInv, NEW t \in ThreadSet, Insert(t)
  PROVE  IInv'
<1> USE DEF IInv, Insert, At, Goto
<1>1. Shapes'
  <2>1. child' \in [ThreadSet -> Children]
    BY SpawnAssumption DEF Shapes, States, Children
  <2>2. pipe' \in [ThreadSet -> [open : BOOLEAN, bytes : 0 .. PipeSize]]
    BY SpawnAssumption DEF Shapes
  <2>3. left' \in [ThreadSet -> Nat] /\ \A u \in ThreadSet : left'[u] <= Commands[u]
    BY DEF Shapes
  <2>4. result' \in [ThreadSet -> Int] /\ startedLate' \in [ThreadSet -> Nat]
    BY DEF Shapes
  <2>5. processIds' \subseteq Handles
    BY DEF Owned, Holding, Shapes
  <2> QED
    BY <2>1, <2>2, <2>3, <2>4, <2>5 DEF Shapes, Places
<1>2. Late'
  BY DEF Late, Shapes
<1>3. Owned'
  BY HandleAssumption DEF Owned, Holding, Listed, Shapes, Children, Found, Here
<1>4. Found'
  BY DEF Found, Here, Shapes, Children, States, Owned, Holding, Listed
<1>5. Ended'
  BY DEF Ended, Doing, Shapes
<1> QED
  BY <1>1, <1>2, <1>3, <1>4, <1>5

LEMMA WaitIInv ==
  ASSUME IInv, NEW t \in ThreadSet, Wait(t)
  PROVE  IInv'
<1> USE DEF IInv, Wait, At, Goto, Running
<1>1. Shapes'
  BY SpawnAssumption DEF Shapes, Places, Doings, States, Children
<1>2. Late'
  BY DEF Late, Shapes
<1>3. Owned'
  BY HandleAssumption DEF Owned, Holding, Listed, Shapes, Children, Found, Here
<1>4. Found'
  BY DEF Found, Here, Shapes, Children, States
<1>5. Ended'
  BY DEF Ended, Doing, Shapes
<1> QED
  BY <1>1, <1>2, <1>3, <1>4, <1>5

LEMMA EraseIInv ==
  ASSUME IInv, NEW t \in ThreadSet, Erase(t)
  PROVE  IInv'
<1> USE DEF IInv, Erase, At, Goto, Erased
<1>1. Shapes'
  BY SpawnAssumption DEF Shapes, Places, Doings, States, Children
<1>2. Late'
  BY DEF Late, Shapes
<1>3. Owned'
  BY HandleAssumption DEF Owned, Holding, Listed, Shapes, Children, Found, Here
<1>4. Found'
  BY DEF Found, Here, Shapes, Children, States
<1>5. Ended'
  BY DEF Ended, Doing, Shapes
<1> QED
  BY <1>1, <1>2, <1>3, <1>4, <1>5

LEMMA CollectIInv ==
  ASSUME IInv, NEW t \in ThreadSet, Collect(t)
  PROVE  IInv'
<1> USE DEF IInv, Collect, At, Goto, NoPipe, PeekAll
<1>1. Shapes'
  <2>1. child' \in [ThreadSet -> Children]
    <3>1. child[t] \in Children
      BY DEF Shapes
    <3>2. [child[t] EXCEPT !.handle = NoHandle, !.unread = pipe[t].bytes - pipe[t].bytes] \in Children
      <4>1. pipe[t].bytes - pipe[t].bytes \in Int
        BY SpawnAssumption DEF Shapes
      <4> QED
        BY <3>1, <4>1, ChildSeen
    <3> QED
      BY <3>2 DEF Shapes
  <2>2. pipe' \in [ThreadSet -> [open : BOOLEAN, bytes : 0 .. PipeSize]]
    BY SpawnAssumption DEF Shapes
  <2>3. left' \in [ThreadSet -> Nat] /\ \A u \in ThreadSet : left'[u] <= Commands[u]
    BY DEF Shapes
  <2>4. result' \in [ThreadSet -> Int] /\ startedLate' \in [ThreadSet -> Nat]
    BY DEF Shapes, Children
  <2> QED
    BY <2>1, <2>2, <2>3, <2>4 DEF Shapes, Places
<1>2. Late'
  BY DEF Late, Shapes
<1>3. Owned'
  <2>1. \A u \in ThreadSet :
          /\ Holding(u)' <=> Holding(u) /\ u # t
          /\ Listed(u)' <=> Listed(u)
          /\ u # t => child'[u].handle = child[u].handle
    BY DEF Holding, Listed, Shapes
  <2>2. Holding(t) /\ ~Listed(t)
    BY DEF Holding, Listed
  <2> QED
    BY <2>1, <2>2, OwnedClosed
<1>4. Found'
  BY SpawnAssumption DEF Found, Here, Shapes, Children, States, Owned, Holding, Listed
<1>5. Ended'
  BY DEF Ended, Doing, Shapes
<1> QED
  BY <1>1, <1>2, <1>3, <1>4, <1>5

LEMMA PollIInv ==
  ASSUME IInv, NEW t \in ThreadSet, Poll(t)
  PROVE  IInv'
<1> USE DEF IInv, Poll, At, Goto, ReadFrom, AfterPoll, Least
<1>1. Shapes'
  <2>1. child' \in [ThreadSet -> Children]
    <3>1. child[t] \in Children
      BY DEF Shapes
    <3>2. [child[t] EXCEPT !.unread = pipe[t].bytes - ReadFrom(pipe[t].bytes)] \in Children
      <4>1. pipe[t].bytes - ReadFrom(pipe[t].bytes) \in Int
        BY SpawnAssumption DEF Shapes
      <4> QED
        BY <3>1, <4>1, ChildSeen
    <3> QED
      BY <3>2 DEF Shapes
  <2>2. pipe' \in [ThreadSet -> [open : BOOLEAN, bytes : 0 .. PipeSize]]
    <3>1. pipe[t] \in [open : BOOLEAN, bytes : 0 .. PipeSize]
      BY DEF Shapes
    <3>2. pipe[t].bytes - ReadFrom(pipe[t].bytes) \in 0 .. PipeSize
      BY <3>1, SpawnAssumption
    <3>3. [pipe[t] EXCEPT !.bytes = @ - ReadFrom(pipe[t].bytes)] \in [open : BOOLEAN, bytes : 0 .. PipeSize]
      BY <3>1, <3>2
    <3> QED
      BY <3>3 DEF Shapes
  <2>3. left' \in [ThreadSet -> Nat] /\ \A u \in ThreadSet : left'[u] <= Commands[u]
    BY DEF Shapes
  <2>4. result' \in [ThreadSet -> Int] /\ startedLate' \in [ThreadSet -> Nat]
    BY DEF Shapes
  <2> QED
    BY <2>1, <2>2, <2>3, <2>4 DEF Shapes, Places
<1>2. Late'
  BY DEF Late, Shapes
<1>3. Owned'
  BY OwnedKept DEF Holding, Listed, Shapes, Places
<1>4. Found'
  BY SpawnAssumption DEF Found, Here, Shapes, Children, States
<1>5. Ended'
  BY DEF Ended, Doing, Shapes
<1> QED
  BY <1>1, <1>2, <1>3, <1>4, <1>5

LEMMA ReapIInv ==
  ASSUME IInv, NEW t \in ThreadSet, Reap(t)
  PROVE  IInv'
<1> USE DEF IInv, Reap, At, Goto, EndsLoop, NoPipe
<1>1. Shapes'
  <2>1. child' \in [ThreadSet -> Children]
    <3>1. child[t] \in Children
      BY DEF Shapes
    <3>2. [child[t] EXCEPT !.state = IF child[t].state = "killed" THEN "gone" ELSE child[t].state] \in Children
      BY <3>1 DEF Children, States
    <3> QED
      BY <3>2 DEF Shapes
  <2>2. pipe' \in [ThreadSet -> [open : BOOLEAN, bytes : 0 .. PipeSize]]
    BY SpawnAssumption DEF Shapes
  <2>3. left' \in [ThreadSet -> Nat] /\ \A u \in ThreadSet : left'[u] <= Commands[u]
    BY DEF Shapes
  <2>4. result' \in [ThreadSet -> Int] /\ startedLate' \in [ThreadSet -> Nat]
    BY DEF Shapes, Children
  <2> QED
    BY <2>1, <2>2, <2>3, <2>4 DEF Shapes, Places
<1>2. Late'
  BY DEF Late, Shapes
<1>3. Owned'
  BY OwnedKept DEF Holding, Listed, Shapes, Places
<1>4. Found'
  BY SpawnAssumption DEF Found, Here, Shapes, Children, States
<1>5. Ended'
  BY DEF Ended, Doing, Shapes
<1> QED
  BY <1>1, <1>2, <1>3, <1>4, <1>5

LEMMA ReturnIInv ==
  ASSUME IInv, NEW t \in ThreadSet, Return(t)
  PROVE  IInv'
<1> USE DEF IInv, Return, At, Goto, Stopped, Reaped, NoChild, NoPipe
<1>1. Shapes'
  BY SpawnAssumption DEF Shapes, Places, Doings, States, Children
<1>2. Late'
  BY DEF Late, Shapes
<1>3. Owned'
  BY HandleAssumption DEF Owned, Holding, Listed, Shapes, Children, Found, Here
<1>4. Found'
  BY SpawnAssumption DEF Found, Here, Shapes, Children, States
<1>5. Ended'
  BY DEF Ended, Doing, Shapes
<1> QED
  BY <1>1, <1>2, <1>3, <1>4, <1>5

LEMMA GetResultIInv ==
  ASSUME IInv, GetResult
  PROVE  IInv'
<1> USE DEF IInv, GetResult, Doing, WaiterOnly, At
<1>1. Shapes'
  BY SpawnAssumption DEF Shapes, Places, Doings, States, Children
<1>2. Late'
  BY DEF Late, Shapes
<1>3. Owned'
  BY OwnedKept DEF Holding, Listed, Shapes, Places
<1>4. Found'
  BY SpawnAssumption DEF Found, Here, Shapes, Children, States
<1>5. Ended'
  BY DEF Ended, Doing, Shapes
<1> QED
  BY <1>1, <1>2, <1>3, <1>4, <1>5

LEMMA StopAllIInv ==
  ASSUME IInv, StopAll
  PROVE  IInv'
<1> USE DEF IInv, StopAll, Doing, WaiterOnly
<1>1. Shapes'
  BY SpawnAssumption DEF Shapes, Places, Doings, States, Children
<1>2. Late'
  BY DEF Late, Shapes
<1>3. Owned'
  BY OwnedKept DEF Holding, Listed, Shapes, Places
<1>4. Found'
  BY DEF Found, Here, Shapes, Children, States
<1>5. Ended'
  BY DEF Ended, Doing, Shapes
<1> QED
  BY <1>1, <1>2, <1>3, <1>4, <1>5

LEMMA TerminateAllIInv ==
  ASSUME IInv, TerminateAll
  PROVE  IInv'
<1> DEFINE Dies(t) == child[t].handle \in processIds /\ Running(t)
<1>1. /\ child' = [t \in ThreadSet |->
                    IF Dies(t) THEN [child[t] EXCEPT !.state = "killed", !.code = 0] ELSE child[t]]
      /\ waiter' = [waiter EXCEPT !.doing = "join"]
      /\ UNCHANGED <<build, capture, stopAll, pc, left, result, pipe, processIds, handles,
                     startedLate>>
  BY DEF TerminateAll, WaiterOnly
<1>2. Shapes /\ Late /\ Owned /\ Found
  BY DEF IInv
<1> HIDE DEF Dies
<1>3. ASSUME NEW t \in ThreadSet
      PROVE  /\ child'[t] \in Children
             /\ child'[t].handle = child[t].handle /\ child'[t].unread = child[t].unread
             /\ \/ child'[t].state = child[t].state /\ child'[t].code = child[t].code
                \/ /\ child'[t].state = "killed" /\ child'[t].code = 0
                   /\ build = "windows" /\ pc[t] \in {"insert", "wait"}
  <2>1. child[t] \in Children /\ pc[t] \in Places
    BY <1>2 DEF Shapes
  <2>2. CASE Dies(t)
    <3>1. child[t].handle \in processIds /\ child[t].state = "running"
      BY <2>2 DEF Dies, Running
    <3>2. build = "windows"
      BY <1>2, <3>1 DEF Owned, Holding, Listed, Shapes
    <3>3. pc[t] \in {"insert", "wait"}
      BY <1>2, <2>1, <3>1, <3>2 DEF Found, Here, Places
    <3>4. child'[t] = [child[t] EXCEPT !.state = "killed", !.code = 0]
      BY <1>1, <2>2
    <3> QED
      BY <2>1, <3>2, <3>3, <3>4, ChildDies DEF Children
  <2>3. CASE ~Dies(t)
    BY <1>1, <2>1, <2>3
  <2> QED
    BY <2>2, <2>3
<1>4. Shapes'
  <2>1. child' \in [ThreadSet -> Children]
    BY <1>1, <1>3
  <2>2. waiter' \in [doing : Doings, at : {waiter'.at}, rv : {waiter'.rv}]
    BY <1>1, <1>2 DEF Shapes, Doings
  <2> QED
    BY <1>1, <1>2, <2>1, <2>2 DEF Shapes
<1>5. Late'
  BY <1>1, <1>2 DEF Late
<1>6. Owned'
  BY <1>1, <1>2, <1>3, OwnedKept DEF Holding, Listed
<1>7. Found'
  <2>1. ASSUME NEW t \in ThreadSet
        PROVE  Here(t)'
    <3>1. Here(t) /\ UNCHANGED <<pc, build>>
      BY <1>1, <1>2 DEF Found
    <3>2. CASE child'[t].state = child[t].state
      BY <3>1, <3>2 DEF Here
    <3>3. CASE child'[t].state = "killed" /\ pc[t] \in {"insert", "wait"}
      BY <3>1, <3>3 DEF Here
    <3> QED
      BY <1>3, <3>2, <3>3
  <2>2. ASSUME NEW t \in ThreadSet
        PROVE  /\ child'[t].state \in {"killed", "gone"} => child'[t].code = 0
               /\ child'[t].state = "stopped" /\ pc[t] \in {"poll", "reap"} => child'[t].code = StopSignal
               /\ pc[t] \in {"reap", "returned"} => child'[t].unread = 0
    BY <1>2, <1>3 DEF Found
  <2>3. ASSUME NEW t \in ThreadSet, pc[t] = "returned"
        PROVE  result[t] = CASE child'[t].state = "none" -> -1
                             [] child'[t].state = "stopped" -> StopSignal
                             [] OTHER -> child'[t].code
    <3>1. child'[t].state = child[t].state /\ child'[t].code = child[t].code
      BY <1>3, <2>3
    <3> QED
      BY <1>2, <2>3, <3>1 DEF Found
  <2> QED
    BY <1>1, <1>2, <2>1, <2>2, <2>3 DEF Found
<1>8. Ended'
  <2>1. waiter'.doing = "join"
    BY <1>1, <1>2 DEF Shapes
  <2> QED
    BY <2>1 DEF Ended, Doing
<1> QED
  BY <1>4, <1>5, <1>6, <1>7, <1>8 DEF IInv

LEMMA JoinIInv ==
  ASSUME IInv, Join
  PROVE  IInv'
<1> USE DEF IInv, Join, Doing, WaiterOnly, At
<1>1. Shapes'
  BY SpawnAssumption DEF Shapes, Places, Doings, States, Children
<1>2. Late'
  BY DEF Late, Shapes
<1>3. Owned'
  BY OwnedKept DEF Holding, Listed, Shapes, Places
<1>4. Found'
  BY DEF Found, Here, Shapes, Children, States
<1>5. Ended'
  BY DEF Ended, Doing, Shapes
<1> QED
  BY <1>1, <1>2, <1>3, <1>4, <1>5

LEMMA StepIInv ==
  ASSUME IInv, NEW t \in ThreadSet,
         ChildWrites(t) \/ ChildExits(t) \/ ChildKilled(t) \/ ChildStopped(t) \/ ThreadStep(t)
  PROVE  IInv'
<1>1. CASE ChildWrites(t)
  BY <1>1, ChildWritesIInv
<1>2. CASE ChildExits(t)
  BY <1>2, ChildExitsIInv
<1>3. CASE ChildKilled(t)
  BY <1>3, ChildKilledIInv
<1>4. CASE ChildStopped(t)
  BY <1>4, ChildStoppedIInv
<1>5. CASE NextCommand(t)
  BY <1>5, NextCommandIInv
<1>6. CASE Create(t)
  BY <1>6, CreateIInv
<1>7. CASE CreateFails(t)
  BY <1>7, CreateFailsIInv
<1>8. CASE Insert(t)
  BY <1>8, InsertIInv
<1>9. CASE Wait(t)
  BY <1>9, WaitIInv
<1>10. CASE Erase(t)
  BY <1>10, EraseIInv
<1>11. CASE Collect(t)
  BY <1>11, CollectIInv
<1>12. CASE Poll(t)
  BY <1>12, PollIInv
<1>13. CASE Reap(t)
  BY <1>13, ReapIInv
<1>14. CASE Return(t)
  BY <1>14, ReturnIInv
<1>15. CASE ActionsFail(t)
  BY <1>15, ActionsFailIInv
<1> QED
  BY <1>1, <1>2, <1>3, <1>4, <1>5, <1>6, <1>7, <1>8, <1>9, <1>10, <1>11, <1>12, <1>13, <1>14, <1>15
     DEF ThreadStep

LEMMA NextIInv == IInv /\ [Next]_vars => IInv'
<1> SUFFICES ASSUME IInv, [Next]_vars PROVE IInv'
  OBVIOUS
<1>1. ASSUME NEW t \in ThreadSet,
             ChildWrites(t) \/ ChildExits(t) \/ ChildKilled(t) \/ ChildStopped(t) \/ ThreadStep(t)
      PROVE  IInv'
  BY <1>1, StepIInv
<1>2. CASE WaiterStep
  BY <1>2, GetResultIInv, StopAllIInv, TerminateAllIInv, JoinIInv DEF WaiterStep
<1>3. CASE UNCHANGED vars
  BY <1>3 DEF vars, IInv, Shapes, Late, Owned, Holding, Listed, Found, Here, Ended, Doing
<1> QED
  BY <1>1, <1>2, <1>3 DEF Next

LEMMA AlwaysIInv == Spec => []IInv
BY InitIInv, NextIInv, PTL DEF Spec

-----------------------------------------------------------------------------
(* Every pipe is accounted for: those that were open when OS::Spawn         *)
(* returned, and the one it is about to leave open, are those of the        *)
(* commands whose file actions failed.                                      *)
Abandoned(t) == IF pc[t] = "returned" /\ pipe[t].open THEN 1 ELSE 0
Accounted ==
  /\ leftOpen \in [ThreadSet -> Nat] /\ refused \in [ThreadSet -> Nat]
  /\ \A t \in ThreadSet :
       /\ leftOpen[t] + Abandoned(t) = refused[t]
       /\ build = "windows" => refused[t] = 0

LEMMA InitAccounted == Init => Accounted
<1> SUFFICES ASSUME Init PROVE Accounted
  OBVIOUS
<1>1. leftOpen \in [ThreadSet -> Nat] /\ refused \in [ThreadSet -> Nat]
  BY Zenon, 0 \in Nat DEF Init
<1>2. \A t \in ThreadSet : leftOpen[t] = 0 /\ refused[t] = 0 /\ Abandoned(t) = 0
  BY DEF Init, NoPipe, Abandoned
<1> QED
  BY <1>1, <1>2 DEF Accounted

(* A step that counts nothing and abandons no pipe.                         *)
LEMMA SameAccount ==
  ASSUME Accounted, UNCHANGED <<build, leftOpen, refused>>,
         \A t \in ThreadSet : Abandoned(t)' = Abandoned(t)
  PROVE  Accounted'
BY DEF Accounted

(* A step of one thread alone, which comes to OS::Spawn's return with its    *)
(* pipe closed, or not at all, and has not been there before.               *)
LEMMA OwnAccount ==
  ASSUME IInv, Accounted, UNCHANGED <<build, leftOpen, refused>>, NEW t \in ThreadSet,
         \A u \in ThreadSet \ {t} : pc'[u] = pc[u] /\ pipe'[u] = pipe[u],
         pc[t] # "returned", pc'[t] = "returned" => ~pipe'[t].open
  PROVE  Accounted'
<1>1. \A u \in ThreadSet : Abandoned(u)' = Abandoned(u)
  BY DEF Abandoned
<1> QED
  BY <1>1, SameAccount

LEMMA ActionsFailAccounted ==
  ASSUME IInv, Accounted, NEW t \in ThreadSet, ActionsFail(t)
  PROVE  Accounted'
<1> USE DEF ActionsFail, At, Goto
<1>1. leftOpen' = leftOpen /\ refused' = [refused EXCEPT ![t] = @ + 1] /\ build' = build
      /\ build = "posix"
  OBVIOUS
<1>2. Abandoned(t) = 0 /\ Abandoned(t)' = 1
  BY DEF Abandoned, IInv, Shapes
<1>3. \A u \in ThreadSet \ {t} : Abandoned(u)' = Abandoned(u)
  BY DEF Abandoned, IInv, Shapes
<1>4. refused' \in [ThreadSet -> Nat]
  BY <1>1 DEF Accounted
<1> HIDE DEF ActionsFail
<1>5. ASSUME NEW u \in ThreadSet
      PROVE  leftOpen'[u] + Abandoned(u)' = refused'[u]
  <2>1. leftOpen[u] \in Nat /\ refused[u] \in Nat /\ leftOpen[u] + Abandoned(u) = refused[u]
    BY DEF Accounted
  <2> QED
    BY <1>1, <1>2, <1>3, <2>1 DEF Accounted
<1> QED
  BY <1>1, <1>4, <1>5 DEF Accounted

LEMMA ReturnAccounted ==
  ASSUME IInv, Accounted, NEW t \in ThreadSet, Return(t)
  PROVE  Accounted'
<1> USE DEF Return, At, Goto
<1>1. /\ leftOpen' = [leftOpen EXCEPT ![t] = IF pipe[t].open THEN @ + 1 ELSE @]
      /\ refused' = refused /\ build' = build
  OBVIOUS
<1>2. Abandoned(t) = (IF pipe[t].open THEN 1 ELSE 0) /\ Abandoned(t)' = 0
  BY DEF Abandoned, IInv, Shapes, NoPipe
<1>3. \A u \in ThreadSet \ {t} : Abandoned(u)' = Abandoned(u)
  BY DEF Abandoned, IInv, Shapes
<1>4. leftOpen' \in [ThreadSet -> Nat]
  BY <1>1 DEF Accounted
<1> HIDE DEF Return
<1>5. ASSUME NEW u \in ThreadSet
      PROVE  leftOpen'[u] + Abandoned(u)' = refused[u]
  <2>1. leftOpen[u] \in Nat /\ refused[u] \in Nat /\ leftOpen[u] + Abandoned(u) = refused[u]
    BY DEF Accounted
  <2>2. CASE u = t
    BY <1>1, <1>2, <2>1, <2>2 DEF Accounted
  <2>3. CASE u # t
    BY <1>1, <1>3, <2>1, <2>3 DEF Accounted
  <2> QED
    BY <2>2, <2>3
<1> QED
  BY <1>1, <1>4, <1>5 DEF Accounted

LEMMA NextAccounted == IInv /\ Accounted /\ [Next]_vars => Accounted'
<1> SUFFICES ASSUME IInv, Accounted, [Next]_vars PROVE Accounted'
  OBVIOUS
<1>1. /\ pc \in [ThreadSet -> Places]
      /\ pipe \in [ThreadSet -> [open : BOOLEAN, bytes : 0 .. PipeSize]]
  BY DEF IInv, Shapes
<1>2. ASSUME NEW t \in ThreadSet,
             ChildWrites(t) \/ ChildExits(t) \/ ChildKilled(t) \/ ChildStopped(t) \/ ThreadStep(t)
      PROVE  Accounted'
  <2>1. CASE ChildWrites(t)
    <3>1. \A u \in ThreadSet : pipe'[u].open = pipe[u].open
      BY <1>1, <2>1 DEF ChildWrites
    <3> QED
      BY <2>1, <3>1, SameAccount DEF ChildWrites, Abandoned
  <2>2. CASE ChildExits(t) \/ ChildKilled(t) \/ ChildStopped(t)
    BY <2>2, SameAccount DEF ChildExits, ChildKilled, ChildStopped, Ends, Abandoned
  <2>3. CASE NextCommand(t) \/ Create(t) \/ CreateFails(t)
    <3>1. CASE NextCommand(t)
      BY <1>1, <3>1, OwnAccount DEF NextCommand, At, Goto
    <3>2. CASE Create(t)
      <4>1. /\ pc[t] # "returned" /\ pc'[t] # "returned"
            /\ UNCHANGED <<build, leftOpen, refused>>
        BY <1>1, <3>2 DEF Create, At, Goto
      <4>2. \A u \in ThreadSet \ {t} : pc'[u] = pc[u] /\ pipe'[u] = pipe[u]
        BY <1>1, <3>2 DEF Create, Goto
      <4> QED
        BY <4>1, <4>2, OwnAccount
    <3>3. CASE CreateFails(t)
      BY <1>1, <3>3, OwnAccount DEF CreateFails, At, Goto, PipeAfterFailure, NoPipe
    <3> QED
      BY <2>3, <3>1, <3>2, <3>3
  <2>4. CASE Insert(t) \/ Wait(t) \/ Erase(t) \/ Collect(t)
    BY <1>1, <2>4, OwnAccount DEF Insert, Wait, Erase, Collect, At, Goto, NoPipe
  <2>5. CASE Poll(t) \/ Reap(t)
    BY <1>1, <2>5, OwnAccount DEF Poll, AfterPoll, Reap, At, Goto, NoPipe
  <2> QED
    BY <1>2, <2>1, <2>2, <2>3, <2>4, <2>5, ActionsFailAccounted, ReturnAccounted DEF ThreadStep
<1>3. CASE WaiterStep
  BY <1>3, SameAccount
     DEF WaiterStep, GetResult, StopAll, TerminateAll, Join, WaiterOnly, Abandoned
<1>4. CASE UNCHANGED vars
  BY <1>4, SameAccount DEF vars, Abandoned
<1> QED
  BY <1>2, <1>3, <1>4 DEF Next

LEMMA AlwaysAccounted == Spec => [](IInv /\ Accounted)
BY InitIInv, NextIInv, InitAccounted, NextAccounted, PTL DEF Spec

-----------------------------------------------------------------------------
(* Every variable keeps its type.                                           *)
THEOREM Typed == Spec => []TypeOK
<1>1. IInv /\ Accounted => TypeOK
  BY DEF IInv, Accounted, Shapes, TypeOK, Places, Children, States
<1> QED
  BY <1>1, AlwaysAccounted, PTL

(* What OS::Spawn returns is the exit code of the command it started, after *)
(* that has ended; -1 if none was started; 0 for a killed one.              *)
THEOREM Reported == Spec => []StatusReported
<1>1. IInv => StatusReported
  BY DEF IInv, Found, Here, StatusReported, At
<1> QED
  BY <1>1, AlwaysIInv, PTL

(* OS::Spawn shows whatever its last look at the pipe found.                *)
THEOREM Shown == Spec => []OutputShown
<1>1. IInv => OutputShown
  BY DEF IInv, Found, OutputShown, At
<1> QED
  BY <1>1, AlwaysIInv, PTL

(* The set that TerminateAll walks through has the handles of the processes *)
(* that are waited for, all of them open, and no others.                    *)
THEOREM Listing == Spec => []OnlyWaitedFor
<1>1. IInv => OnlyWaitedFor
  <2> SUFFICES ASSUME IInv PROVE OnlyWaitedFor
    OBVIOUS
  <2>1. \A t \in ThreadSet : Listed(t) => Holding(t) /\ build = "windows"
    BY DEF IInv, Owned, Listed, Holding
  <2>2. \A h \in Handles : h \in processIds <=> \E t \in ThreadSet : Listed(t) /\ child[t].handle = h
    BY DEF IInv, Owned
  <2>3. \A t \in ThreadSet : Listed(t) => child[t].handle \in Handles
    BY <2>1 DEF IInv, Owned
  <2>4. processIds \subseteq Handles
    BY DEF IInv, Shapes
  <2>5. processIds = {child[t].handle : t \in {u \in ThreadSet : Listed(u)}}
    BY <2>2, <2>3, <2>4
  <2>6. build = "posix" => {u \in ThreadSet : Listed(u)} = {}
    BY <2>1
  <2>7. processIds = {child[t].handle : t \in {u \in ThreadSet : Listed(u)}}
                       \ (IF build = "posix" THEN {NoHandle} ELSE {})
    BY <2>5, <2>6
  <2>8. processIds \subseteq handles
    BY <2>1, <2>2, <2>4 DEF IInv, Owned
  <2> QED
    BY <2>7, <2>8 DEF OnlyWaitedFor, Listed
<1> QED
  BY <1>1, AlwaysIInv, PTL

(* A thread that sees the stop too late starts one command and no more.     *)
THEOREM OneMore == Spec => []OneMoreAtMost
<1>1. IInv => OneMoreAtMost
  BY DEF IInv, Late, OneMoreAtMost
<1> QED
  BY <1>1, AlwaysIInv, PTL

(* Joined threads leave no handle and no process but a stopped one, and of  *)
(* the pipes those alone that the early returns of OS::Spawn abandon, where *)
(* the file actions fail on POSIX.                                          *)
THEOREM Leakless == Spec => []NothingLeaked
<1>1. IInv /\ Accounted => NothingLeaked
  <2> SUFFICES ASSUME IInv, Accounted, Doing("done") PROVE NothingLeaked
    BY DEF NothingLeaked
  <2>1. \A t \in ThreadSet : pc[t] = "finished"
    BY DEF IInv, Ended
  <2>2. \A t \in ThreadSet : ~Holding(t) /\ ~Listed(t)
    BY <2>1 DEF Holding, Listed
  <2>3. processIds = {} /\ handles = {}
    BY <2>2 DEF IInv, Owned, Shapes
  <2>4. \A t \in ThreadSet : ~pipe[t].open /\ child[t].state \in {"none", "stopped"}
    BY <2>1 DEF IInv, Found, Here
  <2>5. \A t \in ThreadSet :
          leftOpen[t] = refused[t] /\ (build = "windows" => leftOpen[t] = 0)
    BY <2>1 DEF Accounted, Abandoned
  <2> QED
    BY <2>3, <2>4, <2>5 DEF NothingLeaked
<1> QED
  BY <1>1, AlwaysAccounted, PTL

-----------------------------------------------------------------------------
(* What can block.  The guards of the steps, which TLC finds to be what     *)
(* ENABLED says of ThreadStep, ChildWrites \/ ChildExits and WaiterStep.    *)

(* The command of a thread has room for what it writes, or nothing left to  *)
(* write.                                                                   *)
CommandFree(t) ==
  Running(t) /\ (child[t].todo > 0 /\ Piped => pipe[t].bytes < PipeSize)

(* A thread waits at one place only, for its command.                       *)
ThreadFree(t) == pc[t] # "finished" /\ (At(t, "wait") => ~Running(t))

CanGoOn(t) == ThreadFree(t) \/ CommandFree(t)

WaiterFree ==
  \/ Doing("waiting") /\ At(Threads[waiter.at], "finished")
  \/ Doing("stop") \/ Doing("terminate")
  \/ Doing("join") /\ \A t \in ThreadSet : At(t, "finished")

(* The command has filled its pipe, which nobody reads before it has ended. *)
OnFullPipe(t) ==
  /\ build = "windows" /\ capture
  /\ At(t, "wait") /\ Running(t)
  /\ child[t].todo > 0 /\ pipe[t].bytes = PipeSize

(* Whatever RunOne waits for can go on, but for commands on a full pipe.    *)
OnlyFullPipeBlocks ==
  /\ \A t \in ThreadSet : At(t, "finished") \/ CanGoOn(t) \/ OnFullPipe(t)
  /\ Doing("done") \/ WaiterFree \/ \E t \in ThreadSet : ~At(t, "finished")

(* It takes that a command never writes more than it has to, and that       *)
(* RunOne waits for the threads it has.                                     *)
Within ==
  /\ \A t \in ThreadSet : child[t].todo \in Nat
  /\ waiter.at \in DOMAIN Threads
HInv == IInv /\ Within

LEMMA InitWithin == Init => Within
BY ThreadsAssumption DEF Init, Within, NoChild

(* What a step does to a command and its pipe: it writes, it is a new one   *)
(* or none, or what it has to write stays as it is and the pipe gets no     *)
(* fuller.                                                                  *)
Wrote(t) ==
  /\ child[t].todo > 0 /\ child'[t].todo = child[t].todo - 1
  /\ pipe'[t].bytes = pipe[t].bytes + (IF Piped THEN 1 ELSE 0)
Begun(t)   == ~Inside(t) /\ child'[t].todo \in Nat
Drains(t) == child'[t].todo = child[t].todo /\ pipe'[t].bytes <= pipe[t].bytes

LEMMA CommandStep ==
  ASSUME IInv, [Next]_vars, NEW t \in ThreadSet
  PROVE  /\ build' = build /\ capture' = capture
         /\ Wrote(t) \/ Begun(t) \/ Drains(t)
<1>0. /\ child \in [ThreadSet -> Children] /\ child[t] \in Children
      /\ pipe \in [ThreadSet -> [open : BOOLEAN, bytes : 0 .. PipeSize]]
      /\ pipe[t].bytes \in Nat /\ child[t].todo \in Int
  BY SpawnAssumption DEF IInv, Shapes, Children
<1>1. ASSUME NEW u \in ThreadSet,
             ChildWrites(u) \/ ChildExits(u) \/ ChildKilled(u) \/ ChildStopped(u) \/ ThreadStep(u)
      PROVE  /\ build' = build /\ capture' = capture
             /\ Wrote(t) \/ Begun(t) \/ Drains(t)
  <2>1. CASE ChildWrites(u)
    BY <1>0, <2>1 DEF ChildWrites, Wrote, Drains, Children
  <2>2. CASE ChildExits(u) \/ ChildKilled(u) \/ ChildStopped(u)
    <3>1. PICK state, code :
            /\ child' = [child EXCEPT ![u] = [child[u] EXCEPT !.state = state, !.code = code]]
            /\ UNCHANGED <<build, capture, pipe>>
      <4>1. PICK state, code : Ends(u, state, code)
        BY <2>2 DEF ChildExits, ChildKilled, ChildStopped
      <4>2. /\ child' = [child EXCEPT ![u] = [child[u] EXCEPT !.state = state, !.code = code]]
            /\ UNCHANGED <<build, capture, pipe>>
        BY <4>1 DEF Ends
      <4> QED
        BY <4>2
    <3>2. child'[t].todo = child[t].todo
      BY <1>0, <3>1 DEF Children
    <3> QED
      BY <1>0, <3>1, <3>2 DEF Drains
  <2>3. CASE Create(u) \/ CreateFails(u) \/ ActionsFail(u) \/ Return(u)
    <3>1. /\ ~Inside(u) /\ UNCHANGED <<build, capture>>
          /\ child'[u].todo \in Nat /\ (u # t => child'[t] = child[t])
      <4>1. CASE Create(u)
        <5>1. PICK todo \in Outputs, h \in Handles \cup {NoHandle} :
                child' = [child EXCEPT ![u] = [NoChild EXCEPT !.state = "running", !.handle = h,
                                                              !.todo = todo]]
          BY <4>1 DEF Create
        <5>2. child'[u].todo = todo
          BY <1>0, <5>1 DEF NoChild
        <5> QED
          BY <1>0, <4>1, <5>1, <5>2, SpawnAssumption DEF Create, At, Inside
      <4>2. CASE CreateFails(u) \/ ActionsFail(u)
        BY <1>0, <4>2 DEF CreateFails, ActionsFail, At, Inside, NoChild
      <4>3. CASE Return(u)
        <5>1. child'[u] = IF Reaped(u) THEN NoChild
                          ELSE [NoChild EXCEPT !.state = child[u].state]
          BY <1>0, <4>3 DEF Return
        <5>2. child'[u].todo = 0
          BY <5>1 DEF NoChild
        <5> QED
          BY <1>0, <4>3, <5>2 DEF Return, At, Inside
      <4> QED
        BY <2>3, <4>1, <4>2, <4>3
    <3>2. u # t => pipe'[t] = pipe[t]
      BY <1>0, <2>3 DEF Create, CreateFails, ActionsFail, Return
    <3> QED
      BY <1>0, <3>1, <3>2 DEF Begun, Drains
  <2>4. CASE Collect(u) \/ Poll(u) \/ Reap(u)
    BY <1>0, <2>4, SpawnAssumption
       DEF Collect, Poll, Reap, ReadFrom, Least, NoPipe, Drains, Children
  <2>5. CASE NextCommand(u) \/ Insert(u) \/ Wait(u) \/ Erase(u)
    BY <1>0, <2>5 DEF NextCommand, Insert, Wait, Erase, Drains
  <2> QED
    BY <1>1, <2>1, <2>2, <2>3, <2>4, <2>5 DEF ThreadStep
<1>2. CASE WaiterStep
  <2>1. CASE GetResult \/ StopAll \/ Join
    BY <1>0, <2>1 DEF GetResult, StopAll, Join, WaiterOnly, Drains
  <2>2. CASE TerminateAll
    <3>1. /\ child'[t] \in {child[t], [child[t] EXCEPT !.state = "killed", !.code = 0]}
          /\ UNCHANGED <<build, capture, pipe>>
      BY <2>2 DEF TerminateAll, WaiterOnly
    <3>2. child'[t].todo = child[t].todo
      BY <1>0, <3>1 DEF Children
    <3> QED
      BY <1>0, <3>1, <3>2 DEF Drains
  <2> QED
    BY <1>2, <2>1, <2>2 DEF WaiterStep
<1>3. CASE UNCHANGED vars
  BY <1>0, <1>3 DEF vars, Drains
<1> QED
  BY <1>1, <1>2, <1>3 DEF Next

LEMMA NextWithin == HInv /\ [Next]_vars => Within'
<1> SUFFICES ASSUME HInv, [Next]_vars PROVE Within'
  OBVIOUS
<1>1. \A t \in ThreadSet : child'[t].todo \in Nat
  BY CommandStep DEF HInv, Within, Wrote, Begun, Drains
<1>2. waiter'.at \in DOMAIN Threads
  <2>1. waiter.at \in 1 .. Len(Threads) /\ DOMAIN Threads = 1 .. Len(Threads)
        /\ Len(Threads) \in Nat
    BY ThreadsAssumption DEF HInv, Within
  <2>2. CASE GetResult
    BY <2>1, <2>2 DEF GetResult
  <2>3. CASE ~GetResult
    <3>1. waiter \in [doing : Doings, at : {waiter.at}, rv : {waiter.rv}]
      BY DEF HInv, IInv, Shapes
    <3>2. waiter'.at = waiter.at
      BY <2>3, <3>1
         DEF Next, WaiterStep, ThreadStep, vars, ChildWrites, ChildExits, ChildKilled,
             ChildStopped, Ends, NextCommand, Create, CreateFails, ActionsFail, Insert, Wait, Erase,
             Collect,             Poll, Reap, Return, StopAll, TerminateAll, Join
    <3> QED
      BY <2>1, <3>2
  <2> QED
    BY <2>2, <2>3
<1> QED
  BY <1>1, <1>2 DEF Within

LEMMA AlwaysHInv == Spec => []HInv
BY InitIInv, NextIInv, InitWithin, NextWithin, PTL DEF Spec, HInv

(* The one thing that RunOne can wait for in vain is a command on Windows   *)
(* whose output is captured and does not fit into the pipe: the pipe is     *)
(* read after the wait.  Every other thread, or its command, can go on,     *)
(* also after a failure has stopped the make.                               *)
THEOREM Blocks == Spec => []OnlyFullPipeBlocks
<1>1. HInv => OnlyFullPipeBlocks
  <2> SUFFICES ASSUME HInv PROVE OnlyFullPipeBlocks
    OBVIOUS
  <2>1. ASSUME NEW t \in ThreadSet
        PROVE  At(t, "finished") \/ CanGoOn(t) \/ OnFullPipe(t)
    <3>1. pipe[t].bytes \in 0 .. PipeSize /\ build \in {"windows", "posix"}
      BY DEF HInv, IInv, Shapes
    <3>2. At(t, "wait") => build = "windows"
      BY DEF HInv, IInv, Owned, Holding, At
    <3> QED
      BY <3>1, <3>2, SpawnAssumption
         DEF CanGoOn, ThreadFree, CommandFree, OnFullPipe, At, Piped
  <2>2. Doing("done") \/ WaiterFree \/ \E t \in ThreadSet : ~At(t, "finished")
    <3>1. Threads[waiter.at] \in ThreadSet
      BY DEF HInv, Within, ThreadSet
    <3>2. waiter.doing \in Doings
      BY DEF HInv, IInv, Shapes
    <3> QED
      BY <3>1, <3>2 DEF WaiterFree, Doing, Doings
  <2> QED
    BY <2>1, <2>2 DEF OnlyFullPipeBlocks
<1> QED
  BY <1>1, AlwaysHInv, PTL

(* The part of SpawnReturns that is a matter of safety: a call whose        *)
(* command's output fits into the pipe, or is read on the way, or is not    *)
(* captured, never blocks, and no step of anyone makes it one that may.     *)
DrainedGoesOn == \A t \in ThreadSet : Inside(t) /\ Drained(t) => CanGoOn(t)
StaysDrained  == [][\A t \in ThreadSet : Inside(t) /\ Drained(t) => Drained(t)']_vars

THEOREM Drain == Spec => []DrainedGoesOn /\ StaysDrained
<1>1. HInv => DrainedGoesOn
  <2> SUFFICES ASSUME HInv, NEW t \in ThreadSet, Inside(t), Drained(t) PROVE CanGoOn(t)
    BY DEF DrainedGoesOn
  <2>1. pipe[t].bytes \in 0 .. PipeSize /\ child[t].todo \in Nat /\ PipeSize \in Nat
    BY SpawnAssumption DEF HInv, IInv, Shapes, Within
  <2>2. At(t, "wait") => build = "windows"
    BY DEF HInv, IInv, Owned, Holding, At
  <2> QED
    BY <2>1, <2>2 DEF CanGoOn, ThreadFree, CommandFree, Drained, Inside, At, Piped
<1>2. HInv /\ [Next]_vars
        => [\A t \in ThreadSet : Inside(t) /\ Drained(t) => Drained(t)']_vars
  <2> SUFFICES ASSUME HInv, [Next]_vars, NEW t \in ThreadSet, Inside(t), Drained(t)
               PROVE  Drained(t)'
    OBVIOUS
  <2>1. build' = build /\ capture' = capture /\ (Wrote(t) \/ Drains(t))
    BY CommandStep DEF HInv, Begun
  <2>2. pipe[t].bytes \in 0 .. PipeSize /\ child[t].todo \in Nat /\ PipeSize \in Nat
    BY SpawnAssumption DEF HInv, IInv, Shapes, Within
  <2>3. IInv'
    BY NextIInv DEF HInv
  <2>4. pipe'[t].bytes \in 0 .. PipeSize /\ child'[t].todo \in Nat
    BY <2>1, <2>2, <2>3 DEF IInv, Shapes, Wrote, Drains
  <2> QED
    BY <2>1, <2>2, <2>4 DEF Drained, Wrote, Drains, Piped
<1> QED
  BY <1>1, <1>2, AlwaysHInv, PTL DEF Spec, StaysDrained
=============================================================================
