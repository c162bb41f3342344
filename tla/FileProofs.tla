---------------------------- MODULE FileProofs ------------------------------
(***************************************************************************)
(* Proofs about files: those the file system layer has open, for any       *)
(* number of tasks, handles, file systems and files; and the one the boot  *)
(* loader reads without it, for any disk and kernel.                       *)
(***************************************************************************)
EXTENDS FileSys, Boot, FiniteSetTheorems, TLAPS

Types ==
    /\ named \subseteq Systems /\ useCnt \in [Systems -> Int]
    /\ openCnt \in [Handles -> {0, 1}] /\ fsIdx \in [Handles -> Systems]
    /\ fInfo \in [Handles -> Files \cup {NULL}]
    /\ opened \in [Files -> Systems \cup {NULL}]
    /\ call \in [Tasks -> [at : Points, id : Systems \cup {NULL},
                           fd : Handles \cup {NULL}, fi : Files \cup {NULL}]]

\* What each point of a call knows of its variables, and who closes a handle
Calls ==
    \A p \in Tasks :
        /\ call[p].at \in {"out", "close", "handle"} => call[p].id = NULL
        /\ call[p].at \notin {"out", "close", "handle"} => call[p].id \in Systems
        /\ call[p].at \in {"close", "handle", "io"} => call[p].fd \in Handles
        /\ call[p].at # "counted"
        /\ call[p].at = "close" =>
             /\ openCnt[call[p].fd] = 1
             /\ \A q \in Tasks : call[q].at = "close" /\ call[q].fd = call[p].fd => q = p

\* A system without a name has no use
Unused == \A i \in Systems \ named : useCnt[i] = 0

IInv == Types /\ Calls /\ Unused /\ UseCounts

-----------------------------------------------------------------------------
(* Counting *)

One(b) == IF b THEN 1 ELSE 0

\* If two sets agree on all but x, so do their sizes.
LEMMA OneChanges ==
    ASSUME NEW S, IsFiniteSet(S), NEW T, NEW x, T \ {x} = S \ {x}
    PROVE  /\ IsFiniteSet(T) /\ Cardinality(S) \in Nat /\ Cardinality(T) \in Nat
           /\ Cardinality(T) = Cardinality(S) + One(x \in T) - One(x \in S)
  <1> DEFINE R == S \ {x}
  <1>1. IsFiniteSet(R) /\ x \notin R /\ Cardinality(R) \in Nat
    BY FS_RemoveElement, FS_CardinalityType
  <1>2. Cardinality(S) \in Nat /\ Cardinality(S) = Cardinality(R) + One(x \in S)
    <2>1. Cardinality(S) \in Nat
      BY FS_CardinalityType
    <2>2. Cardinality(R) = IF x \in S THEN Cardinality(S) - 1 ELSE Cardinality(S)
      BY FS_RemoveElement
    <2> HIDE DEF R
    <2> QED
      BY <1>1, <2>1, <2>2 DEF One
  <1>3. T = IF x \in T THEN R \cup {x} ELSE R
    OBVIOUS
  <1>4. IsFiniteSet(T) /\ Cardinality(T) = Cardinality(R) + One(x \in T)
    <2>1. CASE x \in T
      <3>1. T = R \cup {x}
        BY <1>3, <2>1
      <3>2. IsFiniteSet(R \cup {x}) /\ Cardinality(R \cup {x}) = Cardinality(R) + 1
        BY <1>1, FS_AddElement
      <3> QED
        BY <2>1, <3>1, <3>2 DEF One
    <2>2. CASE x \notin T
      <3>1. T = R
        BY <1>3, <2>2
      <3> HIDE DEF R
      <3> QED
        BY <1>1, <2>2, <3>1 DEF One
    <2> QED
      BY <2>1, <2>2
  <1> HIDE DEF R
  <1> QED
    BY <1>1, <1>2, <1>4 DEF One

\* The sets counted are finite.
LEMMA FiniteUses == \A i : IsFiniteSet(OpenHandles(i)) /\ IsFiniteSet(InCall(i))
  <1> TAKE i
  <1>1. IsFiniteSet(Handles)
    BY FS_Interval, FileSysAssumption DEF Handles
  <1>2. OpenHandles(i) \in SUBSET Handles /\ InCall(i) \in SUBSET Tasks
    BY DEF OpenHandles, InCall
  <1> QED
    BY <1>1, <1>2, FS_Subset, FileSysAssumption

\* What a step of task p and a change of handle h do to the two numbers.
LEMMA UsesChange ==
    ASSUME NEW i, NEW p, NEW h,
           \A q \in Tasks \ {p} : call'[q] = call[q],
           \A k \in Handles \ {h} : openCnt'[k] = openCnt[k] /\ fsIdx'[k] = fsIdx[k]
    PROVE  /\ Cardinality(OpenHandles(i)) \in Nat /\ Cardinality(InCall(i)) \in Nat
           /\ Cardinality(OpenHandles(i)') = Cardinality(OpenHandles(i))
                + One(h \in OpenHandles(i)') - One(h \in OpenHandles(i))
           /\ Cardinality(InCall(i)') = Cardinality(InCall(i))
                + One(p \in InCall(i)') - One(p \in InCall(i))
  <1>1. OpenHandles(i)' \ {h} = OpenHandles(i) \ {h}
    BY DEF OpenHandles
  <1>2. InCall(i)' \ {p} = InCall(i) \ {p}
    BY DEF InCall
  <1> QED
    BY <1>1, <1>2, FiniteUses, OneChanges

\* A task in the count of i makes the count positive; so does an open handle.
LEMMA Positive ==
    ASSUME Types, UseCounts, NEW i \in Systems
    PROVE  /\ \A p \in InCall(i) : useCnt[i] > 0
           /\ \A h \in OpenHandles(i) : useCnt[i] > 0
           /\ useCnt[i] \in Nat
  <1>1. /\ Cardinality(OpenHandles(i)) \in Nat /\ Cardinality(InCall(i)) \in Nat
        /\ useCnt[i] = Cardinality(OpenHandles(i)) + Cardinality(InCall(i))
    BY FiniteUses, FS_CardinalityType DEF UseCounts
  <1>2. /\ OpenHandles(i) # {} => Cardinality(OpenHandles(i)) # 0
        /\ InCall(i) # {} => Cardinality(InCall(i)) # 0
    BY FiniteUses, FS_EmptySet
  <1> QED
    BY <1>1, <1>2

\* The counts stay right if useCnt follows the step of p and the change of h.
LEMMA CountStep ==
    ASSUME IInv, NEW p, NEW h,
           \A q \in Tasks \ {p} : call'[q] = call[q],
           \A k \in Handles \ {h} : openCnt'[k] = openCnt[k] /\ fsIdx'[k] = fsIdx[k],
           \A i \in Systems :
             useCnt'[i] = useCnt[i] + One(h \in OpenHandles(i)') - One(h \in OpenHandles(i))
                                    + One(p \in InCall(i)') - One(p \in InCall(i))
    PROVE  UseCounts'
  <1> SUFFICES ASSUME NEW i \in Systems
               PROVE  useCnt'[i] = Cardinality(OpenHandles(i)') + Cardinality(InCall(i)')
    BY DEF UseCounts
  <1>1. /\ Cardinality(OpenHandles(i)) \in Nat /\ Cardinality(InCall(i)) \in Nat
        /\ Cardinality(OpenHandles(i)') = Cardinality(OpenHandles(i))
             + One(h \in OpenHandles(i)') - One(h \in OpenHandles(i))
        /\ Cardinality(InCall(i)') = Cardinality(InCall(i))
             + One(p \in InCall(i)') - One(p \in InCall(i))
    BY UsesChange
  <1>2. useCnt[i] = Cardinality(OpenHandles(i)) + Cardinality(InCall(i))
    BY DEF IInv, UseCounts
  <1>3. \A b : One(b) \in Int
    BY DEF One
  <1> QED
    BY <1>1, <1>2, <1>3

\* A step of p alone that opens or closes no handle, and neither starts nor ends
\* an opening or closing, changes no count.
LEMMA QuietStep ==
    ASSUME IInv, NEW p \in Tasks, UNCHANGED <<useCnt, openCnt, fsIdx>>,
           \A q \in Tasks \ {p} : call'[q] = call[q],
           \A i \in Systems : p \in InCall(i)' <=> p \in InCall(i)
    PROVE  UseCounts'
  <1>1. \A i \in Systems : NULL \notin OpenHandles(i) /\ NULL \notin OpenHandles(i)'
    BY FileSysAssumption DEF OpenHandles, Handles
  <1>2. \A i \in Systems :
          useCnt'[i] = useCnt[i] + One(NULL \in OpenHandles(i)') - One(NULL \in OpenHandles(i))
                                 + One(p \in InCall(i)') - One(p \in InCall(i))
    BY <1>1 DEF One, IInv, Types
  <1> QED
    BY <1>2, CountStep

-----------------------------------------------------------------------------
(* Every step keeps the invariant *)

\* A step of task p to point `to` that changes no table, and what it may know there.
LEMMA CallStep ==
    ASSUME IInv, NEW p \in Tasks, UNCHANGED <<fsTab, openCnt, fsIdx, fInfo>>,
           opened' \in [Files -> Systems \cup {NULL}],
           NEW to \in [at : Points, id : Systems \cup {NULL},
                       fd : Handles \cup {NULL}, fi : Files \cup {NULL}],
           call' = [call EXCEPT ![p] = to],
           to.at \in {"out", "handle"} => to.id = NULL,
           to.at \notin {"out", "handle"} => to.id \in Systems,
           to.at \in {"handle", "io"} => to.fd \in Handles,
           to.at \notin {"close", "counted"},
           call[p].at \in Counting \/ to.at \in Counting
             => call[p].at \in Counting /\ to.at \in Counting /\ to.id = call[p].id
    PROVE  IInv'
  <1> USE DEF IInv
  <1>1. call'[p] = to /\ \A q \in Tasks \ {p} : call'[q] = call[q]
    BY DEF Types
  <1>2. Types'
    BY DEF Types, fsTab
  <1>3. Calls'
    BY <1>1 DEF Calls
  <1>4. Unused'
    BY DEF Unused, fsTab
  <1>5. UseCounts'
    <2>1. \A i \in Systems : p \in InCall(i)' <=> p \in InCall(i)
      BY <1>1 DEF InCall
    <2> QED
      BY <1>1, <2>1, QuietStep DEF fsTab
  <1> QED
    BY <1>2, <1>3, <1>4, <1>5

\* The steps that only take a call further
LEMMA FurtherStep ==
    ASSUME IInv, NEW p \in Tasks,
           \/ OpenFails(p) \/ NoHandle(p) \/ CloseFile(p) \/ DriverCloses(p)
           \/ IoHandle(p) \/ IoDone(p)
           \/ \E f \in Files : DriverOpens(p, f)
           \/ \E h \in Handles : io(p, h)
           \/ \E i \in Systems : deleteFileSystem(p, i)
    PROVE  IInv'
  <1>0. /\ call[p] \in [at : Points, id : Systems \cup {NULL}, fd : Handles \cup {NULL}, fi : Files \cup {NULL}]
        /\ call \in [Tasks -> [at : Points, id : Systems \cup {NULL}, fd : Handles \cup {NULL}, fi : Files \cup {NULL}]]
        /\ opened \in [Files -> Systems \cup {NULL}]
        /\ call[p].at \notin {"out", "close", "handle"} => call[p].id \in Systems
        /\ call[p].at \in {"out", "close", "handle"} => call[p].id = NULL
        /\ call[p].at \in {"close", "handle"} => call[p].fd \in Handles
        /\ call[p].at # "counted"
        /\ NULL \notin Systems
    BY FileSysAssumption DEF IInv, Types, Calls, Systems
  <1> DEFINE Further(point) == [call[p] EXCEPT !.at = point]
  <1>1. NoCall \in [at : Points, id : Systems \cup {NULL}, fd : Handles \cup {NULL}, fi : Files \cup {NULL}]
    BY DEF NoCall, Points
  <1>2. CASE OpenFails(p)
    <2>1. call' = [call EXCEPT ![p] = Further("releasing")]
      BY <1>0, <1>2 DEF OpenFails, Goto
    <2> QED
      BY <1>0, <1>2, <2>1, CallStep DEF OpenFails, At, Points, Counting, fhTab
  <1>3. CASE NoHandle(p)
    <2>1. call' = [call EXCEPT ![p] = Further("closing")]
      BY <1>0, <1>3 DEF NoHandle, Goto
    <2> QED
      BY <1>0, <1>3, <2>1, CallStep DEF NoHandle, At, Points, Counting, fhTab
  <1>4. CASE CloseFile(p)
    <2>1. call[p].at = "last" /\ useCnt[call[p].id] > 0
      BY <1>0, <1>4, Positive DEF CloseFile, At, InCall, Counting, IInv
    <2>2. call' = [call EXCEPT ![p] = Further("closing")]
      BY <1>0, <1>4, <2>1 DEF CloseFile, At, Goto
    <2> QED
      BY <1>0, <1>4, <2>1, <2>2, CallStep DEF CloseFile, Points, Counting, fhTab
  <1>5. CASE DriverCloses(p)
    <2>1. call' = [call EXCEPT ![p] = Further("releasing")]
      BY <1>0, <1>5 DEF DriverCloses, Goto
    <2>2. opened' \in [Files -> Systems \cup {NULL}]
      BY <1>0, <1>5 DEF DriverCloses
    <2> QED
      BY <1>0, <1>5, <2>1, <2>2, CallStep DEF DriverCloses, At, Points, Counting, fhTab
  <1>6. CASE IoHandle(p)
    <2> DEFINE to == [call[p] EXCEPT !.at = "io", !.id = fsIdx[call[p].fd], !.fi = fInfo[call[p].fd]]
    <2>1. call[p].at = "handle" /\ call[p].fd \in Handles
      BY <1>0, <1>6 DEF IoHandle, At
    <2>2. fsIdx[call[p].fd] \in Systems /\ fInfo[call[p].fd] \in Files \cup {NULL}
      BY <2>1 DEF IInv, Types
    <2>3. call' = [call EXCEPT ![p] = to]
      BY <1>0, <1>6 DEF IoHandle
    <2>4. /\ to \in [at : Points, id : Systems \cup {NULL}, fd : Handles \cup {NULL}, fi : Files \cup {NULL}]
          /\ to.at = "io" /\ to.id \in Systems /\ to.fd = call[p].fd
      BY <1>0, <2>2 DEF Points
    <2> HIDE DEF to
    <2> QED
      BY <1>0, <1>6, <2>1, <2>3, <2>4, CallStep DEF IoHandle, Counting, fhTab
  <1>7. CASE IoDone(p)
    <2>1. call' = [call EXCEPT ![p] = NoCall]
      BY <1>7 DEF IoDone, Return
    <2> QED
      BY <1>0, <1>1, <1>7, <2>1, CallStep DEF IoDone, At, NoCall, Counting, fhTab
  <1>8. ASSUME NEW f \in Files, DriverOpens(p, f) PROVE IInv'
    <2> DEFINE to == [call[p] EXCEPT !.at = "opened", !.fi = f]
    <2>1. call' = [call EXCEPT ![p] = to]
      BY <1>0, <1>8 DEF DriverOpens
    <2>2. opened' \in [Files -> Systems \cup {NULL}]
      BY <1>0, <1>8 DEF DriverOpens
    <2>3. /\ to \in [at : Points, id : Systems \cup {NULL}, fd : Handles \cup {NULL}, fi : Files \cup {NULL}]
          /\ to.at = "opened" /\ to.id = call[p].id
      BY <1>0 DEF Points
    <2> HIDE DEF to
    <2> QED
      BY <1>0, <1>8, <2>1, <2>2, <2>3, CallStep, ZenonT(60) DEF DriverOpens, At, Counting, fhTab
  <1>9. ASSUME NEW h \in Handles, io(p, h) PROVE IInv'
    <2> DEFINE to == [call[p] EXCEPT !.at = "handle", !.fd = h]
    <2>1. call' = [call EXCEPT ![p] = to]
      BY <1>0, <1>9 DEF io
    <2>2. /\ to \in [at : Points, id : Systems \cup {NULL}, fd : Handles \cup {NULL}, fi : Files \cup {NULL}]
          /\ to.at = "handle" /\ to.fd = h /\ to.id = call[p].id
      BY <1>0 DEF Points
    <2>3. /\ call[p].at = "out" /\ UNCHANGED <<fsTab, openCnt, fsIdx, fInfo>>
          /\ opened' \in [Files -> Systems \cup {NULL}]
      BY <1>0, <1>9 DEF io, At, fhTab
    <2> HIDE DEF to
    <2> QED
      BY <1>0, <2>1, <2>2, <2>3, CallStep DEF Counting
  <1>10. ASSUME NEW i \in Systems, deleteFileSystem(p, i) PROVE IInv'
    <2> DEFINE to == [call[p] EXCEPT !.at = "deleting", !.id = i]
    <2>1. call' = [call EXCEPT ![p] = to]
      BY <1>0, <1>10 DEF deleteFileSystem
    <2>2. /\ to \in [at : Points, id : Systems \cup {NULL}, fd : Handles \cup {NULL}, fi : Files \cup {NULL}]
          /\ to.at = "deleting" /\ to.id = i
      BY <1>0 DEF Points
    <2>3. /\ call[p].at = "out" /\ UNCHANGED <<fsTab, openCnt, fsIdx, fInfo>>
          /\ opened' \in [Files -> Systems \cup {NULL}]
      BY <1>0, <1>10 DEF deleteFileSystem, At, fhTab
    <2> HIDE DEF to
    <2> QED
      BY <1>0, <2>1, <2>2, <2>3, CallStep DEF Counting
  <1> QED
    BY <1>2, <1>3, <1>4, <1>5, <1>6, <1>7, <1>8, <1>9, <1>10

CallType == [at : Points, id : Systems \cup {NULL}, fd : Handles \cup {NULL}, fi : Files \cup {NULL}]

\* What the invariant says of one task's call
LEMMA CallFacts ==
    ASSUME IInv, NEW p \in Tasks
    PROVE  /\ call \in [Tasks -> CallType] /\ call[p] \in CallType
           /\ call[p].at \notin {"out", "close", "handle"} => call[p].id \in Systems
           /\ call[p].at \in {"out", "close", "handle"} => call[p].id = NULL
           /\ call[p].at \in {"close", "handle", "io"} => call[p].fd \in Handles
           /\ NULL \notin Systems /\ NoCall \in CallType
  BY FileSysAssumption DEF IInv, Types, Calls, Systems, CallType, NoCall, Points

\* open() counts its use before it calls the driver.
LEMMA OpenStep == ASSUME IInv, NEW p \in Tasks, NEW i \in Systems, open(p, i) PROVE IInv'
  <1> DEFINE to == [call[p] EXCEPT !.at = "opening", !.id = i]
  <1>1. /\ call' = [call EXCEPT ![p] = to] /\ useCnt' = [useCnt EXCEPT ![i] = useCnt[i] + 1]
        /\ call[p].at = "out" /\ i \in named
        /\ UNCHANGED <<named, openCnt, fsIdx, fInfo, opened>>
    BY CallFacts DEF open, At, fhTab, CallType
  <1>2. to \in CallType /\ to.at = "opening" /\ to.id = i
    BY CallFacts DEF CallType, Points
  <1> HIDE DEF to
  <1>3. call'[p] = to /\ \A q \in Tasks \ {p} : call'[q] = call[q]
    BY <1>1, CallFacts
  <1>4. Types'
    BY <1>1, <1>2, CallFacts DEF IInv, Types, CallType
  <1>5. Calls'
    BY <1>1, <1>2, <1>3 DEF IInv, Calls
  <1>6. Unused'
    BY <1>1 DEF IInv, Types, Unused
  <1>7. \A j \in Systems :
          useCnt'[j] = useCnt[j] + One(NULL \in OpenHandles(j)') - One(NULL \in OpenHandles(j))
                                 + One(p \in InCall(j)') - One(p \in InCall(j))
    <2> TAKE j \in Systems
    <2>1. NULL \notin OpenHandles(j)' /\ NULL \notin OpenHandles(j)
      BY FileSysAssumption DEF OpenHandles, Handles
    <2>2. p \notin InCall(j) /\ (p \in InCall(j)' <=> j = i)
      BY <1>1, <1>2, <1>3 DEF InCall, Counting
    <2>3. useCnt'[j] = IF j = i THEN useCnt[j] + 1 ELSE useCnt[j]
      BY <1>1 DEF IInv, Types
    <2>4. useCnt[j] \in Int
      BY DEF IInv, Types
    <2> QED
      BY <2>1, <2>2, <2>3, <2>4 DEF One
  <1>8. UseCounts'
    BY <1>1, <1>3, <1>7, CountStep
  <1> QED
    BY <1>4, <1>5, <1>6, <1>8 DEF IInv

\* A use is given back as the call returns.
LEMMA ReleaseStep == ASSUME IInv, NEW p \in Tasks, Release(p) PROVE IInv'
  <1> DEFINE i == call[p].id
  <1>1. /\ call' = [call EXCEPT ![p] = NoCall] /\ useCnt' = [useCnt EXCEPT ![i] = useCnt[i] - 1]
        /\ call[p].at = "releasing"
        /\ UNCHANGED <<named, openCnt, fsIdx, fInfo, opened>>
    BY DEF Release, At, Return, fhTab
  <1>2. NoCall \in CallType /\ NoCall.at = "out" /\ NoCall.id = NULL
    BY CallFacts DEF NoCall
  <1>3. call'[p] = NoCall /\ \A q \in Tasks \ {p} : call'[q] = call[q]
    BY <1>1, CallFacts
  <1>4. i \in Systems /\ useCnt[i] > 0
    <2>1. i \in Systems
      BY <1>1, CallFacts
    <2>2. p \in InCall(i)
      BY <1>1 DEF InCall, Counting
    <2> QED
      BY <2>1, <2>2, Positive DEF IInv
  <1> HIDE DEF i
  <1>5. Types'
    BY <1>1, <1>2, <1>4, CallFacts DEF IInv, Types, CallType
  <1>6. Calls'
    BY <1>1, <1>2, <1>3 DEF IInv, Calls
  <1>7. Unused'
    BY <1>1, <1>4 DEF IInv, Types, Unused
  <1>8. \A j \in Systems :
          useCnt'[j] = useCnt[j] + One(NULL \in OpenHandles(j)') - One(NULL \in OpenHandles(j))
                                 + One(p \in InCall(j)') - One(p \in InCall(j))
    <2> TAKE j \in Systems
    <2>1. NULL \notin OpenHandles(j)' /\ NULL \notin OpenHandles(j)
      BY FileSysAssumption DEF OpenHandles, Handles
    <2>2. p \notin InCall(j)' /\ (p \in InCall(j) <=> j = i)
      BY <1>1, <1>2, <1>3 DEF InCall, Counting, i
    <2>3. useCnt'[j] = IF j = i THEN useCnt[j] - 1 ELSE useCnt[j]
      BY <1>1 DEF IInv, Types
    <2>4. useCnt[j] \in Int
      BY DEF IInv, Types
    <2> QED
      BY <2>1, <2>2, <2>3, <2>4 DEF One
  <1>9. UseCounts'
    BY <1>1, <1>3, <1>8, CountStep
  <1> QED
    BY <1>5, <1>6, <1>7, <1>9 DEF IInv

\* A new handle takes over the use its open() counted.
LEMMA NewHandleStep == ASSUME IInv, NEW p \in Tasks, NEW h \in Handles, NewHandle(p, h) PROVE IInv'
  <1> DEFINE i == call[p].id
  <1>1. /\ call' = [call EXCEPT ![p] = NoCall] /\ openCnt' = [openCnt EXCEPT ![h] = 1]
        /\ fsIdx' = [fsIdx EXCEPT ![h] = i] /\ fInfo' = [fInfo EXCEPT ![h] = call[p].fi]
        /\ call[p].at = "opened" /\ openCnt[h] = 0
        /\ UNCHANGED <<named, useCnt, opened>>
    BY DEF NewHandle, At, Return, fsTab, Lowest, FreeHandles
  <1>2. NoCall \in CallType /\ NoCall.at = "out" /\ NoCall.id = NULL
    BY CallFacts DEF NoCall
  <1>3. call'[p] = NoCall /\ \A q \in Tasks \ {p} : call'[q] = call[q]
    BY <1>1, CallFacts
  <1>4. i \in Systems /\ call[p].fi \in Files \cup {NULL}
    BY <1>1, CallFacts DEF CallType
  <1> HIDE DEF i
  <1>5. Types'
    BY <1>1, <1>2, <1>4, CallFacts DEF IInv, Types, CallType
  <1>6. \A q \in Tasks \ {p} : call[q].at = "close" => openCnt'[call[q].fd] = 1
    BY <1>1, CallFacts DEF IInv, Types, Calls
  <1>7. Calls'
    BY <1>2, <1>3, <1>6 DEF IInv, Calls
  <1>8. Unused'
    BY <1>1 DEF IInv, Unused
  <1>9. \A j \in Systems :
          useCnt'[j] = useCnt[j] + One(h \in OpenHandles(j)') - One(h \in OpenHandles(j))
                                 + One(p \in InCall(j)') - One(p \in InCall(j))
    <2> TAKE j \in Systems
    <2>1. openCnt'[h] = 1 /\ fsIdx'[h] = i
      BY <1>1 DEF IInv, Types
    <2>2. h \notin OpenHandles(j) /\ (h \in OpenHandles(j)' <=> j = i)
      BY <1>1, <2>1 DEF OpenHandles
    <2>3. p \notin InCall(j)' /\ (p \in InCall(j) <=> j = i)
      BY <1>1, <1>2, <1>3 DEF InCall, Counting, i
    <2>4. useCnt[j] \in Int /\ useCnt'[j] = useCnt[j]
      BY <1>1 DEF IInv, Types
    <2> QED
      BY <2>2, <2>3, <2>4 DEF One
  <1>10. \A k \in Handles \ {h} : openCnt'[k] = openCnt[k] /\ fsIdx'[k] = fsIdx[k]
    BY <1>1 DEF IInv, Types
  <1>11. UseCounts'
    BY <1>3, <1>9, <1>10, CountStep
  <1> QED
    BY <1>5, <1>7, <1>8, <1>11 DEF IInv

\* The only task at close() of h may close it.
LEMMA CloseStep == ASSUME IInv, NEW p \in Tasks, NEW h \in Handles, close(p, h) PROVE IInv'
  <1> DEFINE to == [call[p] EXCEPT !.at = "close", !.fd = h]
  <1>1. /\ call' = [call EXCEPT ![p] = to] /\ call[p].at = "out" /\ openCnt[h] # 0
        /\ \A q \in Tasks : ~(call[q].at = "close" /\ call[q].fd = h)
        /\ UNCHANGED <<named, useCnt, openCnt, fsIdx, fInfo, opened>>
    BY CallFacts DEF close, At, fsTab, fhTab, CallType
  <1>2. to \in CallType /\ to.at = "close" /\ to.fd = h /\ to.id = NULL
    BY <1>1, CallFacts DEF CallType, Points
  <1> HIDE DEF to
  <1>3. call'[p] = to /\ \A q \in Tasks \ {p} : call'[q] = call[q]
    BY <1>1, CallFacts
  <1>4. Types'
    BY <1>1, <1>2, CallFacts DEF IInv, Types, CallType
  <1>5. openCnt[h] = 1
    BY <1>1 DEF IInv, Types
  <1>6. Calls'
    BY <1>1, <1>2, <1>3, <1>5 DEF IInv, Calls
  <1>7. Unused'
    BY <1>1 DEF IInv, Unused
  <1>8. \A j \in Systems : p \in InCall(j)' <=> p \in InCall(j)
    BY <1>1, <1>2, <1>3 DEF InCall, Counting
  <1>9. UseCounts'
    BY <1>1, <1>3, <1>8, QuietStep
  <1> QED
    BY <1>4, <1>6, <1>7, <1>9 DEF IInv

\* close() takes over the use of the handle it closes.
LEMMA CloseHandleStep == ASSUME IInv, NEW p \in Tasks, CloseHandle(p) PROVE IInv'
  <1> DEFINE h == call[p].fd
             to == [call[p] EXCEPT !.at = "last", !.id = fsIdx[h], !.fi = fInfo[h]]
  <1>1. call[p].at = "close" /\ h \in Handles /\ openCnt[h] = 1
    BY CallFacts DEF CloseHandle, At, IInv, Calls
  <1>2. fsIdx[h] \in Systems /\ fInfo[h] \in Files \cup {NULL}
    BY <1>1 DEF IInv, Types
  <1>3. /\ call' = [call EXCEPT ![p] = to] /\ openCnt' = [openCnt EXCEPT ![h] = 0]
        /\ UNCHANGED <<named, useCnt, fsIdx, fInfo, opened>>
    <2>1. call' = [call EXCEPT ![p].at = "last", ![p].id = fsIdx[h], ![p].fi = fInfo[h]]
      BY <1>1 DEF CloseHandle
    <2>2. call' = [call EXCEPT ![p] = to]
      BY <2>1, CallFacts DEF CallType
    <2>3. openCnt' = [openCnt EXCEPT ![h] = 0]
      BY <1>1 DEF CloseHandle
    <2> QED
      BY <2>2, <2>3 DEF CloseHandle, fsTab
  <1>4. to \in CallType /\ to.at = "last" /\ to.id = fsIdx[h]
    BY <1>2, CallFacts DEF CallType, Points
  <1>5. \A q \in Tasks \ {p} : call[q].at = "close" => call[q].fd # h
    BY <1>1 DEF IInv, Calls
  <1> HIDE DEF to, h
  <1>6. call'[p] = to /\ \A q \in Tasks \ {p} : call'[q] = call[q]
    BY <1>3, CallFacts
  <1>7. Types'
    BY <1>3, <1>4, CallFacts DEF IInv, Types, CallType
  <1>8. \A q \in Tasks \ {p} : call[q].at = "close" => openCnt'[call[q].fd] = 1
    BY <1>3, <1>5, CallFacts DEF IInv, Types, Calls
  <1>9. Calls'
    BY <1>2, <1>4, <1>6, <1>8 DEF IInv, Calls
  <1>10. Unused'
    BY <1>3 DEF IInv, Unused
  <1>11. \A j \in Systems :
          useCnt'[j] = useCnt[j] + One(h \in OpenHandles(j)') - One(h \in OpenHandles(j))
                                 + One(p \in InCall(j)') - One(p \in InCall(j))
    <2> TAKE j \in Systems
    <2>1. openCnt'[h] = 0
      BY <1>1, <1>3 DEF IInv, Types
    <2>2. h \notin OpenHandles(j)' /\ (h \in OpenHandles(j) <=> j = fsIdx[h])
      BY <1>1, <2>1 DEF OpenHandles
    <2>3. p \notin InCall(j) /\ (p \in InCall(j)' <=> j = fsIdx[h])
      BY <1>1, <1>4, <1>6 DEF InCall, Counting
    <2>4. useCnt[j] \in Int /\ useCnt'[j] = useCnt[j]
      BY <1>3 DEF IInv, Types
    <2> QED
      BY <2>2, <2>3, <2>4 DEF One
  <1>12. \A k \in Handles \ {h} : openCnt'[k] = openCnt[k] /\ fsIdx'[k] = fsIdx[k]
    BY <1>3 DEF IInv, Types
  <1>13. UseCounts'
    BY <1>6, <1>11, <1>12, CountStep
  <1> QED
    BY <1>7, <1>9, <1>10, <1>13 DEF IInv

\* A new file system takes an entry whose count is 0 already.
LEMMA NewFileSystemStep ==
    ASSUME IInv, NEW p \in Tasks, NEW i \in Systems, newFileSystem(p, i) PROVE IInv'
  <1>1. /\ i \notin named /\ named' = named \cup {i} /\ useCnt' = [useCnt EXCEPT ![i] = 0]
        /\ UNCHANGED <<openCnt, fsIdx, fInfo, opened, call>>
    BY DEF newFileSystem, Lowest, fhTab
  <1>2. useCnt' = useCnt
    BY <1>1 DEF IInv, Types, Unused
  <1>3. Types' /\ Calls' /\ Unused'
    BY <1>1, <1>2 DEF IInv, Types, Calls, Unused
  <1>4. \A j \in Systems : p \in InCall(j)' <=> p \in InCall(j)
    BY <1>1 DEF InCall
  <1>5. UseCounts'
    BY <1>1, <1>2, <1>4, QuietStep
  <1> QED
    BY <1>3, <1>5 DEF IInv

\* A file system that is deleted has no use.
LEMMA DeleteStep == ASSUME IInv, NEW p \in Tasks, Delete(p) PROVE IInv'
  <1> DEFINE i == call[p].id
  <1>1. /\ call' = [call EXCEPT ![p] = NoCall] /\ named' = named \ {i}
        /\ call[p].at = "deleting" /\ useCnt[i] = 0
        /\ UNCHANGED <<useCnt, openCnt, fsIdx, fInfo, opened>>
    BY DEF Delete, At, Return, fhTab
  <1>2. NoCall \in CallType /\ NoCall.at = "out" /\ NoCall.id = NULL
    BY CallFacts DEF NoCall
  <1>3. call'[p] = NoCall /\ \A q \in Tasks \ {p} : call'[q] = call[q]
    BY <1>1, CallFacts
  <1> HIDE DEF i
  <1>4. Types'
    BY <1>1, <1>2, CallFacts DEF IInv, Types, CallType
  <1>5. Calls'
    BY <1>1, <1>2, <1>3 DEF IInv, Calls
  <1>6. Unused'
    BY <1>1 DEF IInv, Unused
  <1>7. \A j \in Systems : p \in InCall(j)' <=> p \in InCall(j)
    BY <1>1, <1>2, <1>3 DEF InCall, Counting
  <1>8. UseCounts'
    BY <1>1, <1>3, <1>7, QuietStep
  <1> QED
    BY <1>4, <1>5, <1>6, <1>8 DEF IInv

\* Every step keeps the invariant.
LEMMA Step == IInv /\ [Next]_vars => IInv'
  <1> SUFFICES ASSUME IInv, [Next]_vars PROVE IInv'
    OBVIOUS
  <1>1. CASE UNCHANGED vars
    BY <1>1 DEF IInv, Types, Calls, Unused, UseCounts, OpenHandles, InCall, vars, fsTab, fhTab
  <1>2. ASSUME NEW p \in Tasks,
               \/ OpenFails(p) \/ NoHandle(p) \/ CloseFile(p) \/ DriverCloses(p)
               \/ IoHandle(p) \/ IoDone(p)
               \/ \E f \in Files : DriverOpens(p, f)
               \/ \E h \in Handles : io(p, h)
               \/ \E i \in Systems : deleteFileSystem(p, i)
        PROVE  IInv'
    BY <1>2, FurtherStep
  <1>3. ASSUME NEW p \in Tasks, DeleteWait(p) PROVE IInv'
    BY <1>1, <1>3 DEF DeleteWait
  <1>4. ASSUME NEW p \in Tasks, CloseHandle(p) \/ Release(p) \/ Delete(p) PROVE IInv'
    BY <1>4, CloseHandleStep, ReleaseStep, DeleteStep
  <1>5. ASSUME NEW p \in Tasks, NEW i \in Systems, open(p, i) \/ newFileSystem(p, i) PROVE IInv'
    BY <1>5, OpenStep, NewFileSystemStep
  <1>6. ASSUME NEW p \in Tasks, NEW h \in Handles, NewHandle(p, h) \/ close(p, h) PROVE IInv'
    BY <1>6, NewHandleStep, CloseStep
  <1> QED
    BY <1>1, <1>2, <1>3, <1>4, <1>5, <1>6 DEF Next

\* The tables start empty.
LEMMA Start == Init => IInv
  <1> SUFFICES ASSUME Init PROVE IInv
    OBVIOUS
  <1>1. 0 \in Systems
    BY FileSysAssumption DEF Systems
  <1>2. Types
    BY <1>1 DEF Init, Types, NoCall, Points
  <1>3. Calls /\ Unused
    BY DEF Init, Calls, Unused, NoCall
  <1>4. UseCounts
    <2>1. \A i \in Systems : OpenHandles(i) = {} /\ InCall(i) = {}
      BY DEF Init, OpenHandles, InCall, NoCall, Counting
    <2>2. \A i \in Systems : useCnt[i] = 0
      BY DEF Init
    <2> QED
      BY <2>1, <2>2, FS_EmptySet DEF UseCounts
  <1> QED
    BY <1>2, <1>3, <1>4 DEF IInv

-----------------------------------------------------------------------------
(* The theorems *)

\* The invariant holds throughout.
THEOREM Invariant == Spec => []IInv
  BY Start, Step, PTL DEF Spec

\* The tables and calls keep their types; no count goes below 0.
THEOREM TypeCorrect == Spec => []TypeOK
  <1>1. ASSUME IInv PROVE TypeOK
    <2>1. Types
      BY <1>1 DEF IInv
    <2>2. \A i \in Systems : useCnt[i] \in Nat
      BY <1>1, Positive DEF IInv
    <2>3. openCnt \in [Handles -> Nat] /\ useCnt \in [Systems -> Nat]
      BY <2>1, <2>2 DEF Types
    <2> QED
      BY <2>1, <2>3 DEF Types, TypeOK
  <1> QED
    BY <1>1, Invariant, PTL

\* A use count is the number of files open, being opened or being closed.
THEOREM Counted == Spec => []UseCounts
  <1>1. IInv => UseCounts
    BY DEF IInv
  <1> QED
    BY <1>1, Invariant, PTL

\* A file system is deleted when no task opens or closes a file on it, or uses
\* one whose handle is open.
THEOREM DeletesIdle == Spec => DeletedIdle
  <1> DEFINE Idle == \A i \in named \ named' : \A p \in Tasks :
               call[p].id = i => \/ At(p, "deleting")
                                 \/ At(p, "io") /\ ~Leads(call[p].fd, i, call[p].fi)
  <1>1. ASSUME IInv, [Next]_vars PROVE [Idle]_vars
    <2> SUFFICES ASSUME NEW i \in named \ named', NEW p \in Tasks, call[p].id = i
                 PROVE  \/ At(p, "deleting")
                        \/ At(p, "io") /\ ~Leads(call[p].fd, i, call[p].fi)
      BY SMTT(30)
    <2>1. PICK q \in Tasks : Delete(q)
      BY <1>1, ZenonT(60) DEF Next, OpenFails, NoHandle, CloseHandle, CloseFile, DriverCloses, Release,
                  IoHandle, IoDone, DeleteWait, open, newFileSystem, deleteFileSystem,
                  NewHandle, close, io, DriverOpens, fsTab, vars
    <2>2. i \in Systems /\ useCnt[i] = 0
      BY <1>1, <2>1 DEF Delete, IInv, Types
    <2>3. OpenHandles(i) = {} /\ p \notin InCall(i)
      BY <1>1, <2>2, Positive DEF IInv
    <2>4. call[p].at \in {"io", "deleting"}
      BY <1>1, <2>2, <2>3, CallFacts DEF InCall, Counting, CallType, Points, IInv, Calls
    <2>5. call[p].at = "io" => ~Leads(call[p].fd, i, call[p].fi)
      BY <1>1, <2>3, CallFacts DEF Leads, OpenHandles
    <2> QED
      BY <2>4, <2>5 DEF At
  <1> QED
    BY <1>1, Invariant, PTL DEF Spec, DeletedIdle

-----------------------------------------------------------------------------
(* Who has a file open: the handles that lead to it, and the calls that are *)
(* opening or closing it                                                    *)

Led(i, f) == {h \in Handles : Leads(h, i, f)}
Held(i, f) == {p \in Tasks : call[p].id = i /\ call[p].fi = f /\
                             call[p].at \in {"opened", "last", "closing"}}

\* FilesHeld, of one file of one file system
HeldBy(i, f) == Cardinality(Led(i, f)) + Cardinality(Held(i, f)) = One(opened[f] = i)

\* FilesHeld is that, of all.
LEMMA HeldOnes == FilesHeld <=> \A i \in Systems : \A f \in Files : HeldBy(i, f)
  BY DEF FilesHeld, HeldBy, Led, Held, One

\* What a step of task p and a change of handle h do to the two numbers.
LEMMA HoldsChange ==
    ASSUME NEW i, NEW f, NEW p, NEW h,
           \A q \in Tasks \ {p} : call'[q] = call[q],
           \A k \in Handles \ {h} : /\ openCnt'[k] = openCnt[k] /\ fsIdx'[k] = fsIdx[k]
                                    /\ fInfo'[k] = fInfo[k]
    PROVE  /\ Cardinality(Led(i, f)) \in Nat /\ Cardinality(Held(i, f)) \in Nat
           /\ Cardinality(Led(i, f)') = Cardinality(Led(i, f))
                + One(h \in Led(i, f)') - One(h \in Led(i, f))
           /\ Cardinality(Held(i, f)') = Cardinality(Held(i, f))
                + One(p \in Held(i, f)') - One(p \in Held(i, f))
  <1>1. Led(i, f)' \ {h} = Led(i, f) \ {h}
    BY DEF Led, Leads
  <1>2. Held(i, f)' \ {p} = Held(i, f) \ {p}
    BY DEF Held
  <1>3. IsFiniteSet(Handles) /\ Led(i, f) \in SUBSET Handles /\ Held(i, f) \in SUBSET Tasks
    BY FS_Interval, FileSysAssumption DEF Handles, Led, Held
  <1>4. IsFiniteSet(Led(i, f)) /\ IsFiniteSet(Held(i, f))
    BY <1>3, FS_Subset, FileSysAssumption
  <1> QED
    BY <1>1, <1>2, <1>4, OneChanges

\* A file stays the business of one if `opened` follows the step of p and the
\* change of h.
LEMMA HeldStep ==
    ASSUME FilesHeld, NEW p, NEW h,
           \A q \in Tasks \ {p} : call'[q] = call[q],
           \A k \in Handles \ {h} : /\ openCnt'[k] = openCnt[k] /\ fsIdx'[k] = fsIdx[k]
                                    /\ fInfo'[k] = fInfo[k],
           \A i \in Systems : \A f \in Files :
             One(opened'[f] = i) = One(opened[f] = i) + One(h \in Led(i, f)') - One(h \in Led(i, f))
                                 + One(p \in Held(i, f)') - One(p \in Held(i, f))
    PROVE  FilesHeld'
  <1>1. ASSUME NEW i \in Systems, NEW f \in Files PROVE HeldBy(i, f)'
    <2>1. /\ Cardinality(Led(i, f)) \in Nat /\ Cardinality(Held(i, f)) \in Nat
          /\ Cardinality(Led(i, f)') = Cardinality(Led(i, f))
               + One(h \in Led(i, f)') - One(h \in Led(i, f))
          /\ Cardinality(Held(i, f)') = Cardinality(Held(i, f))
               + One(p \in Held(i, f)') - One(p \in Held(i, f))
      BY HoldsChange
    <2>2. Cardinality(Led(i, f)) + Cardinality(Held(i, f)) = One(opened[f] = i)
      BY HeldOnes DEF HeldBy
    <2>3. \A b : One(b) \in Int
      BY DEF One
    <2>4. Cardinality(Led(i, f)') + Cardinality(Held(i, f)') = One(opened'[f] = i)
      BY <2>1, <2>2, <2>3
    <2> QED
      BY <2>4 DEF HeldBy, Led, Held, Leads
  <1> QED
    BY <1>1 DEF FilesHeld, HeldBy, Led, Held, One

\* A step of p alone that neither opens nor closes a file changes nothing.
LEMMA HeldQuiet ==
    ASSUME FilesHeld, NEW p, UNCHANGED <<openCnt, fsIdx, fInfo, opened>>,
           \A q \in Tasks \ {p} : call'[q] = call[q],
           \A i \in Systems : \A f \in Files : p \in Held(i, f)' <=> p \in Held(i, f)
    PROVE  FilesHeld'
  <1>1. \A i, f : NULL \notin Led(i, f) /\ NULL \notin Led(i, f)'
    BY FileSysAssumption DEF Led, Handles
  <1>2. \A i \in Systems : \A f \in Files :
          One(opened'[f] = i) = One(opened[f] = i) + One(NULL \in Led(i, f)') - One(NULL \in Led(i, f))
                              + One(p \in Held(i, f)') - One(p \in Held(i, f))
    BY <1>1 DEF One
  <1>3. \A k \in Handles \ {NULL} : /\ openCnt'[k] = openCnt[k] /\ fsIdx'[k] = fsIdx[k]
                                    /\ fInfo'[k] = fInfo[k]
    OBVIOUS
  <1>4. \A q \in Tasks \ {p} : call'[q] = call[q]
    OBVIOUS
  <1>5. FilesHeld
    OBVIOUS
  <1> QED
    BY ONLY <1>2, <1>3, <1>4, <1>5, HeldStep, SMTT(60)

\* The file that a call is opening or closing is open for it.
LEMMA HeldOpen ==
    ASSUME FilesHeld, NEW i \in Systems, NEW f \in Files, NEW p, p \in Held(i, f)
    PROVE  opened[f] = i
  <1>1. /\ Cardinality(Led(i, f)) \in Nat /\ Cardinality(Held(i, f)) \in Nat
        /\ IsFiniteSet(Held(i, f))
    <2>1. IsFiniteSet(Handles) /\ Led(i, f) \in SUBSET Handles /\ Held(i, f) \in SUBSET Tasks
      BY FS_Interval, FileSysAssumption DEF Handles, Led, Held
    <2>2. IsFiniteSet(Led(i, f)) /\ IsFiniteSet(Held(i, f))
      BY <2>1, FS_Subset, FileSysAssumption
    <2> QED
      BY <2>2, FS_CardinalityType
  <1>2. Cardinality(Held(i, f)) # 0
    BY <1>1, FS_EmptySet
  <1>3. Cardinality(Led(i, f)) + Cardinality(Held(i, f)) = One(opened[f] = i)
    BY HeldOnes DEF HeldBy
  <1> QED
    BY <1>1, <1>2, <1>3 DEF One

\* A call in this state is opening or closing f on i.
Holds(c, i, f) == c.id = i /\ c.fi = f /\ c.at \in {"opened", "last", "closing"}

\* A step of p moves its call only.
LEMMA Moved ==
    ASSUME IInv, NEW p \in Tasks, NEW c, c = call[p], NEW to, call' = [call EXCEPT ![p] = to]
    PROVE  /\ \A q \in Tasks \ {p} : call'[q] = call[q]
           /\ \A i, f : (p \in Held(i, f) <=> Holds(c, i, f)) /\ (p \in Held(i, f)' <=> Holds(to, i, f))
  <1>1. call'[p] = to /\ \A q \in Tasks \ {p} : call'[q] = call[q]
    BY CallFacts
  <1>2. \A i, f : p \in Held(i, f) <=> Holds(call[p], i, f)
    BY DEF Held, Holds
  <1>3. \A i, f : p \in Held(i, f)' <=> Holds(call'[p], i, f)
    BY DEF Held, Holds
  <1> QED
    BY <1>1, <1>2, <1>3

\* Steps on which no file changes hands.
LEMMA HeldStays ==
    ASSUME IInv, FilesHeld, NEW p \in Tasks,
           \/ OpenFails(p) \/ NoHandle(p) \/ CloseFile(p) \/ Release(p) \/ IoHandle(p) \/ IoDone(p)
           \/ Delete(p)
           \/ \E i \in Systems : open(p, i) \/ deleteFileSystem(p, i)
           \/ \E h \in Handles : close(p, h) \/ io(p, h)
    PROVE  FilesHeld'
  <1>0. PICK c \in CallType : c = call[p]
    BY CallFacts
  <1>1. UNCHANGED <<openCnt, fsIdx, fInfo, opened>>
    BY DEF OpenFails, NoHandle, CloseFile, Release, IoHandle, IoDone, Delete, open, deleteFileSystem,
           close, io, fhTab
  <1>2. ASSUME NEW to, call' = [call EXCEPT ![p] = to], \A i, f : Holds(to, i, f) <=> Holds(c, i, f)
        PROVE  FilesHeld'
    <2>1. /\ \A q \in Tasks \ {p} : call'[q] = call[q]
          /\ \A i, f : (p \in Held(i, f) <=> Holds(c, i, f)) /\ (p \in Held(i, f)' <=> Holds(to, i, f))
      BY <1>0, <1>2, Moved
    <2> QED
      BY <1>1, <1>2, <2>1, HeldQuiet
  <1>3. CASE OpenFails(p)
    <2>1. call' = [call EXCEPT ![p] = [c EXCEPT !.at = "releasing"]] /\ c.at = "opening"
      BY <1>0, <1>3, CallFacts DEF OpenFails, Goto, At
    <2> QED
      BY <1>2, <2>1 DEF Holds, CallType
  <1>4. CASE NoHandle(p)
    <2>1. call' = [call EXCEPT ![p] = [c EXCEPT !.at = "closing"]] /\ c.at = "opened"
      BY <1>0, <1>4, CallFacts DEF NoHandle, Goto, At
    <2> QED
      BY <1>2, <2>1 DEF Holds, CallType
  <1>5. CASE CloseFile(p)
    <2>1. call[p].at = "last" /\ useCnt[call[p].id] > 0
      BY <1>5, CallFacts, Positive DEF CloseFile, At, InCall, Counting, IInv, Calls
    <2>2. call' = [call EXCEPT ![p] = [c EXCEPT !.at = "closing"]] /\ c.at = "last"
      BY <1>0, <1>5, <2>1, CallFacts DEF CloseFile, Goto, At
    <2> QED
      BY <1>2, <2>2 DEF Holds, CallType
  <1>6. CASE Release(p) \/ IoDone(p) \/ Delete(p)
    <2>1. call' = [call EXCEPT ![p] = NoCall] /\ c.at \in {"releasing", "io", "deleting"}
      BY <1>0, <1>6 DEF Release, IoDone, Delete, Return, At
    <2>2. NoCall.at = "out"
      BY DEF NoCall
    <2> QED
      BY <1>2, <2>1, <2>2 DEF Holds
  <1>7. CASE IoHandle(p)
    <2>1. PICK i, f : call' = [call EXCEPT ![p] = [c EXCEPT !.at = "io", !.id = i, !.fi = f]] /\ c.at = "handle"
      BY <1>0, <1>7, CallFacts, ZenonT(40) DEF IoHandle, At
    <2> QED
      BY <1>2, <2>1 DEF Holds, CallType
  <1>8. ASSUME NEW i \in Systems, open(p, i) \/ deleteFileSystem(p, i) PROVE FilesHeld'
    <2>1. PICK at \in {"opening", "deleting"} :
             call' = [call EXCEPT ![p] = [c EXCEPT !.at = at, !.id = i]] /\ c.at = "out"
      BY <1>0, <1>8, CallFacts DEF open, deleteFileSystem, At
    <2> QED
      BY <1>2, <2>1 DEF Holds, CallType
  <1>9. ASSUME NEW h \in Handles, close(p, h) \/ io(p, h) PROVE FilesHeld'
    <2>1. PICK at \in {"close", "handle"} :
             call' = [call EXCEPT ![p] = [c EXCEPT !.at = at, !.fd = h]] /\ c.at = "out"
      BY <1>0, <1>9, CallFacts DEF close, io, At
    <2> QED
      BY <1>2, <2>1 DEF Holds, CallType
  <1> QED
    BY <1>3, <1>4, <1>5, <1>6, <1>7, <1>8, <1>9

\* The driver opens a file for the call, and closes it for the call that has it.
LEMMA HeldByDriver ==
    ASSUME IInv, FilesHeld, NEW p \in Tasks, DriverCloses(p) \/ \E f \in Files : DriverOpens(p, f)
    PROVE  FilesHeld'
  <1>0. PICK c \in CallType : c = call[p]
    BY CallFacts
  <1>1. opened \in [Files -> Systems \cup {NULL}] /\ NULL \notin Systems /\ NULL \notin Files
    BY FileSysAssumption DEF IInv, Types, Systems
  <1>2. \A j, g : NULL \notin Led(j, g) /\ NULL \notin Led(j, g)'
    BY FileSysAssumption DEF Led, Handles
  <1>3. ASSUME openCnt' = openCnt /\ fsIdx' = fsIdx /\ fInfo' = fInfo,
               \A q \in Tasks \ {p} : call'[q] = call[q],
               \A j \in Systems : \A g \in Files :
                 One(opened'[g] = j) = One(opened[g] = j) + One(p \in Held(j, g)') - One(p \in Held(j, g))
        PROVE  FilesHeld'
    <2>1. \A j \in Systems : \A g \in Files :
            One(opened'[g] = j) = One(opened[g] = j) + One(NULL \in Led(j, g)') - One(NULL \in Led(j, g))
                                + One(p \in Held(j, g)') - One(p \in Held(j, g))
      BY <1>2, <1>3 DEF One
    <2>2. \A k \in Handles \ {NULL} : /\ openCnt'[k] = openCnt[k] /\ fsIdx'[k] = fsIdx[k]
                                      /\ fInfo'[k] = fInfo[k]
      BY <1>3
    <2>3. \A q \in Tasks \ {p} : call'[q] = call[q]
      BY <1>3
    <2> QED
      BY <2>1, <2>2, <2>3, HeldStep, SMTT(60)
  <1>4. ASSUME NEW f \in Files, DriverOpens(p, f) PROVE FilesHeld'
    <2>1. PICK to : to = [c EXCEPT !.at = "opened", !.fi = f]
      OBVIOUS
    <2>2. /\ call' = [call EXCEPT ![p] = to] /\ c.at = "opening" /\ c.id \in Systems /\ opened[f] = NULL
          /\ opened' = [opened EXCEPT ![f] = c.id] /\ UNCHANGED <<openCnt, fsIdx, fInfo>>
      BY <1>0, <1>4, <2>1, CallFacts DEF DriverOpens, At, fhTab
    <2>3. \A j, g : ~Holds(c, j, g) /\ (Holds(to, j, g) <=> j = c.id /\ g = f)
      BY <2>1, <2>2 DEF Holds, CallType
    <2>4. \A j \in Systems : \A g \in Files :
            One(opened'[g] = j) = One(opened[g] = j) + One(Holds(to, j, g)) - One(Holds(c, j, g))
      <3> SUFFICES ASSUME NEW j \in Systems, NEW g \in Files
                   PROVE  One(opened'[g] = j) = One(opened[g] = j) + One(Holds(to, j, g)) - One(Holds(c, j, g))
        OBVIOUS
      <3>1. opened'[g] = IF g = f THEN c.id ELSE opened[g]
        BY <1>1, <2>2
      <3> QED
        BY <1>1, <2>2, <2>3, <3>1 DEF One
    <2>5. openCnt' = openCnt /\ fsIdx' = fsIdx /\ fInfo' = fInfo
      BY <2>2
    <2>6. /\ \A q \in Tasks \ {p} : call'[q] = call[q]
          /\ \A j, g : (p \in Held(j, g) <=> Holds(c, j, g)) /\ (p \in Held(j, g)' <=> Holds(to, j, g))
      BY <1>0, <2>2, Moved
    <2>7. \A j \in Systems : \A g \in Files :
            One(opened'[g] = j) = One(opened[g] = j) + One(p \in Held(j, g)') - One(p \in Held(j, g))
      BY <2>4, <2>6 DEF One
    <2> QED
      BY <1>3, <2>5, <2>6, <2>7
  <1>5. CASE DriverCloses(p)
    <2>1. PICK to : to = [c EXCEPT !.at = "releasing"]
      OBVIOUS
    <2>2. /\ call' = [call EXCEPT ![p] = to] /\ c.at = "closing" /\ c.id \in Systems
          /\ opened' = [opened EXCEPT ![c.fi] = NULL] /\ UNCHANGED <<openCnt, fsIdx, fInfo>>
      BY <1>0, <1>5, <2>1, CallFacts DEF DriverCloses, Goto, At, fhTab
    <2>3. \A j, g : ~Holds(to, j, g) /\ (Holds(c, j, g) <=> j = c.id /\ g = c.fi)
      BY <2>1, <2>2 DEF Holds, CallType
    <2>4. c.fi \in Files => opened[c.fi] = c.id
      <3>1. p \in Held(c.id, c.fi)
        BY <1>0, <2>2 DEF Held
      <3> QED
        BY <2>2, <3>1, HeldOpen
    <2>5. \A j \in Systems : \A g \in Files :
            One(opened'[g] = j) = One(opened[g] = j) + One(Holds(to, j, g)) - One(Holds(c, j, g))
      <3> SUFFICES ASSUME NEW j \in Systems, NEW g \in Files
                   PROVE  One(opened'[g] = j) = One(opened[g] = j) + One(Holds(to, j, g)) - One(Holds(c, j, g))
        OBVIOUS
      <3>1. opened'[g] = IF g = c.fi THEN NULL ELSE opened[g]
        BY <1>1, <2>2
      <3> QED
        BY <1>1, <2>2, <2>3, <2>4, <3>1 DEF One
    <2>6. openCnt' = openCnt /\ fsIdx' = fsIdx /\ fInfo' = fInfo
      BY <2>2
    <2>7. /\ \A q \in Tasks \ {p} : call'[q] = call[q]
          /\ \A j, g : (p \in Held(j, g) <=> Holds(c, j, g)) /\ (p \in Held(j, g)' <=> Holds(to, j, g))
      BY <1>0, <2>2, Moved
    <2>8. \A j \in Systems : \A g \in Files :
            One(opened'[g] = j) = One(opened[g] = j) + One(p \in Held(j, g)') - One(p \in Held(j, g))
      BY <2>5, <2>7 DEF One
    <2> QED
      BY <1>3, <2>6, <2>7, <2>8
  <1> QED
    BY <1>4, <1>5

\* open() hands the file over to its handle, and close() takes it over again.
LEMMA HeldByHandle ==
    ASSUME IInv, FilesHeld, NEW p \in Tasks, CloseHandle(p) \/ \E h \in Handles : NewHandle(p, h)
    PROVE  FilesHeld'
  <1>0. PICK c \in CallType : c = call[p]
    BY CallFacts
  <1>1. /\ openCnt \in [Handles -> {0, 1}] /\ fsIdx \in [Handles -> Systems]
        /\ fInfo \in [Handles -> Files \cup {NULL}]
    BY DEF IInv, Types
  <1>2. ASSUME NEW to, call' = [call EXCEPT ![p] = to], opened' = opened, NEW h \in Handles,
               \A k \in Handles \ {h} : /\ openCnt'[k] = openCnt[k] /\ fsIdx'[k] = fsIdx[k]
                                        /\ fInfo'[k] = fInfo[k],
               \A j \in Systems : \A g \in Files :
                 One(h \in Led(j, g)') + One(Holds(to, j, g)) = One(h \in Led(j, g)) + One(Holds(c, j, g))
        PROVE  FilesHeld'
    <2>1. /\ \A q \in Tasks \ {p} : call'[q] = call[q]
          /\ \A j, g : (p \in Held(j, g) <=> Holds(c, j, g)) /\ (p \in Held(j, g)' <=> Holds(to, j, g))
      BY <1>0, <1>2, Moved
    <2>2. \A j \in Systems : \A g \in Files :
            One(opened'[g] = j) = One(opened[g] = j) + One(h \in Led(j, g)') - One(h \in Led(j, g))
                                + One(p \in Held(j, g)') - One(p \in Held(j, g))
      BY <1>2, <2>1 DEF One
    <2>3. \A k \in Handles \ {h} : /\ openCnt'[k] = openCnt[k] /\ fsIdx'[k] = fsIdx[k]
                                   /\ fInfo'[k] = fInfo[k]
      BY <1>2
    <2>4. \A q \in Tasks \ {p} : call'[q] = call[q]
      BY <2>1
    <2> QED
      BY <2>2, <2>3, <2>4, HeldStep, SMTT(60)
  <1>3. ASSUME NEW h \in Handles, NewHandle(p, h) PROVE FilesHeld'
    <2>1. /\ call' = [call EXCEPT ![p] = NoCall] /\ c.at = "opened" /\ openCnt[h] = 0
          /\ openCnt' = [openCnt EXCEPT ![h] = 1] /\ fsIdx' = [fsIdx EXCEPT ![h] = c.id]
          /\ fInfo' = [fInfo EXCEPT ![h] = c.fi] /\ opened' = opened
      BY <1>0, <1>3 DEF NewHandle, At, Return, Lowest, FreeHandles
    <2>2. \A j, g : Holds(c, j, g) <=> j = c.id /\ g = c.fi
      BY <2>1 DEF Holds
    <2>3. \A j, g : ~Holds(NoCall, j, g)
      BY DEF Holds, NoCall
    <2>4. /\ openCnt'[h] = 1 /\ fsIdx'[h] = c.id /\ fInfo'[h] = c.fi
          /\ \A k \in Handles \ {h} : openCnt'[k] = openCnt[k] /\ fsIdx'[k] = fsIdx[k] /\ fInfo'[k] = fInfo[k]
      BY <1>1, <2>1
    <2>5. \A j, g : h \in Led(j, g)' <=> j = c.id /\ g = c.fi
      BY <2>4 DEF Led, Leads
    <2>6. \A j, g : h \notin Led(j, g)
      BY <2>1 DEF Led, Leads
    <2>7. \A j \in Systems : \A g \in Files :
            One(h \in Led(j, g)') + One(Holds(NoCall, j, g)) = One(h \in Led(j, g)) + One(Holds(c, j, g))
      BY <2>2, <2>3, <2>5, <2>6 DEF One
    <2> QED
      BY <1>2, <2>1, <2>4, <2>7, ZenonT(60)
  <1>4. CASE CloseHandle(p)
    <2>1. PICK h \in Handles : h = c.fd /\ c.at = "close" /\ openCnt[h] = 1
      BY <1>0, <1>4, CallFacts DEF CloseHandle, At, IInv, Calls
    <2>2. PICK i, f : i = fsIdx[h] /\ f = fInfo[h]
      OBVIOUS
    <2>3. PICK to : to = [c EXCEPT !.at = "last", !.id = i, !.fi = f]
      OBVIOUS
    <2>4. call' = [call EXCEPT ![p] = to] /\ openCnt' = [openCnt EXCEPT ![h] = 0]
          /\ UNCHANGED <<fsIdx, fInfo, opened>>
      <3>1. call' = [call EXCEPT ![p].at = "last", ![p].id = i, ![p].fi = f]
        BY <1>0, <1>4, <2>1, <2>2 DEF CloseHandle
      <3>2. call' = [call EXCEPT ![p] = to]
        BY <1>0, <2>3, <3>1, CallFacts DEF CallType
      <3>3. openCnt' = [openCnt EXCEPT ![h] = 0] /\ UNCHANGED <<fsIdx, fInfo, opened>>
        BY <1>0, <1>4, <2>1 DEF CloseHandle
      <3> QED
        BY <3>2, <3>3
    <2>5. \A j, g : Holds(to, j, g) <=> j = i /\ g = f
      BY <2>3 DEF Holds, CallType
    <2>6. \A j, g : ~Holds(c, j, g)
      BY <2>1 DEF Holds
    <2>7. \A j, g : h \in Led(j, g) <=> j = i /\ g = f
      BY <2>1, <2>2 DEF Led, Leads
    <2>8. /\ openCnt'[h] = 0
          /\ \A k \in Handles \ {h} : openCnt'[k] = openCnt[k] /\ fsIdx'[k] = fsIdx[k] /\ fInfo'[k] = fInfo[k]
      BY <1>1, <2>4
    <2>9. \A j, g : h \notin Led(j, g)'
      BY <2>8 DEF Led, Leads
    <2>10. \A j \in Systems : \A g \in Files :
             One(h \in Led(j, g)') + One(Holds(to, j, g)) = One(h \in Led(j, g)) + One(Holds(c, j, g))
      BY <2>5, <2>6, <2>7, <2>9 DEF One
    <2>11. /\ \A q \in Tasks \ {p} : call'[q] = call[q]
           /\ \A j, g : (p \in Held(j, g) <=> Holds(c, j, g)) /\ (p \in Held(j, g)' <=> Holds(to, j, g))
      BY <1>0, <2>4, Moved
    <2>12. \A j \in Systems : \A g \in Files :
             One(opened'[g] = j) = One(opened[g] = j) + One(h \in Led(j, g)') - One(h \in Led(j, g))
                                 + One(p \in Held(j, g)') - One(p \in Held(j, g))
      BY <2>4, <2>10, <2>11 DEF One
    <2>13. \A k \in Handles \ {h} : /\ openCnt'[k] = openCnt[k] /\ fsIdx'[k] = fsIdx[k]
                                    /\ fInfo'[k] = fInfo[k]
      BY <2>8
    <2>14. \A q \in Tasks \ {p} : call'[q] = call[q]
      BY <2>11
    <2> QED
      BY ONLY FilesHeld, <2>12, <2>13, <2>14, HeldStep, SMTT(60)
  <1> QED
    BY <1>3, <1>4

\* Each step keeps a file the business of one.
LEMMA HeldNext ==
    ASSUME IInv, FilesHeld, [Next]_vars
    PROVE  FilesHeld'
  <1>1. ASSUME UNCHANGED <<openCnt, fsIdx, fInfo, opened, call>> PROVE FilesHeld'
    <2>1. \A i, f : NULL \in Held(i, f)' <=> NULL \in Held(i, f)
      BY <1>1 DEF Held
    <2> QED
      BY <1>1, <2>1, HeldQuiet
  <1>2. ASSUME NEW p \in Tasks, NEW i \in Systems, newFileSystem(p, i) PROVE FilesHeld'
    BY <1>1, <1>2 DEF newFileSystem, fhTab
  <1>3. CASE UNCHANGED vars \/ \E p \in Tasks : DeleteWait(p)
    BY <1>1, <1>3 DEF DeleteWait, vars, fhTab
  <1> QED
    BY <1>2, <1>3, HeldStays, HeldByDriver, HeldByHandle DEF Next

\* What a driver has open is the business of one handle or of one call: no file
\* stays open with nobody to close it, and none is closed twice.
THEOREM EachFileHeld == Spec => []FilesHeld
  <1>1. Init => FilesHeld
    <2> SUFFICES ASSUME Init, NEW i \in Systems, NEW f \in Files PROVE HeldBy(i, f)
      BY HeldOnes
    <2>1. Led(i, f) = {} /\ Held(i, f) = {} /\ opened[f] # i
      BY FileSysAssumption DEF Init, Led, Leads, Held, NoCall, Systems
    <2> QED
      BY <2>1, FS_EmptySet DEF HeldBy, One
  <1>2. IInv /\ FilesHeld /\ [Next]_vars => FilesHeld'
    BY HeldNext
  <1> QED
    BY <1>1, <1>2, Invariant, PTL DEF Spec

-----------------------------------------------------------------------------
(* The boot loader: what it has in memory.                                 *)

InFile(d, pc) == pc # 0 /\ pc < RESV_CLUSTER(FATType(d))

AtLast(d, pc) == pc >= LAST_CLUSTER(FATType(d))

ClusterSize(d) == SectorSize * d.spc

\* read() goes on from byte n of the kernel, or its file has ended, or is broken
ReadsAt(d, n, place) ==
    /\ place.pc \in Nat
    /\ InFile(d, place.pc) => /\ n < fileArea(d)
                                /\ place = [pc |-> d.chain[1 + (n \div ClusterSize(d))], po |-> n % ClusterSize(d)]
    /\ AtLast(d, place.pc) => n >= fileArea(d) /\ AtLast(d, d.end)

\* The buffer of the FAT has the sectors it is for
FATRead(buffer) == buffer.sector # -1 => buffer.sector \in Nat /\ buffer.buf = <<buffer.sector, buffer.sector + 1>>

\* The bytes from `from` on are at `addr`, m of them as far as its clusters have them
\* and memory has room
Brought(d, mem, addr, from, m) ==
    \A n \in 0 .. m - 1 : (addr + n < MemorySize /\ from + n < fileArea(d)) => mem[addr + n] = fileByte(d, from + n)

\* Where a phase begins in the kernel and in memory, and what there is of it
BaseByte(d, ph) ==
    CASE ph = "relocations" -> d.kernel.relOffset
      [] ph = "skip" -> 0
      [] ph = "load" -> d.kernel.header
      [] ph = "text" -> CoffHeader
      [] ph = "data" -> CoffHeader + d.kernel.text.size

BaseAddr(d, ph) ==
    CASE ph = "relocations" -> (d.kernel.fileBlocks + 1) * SectorSize
      [] ph \in {"skip", "load"} -> 0
      [] ph = "text" -> d.kernel.text.paddr
      [] ph = "data" -> d.kernel.data.paddr

SizeIn(d, ph) ==
    CASE ph = "relocations" -> d.kernel.relBytes
      [] ph = "skip" -> d.kernel.header
      [] ph = "load" -> fileArea(d)
      [] ph = "text" -> d.kernel.text.size
      [] ph = "data" -> d.kernel.data.size

\* How far the phase is, by what it has loaded before and what read() has brought
Done(ph, ld, req) == (IF ph = "relocations" THEN 0 ELSE ld) + (req.asked - req.len)

\* The phase `ph` has brought m bytes, and read() goes on behind them
Reads(d, ph, req, place, m) ==
    /\ d.kernel.type = IF ph \in {"text", "data"} THEN "coff" ELSE "exe"
    /\ ReadsAt(d, BaseByte(d, ph) + m, place)
    /\ ph # "skip" => req.addr = BaseAddr(d, ph) + m
    /\ ph # "load" => BaseByte(d, ph) + m <= fileArea(d) /\ m + req.len <= SizeIn(d, ph)
    /\ ph = "relocations" => req.asked = SizeIn(d, ph)
    /\ ph = "load" => req.asked = SectorSize
    /\ req.len <= req.asked
    /\ req.ended => AtLast(d, place.pc)

TableRead(d, mem) ==
    /\ d.kernel.relOffset + d.kernel.relBytes <= fileArea(d)
    /\ Brought(d, mem, BaseAddr(d, "relocations"), d.kernel.relOffset, d.kernel.relBytes)

\* The clusters of the kernel end below the relocation table
TableSafe(d) == fileArea(d) - d.kernel.header <= BaseAddr(d, "relocations")

TextRead(d, mem) ==
    /\ CoffHeader + d.kernel.text.size <= fileArea(d)
    /\ Brought(d, mem, d.kernel.text.paddr, CoffHeader, d.kernel.text.size)

\* What is in memory then
Has(d, ph, mem, m) ==
    /\ ph # "skip" => Brought(d, mem, BaseAddr(d, ph), BaseByte(d, ph), m)
    /\ (ph = "skip" \/ (ph = "load" /\ TableSafe(d))) => TableRead(d, mem)
    /\ ph = "data" => TextRead(d, mem)

\* The image has been read to its end, unless a read of it failed
ExeRead(d, mem) ==
    /\ d.kernel.type = "exe"
    /\ \A n \in d.kernel.header .. d.kernel.size - 1 : mem[n - d.kernel.header] = fileByte(d, n)
    /\ TableSafe(d) =>
            \A n \in 0 .. d.kernel.relBytes - 1 :
                mem[BaseAddr(d, "relocations") + n] = fileByte(d, d.kernel.relOffset + n)

LoaderTypes ==
    /\ disk \in BootDisks
    /\ phase \in {"main", "find", "ident", "relocate", "started", "failed"} \cup Loading
    /\ request \in [addr : Nat, len : Nat, asked : Nat, ended : BOOLEAN]
    /\ loaded \in Nat
    /\ DOMAIN memory = 0 .. MemorySize - 1

LoaderInv ==
    /\ LoaderTypes
    /\ (phase \in {"main", "find"}) => fat.sector = -1
    /\ (phase = "ident") => position = [pc |-> Head(disk.chain), po |-> 0] /\ fat.sector = -1
    /\ (phase \in Loading) =>
            /\ InFile(disk, position.pc) => FATRead(fat)
            /\ Reads(disk, phase, request, position, Done(phase, loaded, request))
            /\ Has(disk, phase, memory, Done(phase, loaded, request))
    /\ (phase = "relocate" /\ ~cut) => ExeRead(disk, memory)
    /\ KernelWhole

-----------------------------------------------------------------------------
(* The boot loader: bytes, sectors and clusters.                           *)

LEMMA DividedOnce ==
    ASSUME NEW n \in Nat, NEW k \in Nat \ {0}
    PROVE  n \div k \in Nat /\ n % k \in 0 .. k - 1 /\ n = k * (n \div k) + (n % k)
  OBVIOUS

LEMMA DividedSo ==
    ASSUME NEW k \in Nat \ {0}, NEW q \in Nat, NEW r \in 0 .. k - 1
    PROVE  (k * q + r) \div k = q /\ (k * q + r) % k = r /\ k * q + r \in Nat
  <1>1. PICK n \in Int : n = k * q + r
    OBVIOUS
  <1>2. n \in Nat
    BY <1>1, SMTT(30)
  <1>3. n = k * (n \div k) + (n % k) /\ n % k \in 0 .. k - 1 /\ n \div k \in Nat
    BY <1>2, DividedOnce
  <1>4. PICK p \in Nat : p = n \div k
    BY <1>3
  <1>5. p = q
    <2>1. ~(p < q)
      <3>1. p < q => k * (p + 1) <= k * q
        BY <1>4, SMTT(30)
      <3> QED
        BY <1>1, <1>3, <1>4, <3>1
    <2>2. ~(q < p)
      <3>1. q < p => k * (q + 1) <= k * p
        BY <1>4, SMTT(30)
      <3> QED
        BY <1>1, <1>3, <1>4, <3>1
    <2> QED
      BY <1>4, <2>1, <2>2
  <1> QED
    BY <1>1, <1>2, <1>3, <1>4, <1>5

\* A position of the kernel moves by m bytes inside its cluster, and inside its sector.
LEMMA MovedInside ==
    ASSUME NEW k \in Nat \ {0}, NEW n \in Nat, NEW m \in Nat, (n % k) + m < k
    PROVE  (n + m) \div k = n \div k /\ (n + m) % k = (n % k) + m
  <1>1. PICK q \in Nat, r \in 0 .. k - 1 : q = n \div k /\ r = n % k /\ n = k * q + r
    BY DividedOnce
  <1>2. r + m \in 0 .. k - 1
    BY <1>1
  <1>3. (k * q + (r + m)) \div k = q /\ (k * q + (r + m)) % k = r + m
    BY <1>2, DividedSo
  <1>4. n + m = k * q + (r + m)
    BY <1>1, SMTT(30)
  <1> QED
    BY <1>1, <1>3, <1>4

\* To the end of its cluster
LEMMA MovedToNext ==
    ASSUME NEW k \in Nat \ {0}, NEW n \in Nat, NEW m \in Nat, (n % k) + m = k
    PROVE  (n + m) \div k = n \div k + 1 /\ (n + m) % k = 0 /\ n + m = k * (n \div k + 1)
  <1>1. PICK q \in Nat, r \in 0 .. k - 1 : q = n \div k /\ r = n % k /\ n = k * q + r
    BY DividedOnce
  <1>2. n + m = k * (q + 1) + 0
    BY <1>1, SMTT(30)
  <1>3. (k * (q + 1) + 0) \div k = q + 1 /\ (k * (q + 1) + 0) % k = 0
    BY DividedSo
  <1>4. n + m = k * (q + 1)
    BY <1>2, SMTT(30)
  <1> QED
    BY <1>1, <1>2, <1>3, <1>4

\* A sector of a cluster: the place of byte n in it, and that a sector ends no later than its cluster
LEMMA SectorOf ==
    ASSUME NEW k \in Nat \ {0}, NEW c \in Nat \ {0}, NEW n \in Nat
    PROVE  /\ k * c \in Nat \ {0}
           /\ (n % (k * c)) % k = n % k
           /\ (n % (k * c)) + (k - (n % k)) <= k * c
  <1>1. k * c \in Nat /\ k * c # 0
    BY SMTT(30)
  <1>2. PICK b \in Nat \ {0} : b = k * c
    BY <1>1
  <1>3. PICK q \in Nat, r \in 0 .. b - 1 : q = n \div b /\ r = n % b /\ n = b * q + r
    BY DividedOnce
  <1>4. PICK p \in Nat, s \in 0 .. k - 1 : p = r \div k /\ s = r % k /\ r = k * p + s
    <2>1. r \in Nat
      BY <1>3
    <2> QED
      BY <2>1, DividedOnce
  <1>5. p < c
    <2>1. c <= p => k * c <= k * p
      BY SMTT(30)
    <2> QED
      BY <1>2, <1>3, <1>4, <2>1
  <1>6. n = k * (c * q + p) + s
    <2>1. PICK x \in Int, y \in Int : x = k * (c * q) /\ y = k * p
      BY SMTT(30)
    <2>2. (k * c) * q = x /\ k * (c * q + p) = x + y
      BY <2>1, SMTT(30)
    <2>3. b * q = x
      BY <1>2, <2>2
    <2>4. n = x + (y + s)
      BY <1>3, <1>4, <2>1, <2>3
    <2> QED
      BY <2>2, <2>4
  <1>7. n % k = s
    <2>1. c * q + p \in Nat
      BY SMTT(30)
    <2> QED
      BY <1>6, <2>1, DividedSo
  <1>8. k * (p + 1) <= k * c /\ k * (p + 1) = k * p + k
    BY <1>5, SMTT(30)
  <1>9. r + (k - s) <= b
    BY <1>2, <1>4, <1>8
  <1>10. n % (k * c) = r /\ n % k = s /\ r % k = s
    BY <1>2, <1>3, <1>4, <1>7
  <1> QED
    BY <1>1, <1>2, <1>9, <1>10

LEMMA ClusterEnds ==
    ASSUME NEW k \in Nat \ {0}, NEW l \in Nat, NEW q \in Nat, 1 + q \in 1 .. l
    PROVE  \E x \in Nat, y \in Nat : x = k * q /\ y = k * l /\ x + k <= y
  <1>1. k * q \in Nat /\ k * l \in Nat
    BY SMTT(30)
  <1>2. k * (q + 1) <= k * l /\ k * (q + 1) = k * q + k
    BY SMTT(30)
  <1> QED
    BY <1>1, <1>2

-----------------------------------------------------------------------------
(* The boot loader: the FAT.                                               *)

WidthOf(d) == IF FATType(d) = 12 THEN 4095 ELSE 65535

LEMMA Clusters ==
    ASSUME NEW d, DiskMade(d)
    PROVE  /\ FATType(d) \in {12, 16} /\ Len(d.chain) \in Nat \ {0} /\ DOMAIN d.chain = 1 .. Len(d.chain)
           /\ \A j \in 1 .. Len(d.chain) : d.chain[j] \in 2 .. RESV_CLUSTER(FATType(d)) - 1
           /\ d.end = 0 \/ d.end \in RESV_CLUSTER(FATType(d)) .. WidthOf(d)
           /\ RESV_CLUSTER(FATType(d)) < BAD_CLUSTER(FATType(d)) /\ BAD_CLUSTER(FATType(d)) < LAST_CLUSTER(FATType(d))
           /\ RESV_CLUSTER(FATType(d)) \in Nat /\ BAD_CLUSTER(FATType(d)) \in Nat /\ LAST_CLUSTER(FATType(d)) \in Nat
           /\ RESV_CLUSTER(FATType(d)) <= WidthOf(d) /\ WidthOf(d) \in {4095, 65535}
  <1>1. FATType(d) \in {12, 16}
    BY DEF FATType
  <1>2. Len(d.chain) \in Nat \ {0} /\ DOMAIN d.chain = 1 .. Len(d.chain)
    BY DEF DiskMade
  <1>3. \A j \in 1 .. Len(d.chain) : d.chain[j] \in 2 .. RESV_CLUSTER(FATType(d)) - 1
    <2>1. PICK clusters : clusters = 2 .. RESV_CLUSTER(FATType(d)) - 1
      OBVIOUS
    <2>2. PICK chain \in Seq(clusters) : chain = d.chain
      BY <2>1 DEF DiskMade
    <2>3. \A j \in 1 .. Len(chain) : chain[j] \in clusters
      OBVIOUS
    <2> QED
      BY <2>1, <2>2, <2>3
  <1>4. d.end = 0 \/ d.end \in RESV_CLUSTER(FATType(d)) .. WidthOf(d)
    BY DEF DiskMade, WidthOf
  <1> QED
    BY <1>1, <1>2, <1>3, <1>4 DEF RESV_CLUSTER, BAD_CLUSTER, LAST_CLUSTER, WidthOf

LEMMA EntryOfChain ==
    ASSUME NEW d, DiskMade(d), NEW j \in 1 .. Len(d.chain)
    PROVE  entryOf(d, d.chain[j]) = IF j < Len(d.chain) THEN d.chain[j + 1] ELSE d.end
  <1>1. {i \in DOMAIN d.chain : d.chain[i] = d.chain[j]} = {j}
    BY Clusters DEF DiskMade
  <1>2. (CHOOSE k \in {j} : TRUE) = j
    OBVIOUS
  <1> QED
    BY <1>1, <1>2 DEF entryOf

LEMMA EntryWidth ==
    ASSUME NEW d, DiskMade(d), NEW c
    PROVE  entryOf(d, c) \in 0 .. WidthOf(d)
  <1>1. CASE {j \in DOMAIN d.chain : d.chain[j] = c} = {}
    BY <1>1, Clusters DEF entryOf
  <1>2. CASE {j \in DOMAIN d.chain : d.chain[j] = c} # {}
    <2>1. PICK j \in 1 .. Len(d.chain) : d.chain[j] = c
      BY <1>2, Clusters
    <2>2. entryOf(d, c) = IF j < Len(d.chain) THEN d.chain[j + 1] ELSE d.end
      BY <2>1, EntryOfChain
    <2>3. j < Len(d.chain) => d.chain[j + 1] \in 2 .. RESV_CLUSTER(FATType(d)) - 1
      BY Clusters
    <2>4. PICK r \in Nat, w \in Nat : r = RESV_CLUSTER(FATType(d)) /\ w = WidthOf(d) /\ r <= w /\ (d.end = 0 \/ d.end \in r .. w)
      BY Clusters
    <2> QED
      BY <2>2, <2>3, <2>4
  <1> QED
    BY <1>1, <1>2

OffsetOf(c) == IF FATType(disk) = 12 THEN (c * 3) \div 2 ELSE c * 2

\* An entry of twelve bits is a byte and four bits
LEMMA TwelveBits ==
    ASSUME NEW n \in 0 .. 4095
    PROVE  n % 256 \in 0 .. 255 /\ n \div 256 \in 0 .. 15 /\ n = 256 * (n \div 256) + (n % 256)
  <1>1. n \div 256 \in 0 .. 15
    OBVIOUS
  <1>2. n % 256 \in 0 .. 255
    OBVIOUS
  <1>3. n = 256 * (n \div 256) + (n % 256)
    OBVIOUS
  <1> QED
    BY <1>1, <1>2, <1>3

\* Twelve bits under four of the next entry
LEMMA LowTwelve ==
    ASSUME NEW x \in 0 .. 255, NEW y \in 0 .. 15, NEW z \in 0 .. 15
    PROVE  (x + 256 * (y + 16 * z)) % 4096 = 256 * y + x
  OBVIOUS

\* What two bytes of the FAT say of a cluster
WordSays(c, word) == IF FATType(disk) = 16 THEN word ELSE IF c % 2 = 1 THEN word \div 16 ELSE word % 4096

LEMMA EntrySaid ==
    ASSUME DiskMade(disk), NEW c \in Nat
    PROVE  /\ OffsetOf(c) \in Nat
           /\ WordSays(c, fatByte(disk, OffsetOf(c)) + 256 * fatByte(disk, OffsetOf(c) + 1)) = entryOf(disk, c)
  <1>1. FATType(disk) \in {12, 16}
    BY DEF FATType
  <1>2. PICK e : e = entryOf(disk, c)
    OBVIOUS
  <1>3. e \in 0 .. WidthOf(disk)
    BY <1>2, EntryWidth
  <1>4. CASE FATType(disk) = 16
    <2>1. OffsetOf(c) = c * 2 /\ (c * 2) % 2 = 0 /\ (c * 2) \div 2 = c /\ (c * 2 + 1) % 2 = 1 /\ (c * 2 + 1) \div 2 = c
      BY <1>4 DEF OffsetOf
    <2>2. fatByte(disk, OffsetOf(c)) = e % 256 /\ fatByte(disk, OffsetOf(c) + 1) = e \div 256
      BY <1>2, <1>4, <2>1 DEF fatByte
    <2>3. (e % 256) + 256 * (e \div 256) = e
      BY <1>3 DEF WidthOf
    <2> QED
      BY <1>2, <1>4, <2>1, <2>2, <2>3 DEF WordSays
  <1>5. CASE FATType(disk) = 12 /\ c % 2 = 0
    <2>1. PICK h \in Nat : c = 2 * h
      BY <1>5
    <2>2. OffsetOf(c) = 3 * h /\ (3 * h) % 3 = 0 /\ (3 * h) \div 3 = h /\ (3 * h + 1) % 3 = 1 /\ (3 * h + 1) \div 3 = h
      BY <1>5, <2>1 DEF OffsetOf
    <2>3. PICK o \in 0 .. 4095 : o = entryOf(disk, 2 * h + 1)
      <3>1. entryOf(disk, 2 * h + 1) \in 0 .. WidthOf(disk)
        BY EntryWidth
      <3> QED
        BY <1>5, <3>1 DEF WidthOf
    <2>4. fatByte(disk, OffsetOf(c)) = e % 256
      BY <1>2, <1>5, <2>1, <2>2 DEF fatByte
    <2>5. fatByte(disk, OffsetOf(c) + 1) = (e \div 256) + 16 * (o % 16)
      BY <1>2, <1>5, <2>1, <2>2, <2>3 DEF fatByte
    <2>6. ((e % 256) + 256 * ((e \div 256) + 16 * (o % 16))) % 4096 = e
      <3>1. e \in 0 .. 4095
        BY <1>3, <1>5 DEF WidthOf
      <3>2. e % 256 \in 0 .. 255 /\ e \div 256 \in 0 .. 15 /\ e = 256 * (e \div 256) + (e % 256)
        BY <3>1, TwelveBits
      <3>3. PICK x : x = e % 256
        OBVIOUS
      <3>4. PICK y : y = e \div 256
        OBVIOUS
      <3>5. PICK z \in 0 .. 15 : z = o % 16
        OBVIOUS
      <3>6. x \in 0 .. 255 /\ y \in 0 .. 15 /\ e = 256 * y + x
        BY <3>2, <3>3, <3>4
      <3>7. (x + 256 * (y + 16 * z)) % 4096 = 256 * y + x
        BY <3>6, LowTwelve
      <3> QED
        BY <3>3, <3>4, <3>5, <3>6, <3>7
    <2> QED
      BY <1>2, <1>5, <2>2, <2>4, <2>5, <2>6 DEF WordSays
  <1>6. CASE FATType(disk) = 12 /\ c % 2 = 1
    <2>1. PICK h \in Nat : c = 2 * h + 1
      BY <1>6
    <2>2. OffsetOf(c) = 3 * h + 1 /\ (3 * h + 1) % 3 = 1 /\ (3 * h + 1) \div 3 = h /\ (3 * h + 2) % 3 = 2 /\ (3 * h + 2) \div 3 = h
      BY <1>6, <2>1 DEF OffsetOf
    <2>3. PICK u \in 0 .. 4095 : u = entryOf(disk, 2 * h)
      <3>1. entryOf(disk, 2 * h) \in 0 .. WidthOf(disk)
        BY EntryWidth
      <3> QED
        BY <1>6, <3>1 DEF WidthOf
    <2>4. fatByte(disk, OffsetOf(c)) = (u \div 256) + 16 * (e % 16)
      BY <1>2, <1>6, <2>1, <2>2, <2>3 DEF fatByte
    <2>5. fatByte(disk, OffsetOf(c) + 1) = e \div 16
      <3>1. OffsetOf(c) + 1 = 3 * h + 2
        BY <2>2
      <3> QED
        BY <1>2, <1>6, <2>1, <2>2, <3>1 DEF fatByte
    <2>6. (((u \div 256) + 16 * (e % 16)) + 256 * (e \div 16)) \div 16 = e
      <3>1. u \div 256 \in 0 .. 15
        OBVIOUS
      <3>2. PICK x \in 0 .. 15 : x = u \div 256
        BY <3>1
      <3>3. PICK y \in 0 .. 15, z \in Nat : y = e % 16 /\ z = e \div 16 /\ e = 16 * z + y
        BY <1>3, <1>6 DEF WidthOf
      <3>4. ((x + 16 * y) + 256 * z) \div 16 = y + 16 * z
        OBVIOUS
      <3> QED
        BY <3>2, <3>3, <3>4
    <2> QED
      BY <1>2, <1>6, <2>2, <2>4, <2>5, <2>6 DEF WordSays
  <1> QED
    BY <1>1, <1>4, <1>5, <1>6

\* The buffer has both bytes of an entry, and the second may be in its second half
LEMMA EntryRead ==
    ASSUME DiskMade(disk), NEW c \in Nat, NEW s, s = OffsetOf(c) \div SectorSize
    PROVE  s \in Nat /\ entryIn(c, <<s, s + 1>>) = entryOf(disk, c)
  <1>1. PICK o \in Nat : o = OffsetOf(c)
    BY EntrySaid
  <1>2. PICK i \in 0 .. SectorSize - 1 : i = o % SectorSize /\ o = SectorSize * s + i
    <2>1. PICK b \in Nat \ {0} : b = SectorSize
      BY BootAssumption
    <2>2. o % b \in 0 .. b - 1 /\ o = b * (o \div b) + (o % b)
      BY DividedOnce
    <2>3. s = o \div b
      BY <1>1, <2>1
    <2> QED
      BY <2>1, <2>2, <2>3
  <1>3. s \in Nat
    <2>1. o \div SectorSize \in Nat
      BY BootAssumption, DividedOnce
    <2> QED
      BY <1>1, <2>1
  <1> DEFINE byte(k) == LET t == <<s, s + 1>>[1 + (k \div SectorSize)]
                        IN  IF t = -1 THEN 0 ELSE fatByte(disk, t * SectorSize + (k % SectorSize))
  <1>4. byte(i) = fatByte(disk, o)
    <2>1. i \div SectorSize = 0 /\ i % SectorSize = i
      BY BootAssumption
    <2>2. s * SectorSize + i = o
      BY <1>2, <1>3, BootAssumption, SMTT(30)
    <2> QED
      BY <1>3, <2>1, <2>2
  <1>5. byte(i + 1) = fatByte(disk, o + 1)
    <2>1. CASE i + 1 < SectorSize
      <3>1. (i + 1) \div SectorSize = 0 /\ (i + 1) % SectorSize = i + 1
        BY <2>1, BootAssumption
      <3>2. s * SectorSize + (i + 1) = o + 1
        BY <1>2, <1>3, BootAssumption, SMTT(30)
      <3> QED
        BY <1>3, <3>1, <3>2
    <2>2. CASE i + 1 = SectorSize
      <3>1. (i + 1) \div SectorSize = 1 /\ (i + 1) % SectorSize = 0
        BY <2>2, BootAssumption
      <3>2. (s + 1) * SectorSize + 0 = o + 1
        BY <1>2, <1>3, <2>2, BootAssumption, SMTT(30)
      <3> QED
        BY <1>3, <3>1, <3>2
    <2> QED
      BY <2>1, <2>2, BootAssumption
  <1> HIDE DEF byte
  <1>6. entryIn(c, <<s, s + 1>>) = WordSays(c, byte(i) + 256 * byte(i + 1))
    BY <1>1, <1>2 DEF entryIn, WordSays, byte, OffsetOf
  <1> QED
    BY <1>1, <1>3, <1>4, <1>5, <1>6, EntrySaid

LEMMA Markers ==
    ASSUME DiskMade(disk)
    PROVE  \E r \in Nat, b \in Nat, l \in Nat : /\ r = RESV_CLUSTER(FATType(disk))
                                              /\ b = BAD_CLUSTER(FATType(disk)) /\ l = LAST_CLUSTER(FATType(disk))
                                              /\ r > 0 /\ r < b /\ b < l
  BY DEF FATType, RESV_CLUSTER, BAD_CLUSTER, LAST_CLUSTER

-----------------------------------------------------------------------------
(* The boot loader: read().                                                *)

\* The next cluster of a file is what the FAT says, or a bad one if it cannot be read.
LEMMA NextCluster ==
    ASSUME DiskMade(disk), NEW c \in Nat, FATRead(fat), nextFATCluster(c)
    PROVE  \/ position' = [pc |-> entryOf(disk, c), po |-> 0] /\ FATRead(fat')
           \/ position' = [pc |-> BAD_CLUSTER(FATType(disk)), po |-> 0]
  <1>1. PICK s : s = OffsetOf(c) \div SectorSize
    OBVIOUS
  <1>2. s \in Nat /\ entryIn(c, <<s, s + 1>>) = entryOf(disk, c)
    BY <1>1, EntryRead
  <1>3. \/ fat.sector = s /\ position' = [pc |-> entryIn(c, fat.buf), po |-> 0] /\ fat' = fat
        \/ position' = [pc |-> BAD_CLUSTER(FATType(disk)), po |-> 0]
        \/ /\ fat' = [sector |-> s, buf |-> <<s, s + 1>>]
           /\ position' = [pc |-> entryIn(c, <<s, s + 1>>), po |-> 0]
    BY <1>1 DEF nextFATCluster, OffsetOf, FATBuf
  <1> QED
    BY <1>2, <1>3 DEF FATRead

LEMMA Area ==
    ASSUME DiskMade(disk)
    PROVE  /\ ClusterSize(disk) \in Nat \ {0} /\ fileArea(disk) = ClusterSize(disk) * Len(disk.chain) /\ fileArea(disk) \in Nat
           /\ \A n \in Nat : n < fileArea(disk) => 1 + (n \div ClusterSize(disk)) \in 1 .. Len(disk.chain)
  <1>1. ClusterSize(disk) \in Nat \ {0}
    <2>1. PICK c \in Nat \ {0} : c = disk.spc
      BY DEF DiskMade
    <2>3. PICK b \in Nat \ {0} : b = SectorSize
      BY BootAssumption
    <2>2. b * c \in Nat \ {0}
      BY SectorOf
    <2> QED
      BY <2>1, <2>2, <2>3 DEF ClusterSize
  <1>2. fileArea(disk) = ClusterSize(disk) * Len(disk.chain)
    BY DEF fileArea, ClusterSize
  <1>3. PICK k \in Nat \ {0}, l \in Nat \ {0} : k = ClusterSize(disk) /\ l = Len(disk.chain)
    <2>1. Len(disk.chain) \in Nat \ {0}
      BY Clusters
    <2> QED
      BY <1>1, <2>1
  <1>4. k * l \in Nat
    BY SMTT(30)
  <1>5. ASSUME NEW n \in Nat, n < k * l
        PROVE  n \div k < l /\ n \div k \in Nat
    <2>1. n \div k \in Nat /\ n = k * (n \div k) + (n % k) /\ n % k \in 0 .. k - 1
      BY DividedOnce
    <2>2. PICK q \in Nat, r \in Nat : q = n \div k /\ n = k * q + r
      BY <2>1
    <2>3. l <= q => k * l <= k * q
      BY SMTT(30)
    <2> QED
      BY <1>4, <1>5, <2>2, <2>3
  <1>6. \A n \in Nat : n < fileArea(disk) => 1 + (n \div ClusterSize(disk)) \in 1 .. Len(disk.chain)
    <2>1. SUFFICES ASSUME NEW n \in Nat, n < fileArea(disk)
                   PROVE  1 + (n \div ClusterSize(disk)) \in 1 .. Len(disk.chain)
      OBVIOUS
    <2>2. n \div k < l /\ n \div k \in Nat
      BY <1>2, <1>3, <1>5, <2>1
    <2> QED
      BY <1>3, <2>2
  <1> QED
    BY <1>1, <1>2, <1>3, <1>4, <1>6

LEMMA AreaOf ==
    ASSUME disk \in BootDisks
    PROVE  fileArea(disk) \in Nat
  BY DisksAssumption, Area

LEMMA Measures ==
    ASSUME DiskMade(disk)
    PROVE  \E k \in Nat \ {0}, l \in Nat \ {0}, c \in Nat \ {0}, b \in Nat \ {0} :
              /\ k = ClusterSize(disk) /\ l = Len(disk.chain) /\ fileArea(disk) = k * l
              /\ c = disk.spc /\ b = SectorSize /\ k = b * c
  <1>1. ClusterSize(disk) \in Nat \ {0} /\ fileArea(disk) = ClusterSize(disk) * Len(disk.chain)
    BY Area
  <1>2. Len(disk.chain) \in Nat \ {0}
    BY Clusters
  <1>3. disk.spc \in Nat \ {0} /\ SectorSize \in Nat \ {0}
    BY BootAssumption DEF DiskMade
  <1>4. ClusterSize(disk) = SectorSize * disk.spc
    BY DEF ClusterSize
  <1> QED
    BY <1>1, <1>2, <1>3, <1>4

\* Past the end of a cluster read() is at the next one of the file, or at its end.
LEMMA PlaceOn ==
    ASSUME DiskMade(disk), NEW n \in Nat, NEW m \in Nat, n < fileArea(disk), (n % ClusterSize(disk)) + m = ClusterSize(disk),
           NEW place, place = [pc |-> entryOf(disk, disk.chain[1 + (n \div ClusterSize(disk))]), po |-> 0]
    PROVE  ReadsAt(disk, n + m, place)
  <1>1. PICK k \in Nat \ {0}, l \in Nat \ {0} : k = ClusterSize(disk) /\ l = Len(disk.chain) /\ fileArea(disk) = k * l
    <2>1. Len(disk.chain) \in Nat \ {0}
      BY Clusters
    <2> QED
      BY <2>1, Area
  <1>2. PICK q \in Nat : q = n \div k /\ 1 + q \in 1 .. l
    <2>1. n \div k \in Nat
      BY DividedOnce
    <2>2. 1 + (n \div k) \in 1 .. l
      BY <1>1, Area
    <2> QED
      BY <2>1, <2>2
  <1>3. (n + m) \div k = q + 1 /\ (n + m) % k = 0 /\ n + m = k * (q + 1)
    <2>1. (n % k) + m = k
      BY <1>1
    <2>2. (n + m) \div k = n \div k + 1 /\ (n + m) % k = 0 /\ n + m = k * (n \div k + 1)
      BY <2>1, MovedToNext
    <2> QED
      BY <1>2, <2>2
  <1>4. place.pc = (IF 1 + q < l THEN disk.chain[1 + (q + 1)] ELSE disk.end) /\ place = [pc |-> place.pc, po |-> 0]
    <2>1. PICK j \in 1 .. Len(disk.chain) : j = 1 + q
      BY <1>1, <1>2
    <2>2. entryOf(disk, disk.chain[j]) = IF j < Len(disk.chain) THEN disk.chain[j + 1] ELSE disk.end
      BY EntryOfChain
    <2>3. j + 1 = 1 + (q + 1)
      BY <2>1
    <2>4. place = [pc |-> entryOf(disk, disk.chain[j]), po |-> 0]
      BY <1>1, <1>2, <2>1
    <2> QED
      BY <1>1, <2>1, <2>2, <2>3, <2>4
  <1>5. CASE 1 + q < l
    <2>1. k * (q + 1) < k * l
      BY <1>5, SMTT(30)
    <2>2. place.pc \in 2 .. RESV_CLUSTER(FATType(disk)) - 1
      <3>1. 1 + (q + 1) \in 1 .. Len(disk.chain)
        BY <1>1, <1>5
      <3>2. disk.chain[1 + (q + 1)] \in 2 .. RESV_CLUSTER(FATType(disk)) - 1
        BY <3>1, Clusters
      <3> QED
        BY <1>4, <1>5, <3>2
    <2>3. ~AtLast(disk, place.pc) /\ place.pc \in Nat
      BY <2>2, Markers DEF AtLast
    <2>4. n + m < fileArea(disk)
      BY <1>1, <1>3, <2>1
    <2>5. place = [pc |-> disk.chain[1 + ((n + m) \div ClusterSize(disk))], po |-> (n + m) % ClusterSize(disk)]
      BY <1>1, <1>3, <1>4, <1>5
    <2> QED
      BY <2>3, <2>4, <2>5 DEF ReadsAt
  <1>6. CASE 1 + q = l
    <2>1. n + m = fileArea(disk)
      <3>1. q + 1 = l
        BY <1>6
      <3>2. k * (q + 1) = k * l
        BY <3>1
      <3> QED
        BY <1>1, <1>3, <3>2
    <2>2. place.pc = disk.end
      BY <1>4, <1>6
    <2>3. disk.end \in Nat /\ ~InFile(disk, disk.end)
      BY Markers, Clusters DEF InFile
    <2>4. n + m >= fileArea(disk)
      BY <2>1, Area
    <2> QED
      BY <2>2, <2>3, <2>4 DEF ReadsAt
  <1> QED
    BY <1>2, <1>5, <1>6

\* A sector, or as much of it as was asked for, goes where it should
LEMMA SectorRead ==
    ASSUME LoaderTypes, DiskMade(disk), NEW n \in Nat, ReadsAt(disk, n, position), FATRead(fat), readSector
    PROVE  \E m \in 1 .. request.len :
              /\ UNCHANGED <<disk, phase, loaded, cut>>
              /\ request' = [addr |-> request.addr + m, len |-> request.len - m, asked |-> request.asked, ended |-> FALSE]
              /\ n + m <= fileArea(disk)
              /\ ReadsAt(disk, n + m, position') /\ (InFile(disk, position'.pc) => FATRead(fat'))
              /\ DOMAIN memory' = DOMAIN memory
              /\ \A a \in DOMAIN memory :
                    memory'[a] = IF phase # "skip" /\ a \in request.addr .. request.addr + m - 1
                                 THEN fileByte(disk, n + (a - request.addr)) ELSE memory[a]
  <1>1. PICK k \in Nat \ {0}, l \in Nat \ {0}, c \in Nat \ {0}, b \in Nat \ {0} :
            k = ClusterSize(disk) /\ l = Len(disk.chain) /\ fileArea(disk) = k * l /\ c = disk.spc /\ b = SectorSize /\ k = b * c
    BY Measures
  <1>2. PICK q \in Nat, r \in 0 .. k - 1, o \in 0 .. b - 1 :
            q = n \div k /\ r = n % k /\ n = k * q + r /\ o = n % b
    BY DividedOnce, ZenonT(40)
  <1>3. r % b = o /\ r + (b - o) <= k
    <2>1. (n % (b * c)) % b = n % b /\ (n % (b * c)) + (b - (n % b)) <= b * c
      BY SectorOf
    <2> QED
      BY <1>1, <1>2, <2>1
  <1>4. InFile(disk, position.pc) /\ n < fileArea(disk) /\ position = [pc |-> disk.chain[1 + q], po |-> r] /\ 1 + q \in 1 .. l
    <2>1. InFile(disk, position.pc)
      BY DEF readSector, InFile
    <2> QED
      BY <1>1, <1>2, <2>1, Area DEF ReadsAt
  <1>5. PICK m \in Nat : m = (IF request.len < b - o THEN request.len ELSE b - o)
    BY <1>2 DEF LoaderTypes
  <1>6. m \in 1 .. request.len /\ o + m <= b /\ r + m <= k
    <2>1. PICK len \in Nat : len = request.len /\ len > 0
      BY DEF LoaderTypes, readSector
    <2> QED
      BY <1>2, <1>3, <1>5, <2>1
  <1>7. /\ UNCHANGED <<disk, phase, loaded, cut>>
        /\ request' = [request EXCEPT !.len = @ - m, !.addr = @ + m]
        /\ memory' = IF phase = "skip" THEN memory
                     ELSE [a \in DOMAIN memory |->
                            IF a \in request.addr .. request.addr + m - 1
                            THEN <<clusterStart(disk, position.pc) + r \div b, o + a - request.addr>> ELSE memory[a]]
        /\ IF r + m >= k THEN nextFATCluster(position.pc)
           ELSE position' = [position EXCEPT !.po = @ + m] /\ UNCHANGED fat
    BY <1>1, <1>3, <1>4, <1>5 DEF readSector
  <1>8. request' = [addr |-> request.addr + m, len |-> request.len - m, asked |-> request.asked, ended |-> FALSE]
    BY <1>7 DEF LoaderTypes, readSector
  <1>9. ASSUME NEW i \in 0 .. m - 1
        PROVE  fileByte(disk, n + i) = <<clusterStart(disk, position.pc) + r \div b, o + i>> /\ n + i < fileArea(disk)
    <2>1. r + i < k /\ o + i < b /\ i \in Nat
      BY <1>6
    <2>2. (n + i) \div k = q /\ (n + i) % k = r + i
      <3>1. (n % k) + i < k
        BY <1>2, <2>1
      <3>2. (n + i) \div k = n \div k /\ (n + i) % k = (n % k) + i
        BY <2>1, <3>1, MovedInside
      <3> QED
        BY <1>2, <3>2
    <2>3. (n + i) % b = o + i
      <3>1. (n % b) + i < b
        BY <1>2, <2>1
      <3>2. (n + i) % b = (n % b) + i
        BY <2>1, <3>1, MovedInside
      <3> QED
        BY <1>2, <3>2
    <2>4. (r + i) \div b = r \div b
      <3>1. (r % b) + i < b /\ r \in Nat
        BY <1>3, <2>1
      <3> QED
        BY <2>1, <3>1, MovedInside
    <2>5. fileByte(disk, n + i) = <<clusterStart(disk, disk.chain[1 + q]) + (r + i) \div b, o + i>>
      BY <1>1, <2>2, <2>3 DEF fileByte, ClusterSize
    <2>6. n + i < fileArea(disk)
      <3>1. PICK x \in Nat, y \in Nat : x = k * q /\ y = k * l /\ x + k <= y
        BY <1>4, ClusterEnds
      <3>2. n = x + r /\ fileArea(disk) = y
        BY <1>1, <1>2, <3>1
      <3>3. x + k <= y
        BY <3>1
      <3> QED
        BY <2>1, <3>2, <3>3
    <2> QED
      BY <1>4, <2>4, <2>5, <2>6
  <1>10. n + m <= fileArea(disk)
    <2>1. m - 1 \in 0 .. m - 1
      BY <1>6
    <2>2. n + (m - 1) < fileArea(disk)
      BY <1>9, <2>1
    <2> QED
      BY <1>6, <2>2, Area
  <1>11. ReadsAt(disk, n + m, position') /\ (InFile(disk, position'.pc) => FATRead(fat'))
    <2>1. CASE r + m < k
      <3>1. (n + m) \div k = q /\ (n + m) % k = r + m
        <4>1. (n % k) + m < k
          BY <1>2, <2>1
        <4>2. (n + m) \div k = n \div k /\ (n + m) % k = (n % k) + m
          BY <4>1, MovedInside
        <4> QED
          BY <1>2, <4>2
      <3>2. position' = [pc |-> disk.chain[1 + q], po |-> r + m] /\ fat' = fat
        BY <1>4, <1>7, <2>1
      <3>3. n + m < fileArea(disk)
        <4>1. PICK x \in Nat, y \in Nat : x = k * q /\ y = k * l /\ x + k <= y
          BY <1>4, ClusterEnds
        <4>2. n = x + r /\ fileArea(disk) = y
          BY <1>1, <1>2, <4>1
        <4>3. x + k <= y
          BY <4>1
        <4> QED
          BY <2>1, <4>2, <4>3
      <3>4. disk.chain[1 + q] \in 2 .. RESV_CLUSTER(FATType(disk)) - 1
        BY <1>1, <1>4, Clusters
      <3> QED
        <4>1. position'.pc \in Nat /\ ~AtLast(disk, position'.pc)
          BY <3>2, <3>4, Markers DEF AtLast
        <4>2. position' = [pc |-> disk.chain[1 + ((n + m) \div ClusterSize(disk))], po |-> (n + m) % ClusterSize(disk)]
          BY <1>1, <3>1, <3>2
        <4> QED
          BY <3>2, <3>3, <4>1, <4>2 DEF ReadsAt
    <2>2. CASE r + m = k
      <3>1. nextFATCluster(disk.chain[1 + q])
        BY <1>4, <1>6, <1>7, <2>2
      <3>2. disk.chain[1 + q] \in 2 .. RESV_CLUSTER(FATType(disk)) - 1
        BY <1>1, <1>4, Clusters
      <3>3. \/ position' = [pc |-> entryOf(disk, disk.chain[1 + q]), po |-> 0] /\ FATRead(fat')
            \/ position' = [pc |-> BAD_CLUSTER(FATType(disk)), po |-> 0]
        BY <3>1, <3>2, NextCluster, Clusters
      <3>4. CASE position' = [pc |-> entryOf(disk, disk.chain[1 + q]), po |-> 0] /\ FATRead(fat')
        <4>1. (n % ClusterSize(disk)) + m = ClusterSize(disk) /\ q = n \div ClusterSize(disk)
          BY <1>1, <1>2, <2>2
        <4>2. position' = [pc |-> entryOf(disk, disk.chain[1 + (n \div ClusterSize(disk))]), po |-> 0]
          BY <3>4, <4>1
        <4> QED
          BY <1>4, <3>4, <4>1, <4>2, PlaceOn
      <3>5. CASE position' = [pc |-> BAD_CLUSTER(FATType(disk)), po |-> 0]
        <4>1. position'.pc = BAD_CLUSTER(FATType(disk))
          BY <3>5
        <4>2. position'.pc \in Nat /\ ~InFile(disk, position'.pc) /\ ~AtLast(disk, position'.pc)
          BY <4>1, Markers DEF InFile, AtLast
        <4> QED
          BY <4>2 DEF ReadsAt
      <3> QED
        BY <3>3, <3>4, <3>5
    <2> QED
      BY <1>6, <2>1, <2>2
  <1>12. DOMAIN memory' = DOMAIN memory
    BY <1>7
  <1>13. ASSUME NEW a \in DOMAIN memory
         PROVE  memory'[a] = IF phase # "skip" /\ a \in request.addr .. request.addr + m - 1
                             THEN fileByte(disk, n + (a - request.addr)) ELSE memory[a]
    <2>1. CASE phase # "skip" /\ a \in request.addr .. request.addr + m - 1
      <3>1. a - request.addr \in 0 .. m - 1 /\ o + a - request.addr = o + (a - request.addr)
        BY <2>1 DEF LoaderTypes
      <3>2. fileByte(disk, n + (a - request.addr)) = <<clusterStart(disk, position.pc) + r \div b, o + (a - request.addr)>>
        BY <1>9, <3>1
      <3>3. memory'[a] = <<clusterStart(disk, position.pc) + r \div b, o + a - request.addr>>
        BY <1>7, <2>1
      <3> QED
        BY <2>1, <3>1, <3>2, <3>3
    <2>2. CASE ~(phase # "skip" /\ a \in request.addr .. request.addr + m - 1)
      BY <1>7, <2>2
    <2> QED
      BY <2>1, <2>2
  <1> QED
    BY <1>6, <1>7, <1>8, <1>10, <1>11, <1>12, <1>13

-----------------------------------------------------------------------------
(* The boot loader: the kernel in memory.                                  *)

LEMMA ExeFacts ==
    ASSUME disk \in BootDisks, Kernel.type = "exe"
    PROVE  \E relOffset \in 0 .. SectorSize - 1, relBytes \in Nat, header \in Nat, size \in Nat, table \in Nat :
              /\ relOffset = disk.kernel.relOffset /\ relBytes = disk.kernel.relBytes /\ header = disk.kernel.header
              /\ size = disk.kernel.size /\ table = BaseAddr(disk, "relocations") /\ table = relTable
              /\ relOffset + relBytes <= header /\ size - header <= MemorySize /\ table + relBytes <= MemorySize
              /\ AtLast(disk, disk.end) => size <= fileArea(disk)
  <1>1. ExeMade(disk, disk.kernel)
    BY DisksAssumption DEF Kernel
  <1>2. PICK k \in [type : {"exe"}, size : Nat, fileBlocks : Nat, relOffset : 0 .. SectorSize - 1, relBytes : Nat, header : Nat] :
            k = disk.kernel
    BY <1>1 DEF ExeMade
  <1>3. (k.fileBlocks + 1) * SectorSize \in Nat
    <2>1. PICK f \in Nat, b \in Nat : f = k.fileBlocks + 1 /\ b = SectorSize
      BY BootAssumption
    <2>2. f * b \in Nat
      BY SMTT(30)
    <2> QED
      BY <2>1, <2>2
  <1>4. k.relOffset \in 0 .. SectorSize - 1 /\ k.relBytes \in Nat /\ k.header \in Nat /\ k.size \in Nat
    OBVIOUS
  <1> QED
    BY <1>1, <1>2, <1>3, <1>4 DEF ExeMade, AtLast, BaseAddr, relTable, Kernel, fileArea

BytesOf(section) == section.paddr .. section.paddr + section.size - 1

LEMMA CoffFacts ==
    ASSUME disk \in BootDisks, Kernel.type = "coff"
    PROVE  /\ \E ts \in Nat, tp \in Nat, ds \in Nat, dp \in Nat, bs \in Nat, bp \in Nat :
                /\ ts = disk.kernel.text.size /\ tp = disk.kernel.text.paddr /\ ds = disk.kernel.data.size
                /\ dp = disk.kernel.data.paddr /\ bs = disk.kernel.bss.size /\ bp = disk.kernel.bss.paddr
           /\ \A a \in BytesOf(disk.kernel.text) :
                a \in 0 .. MemorySize - 1 /\ a \notin BytesOf(disk.kernel.data) /\ a \notin BytesOf(disk.kernel.bss)
           /\ \A a \in BytesOf(disk.kernel.data) : a \in 0 .. MemorySize - 1 /\ a \notin BytesOf(disk.kernel.bss)
           /\ \A a \in BytesOf(disk.kernel.bss) : a \in 0 .. MemorySize - 1
  <1>1. CoffMade(disk.kernel)
    BY DisksAssumption DEF Kernel
  <1>2. PICK k \in [type : {"coff"}, text : [size : Nat, paddr : Nat], data : [size : Nat, paddr : Nat], bss : [size : Nat, paddr : Nat]] :
            k = disk.kernel
    BY <1>1 DEF CoffMade
  <1>3. PICK t \in [size : Nat, paddr : Nat], d \in [size : Nat, paddr : Nat], b \in [size : Nat, paddr : Nat] :
            t = k.text /\ d = k.data /\ b = k.bss
    OBVIOUS
  <1>4. t.size \in Nat /\ t.paddr \in Nat /\ d.size \in Nat /\ d.paddr \in Nat /\ b.size \in Nat /\ b.paddr \in Nat
    OBVIOUS
  <1>5. \A a \in BytesOf(t) : a \in 0 .. MemorySize - 1 /\ a \notin BytesOf(d) /\ a \notin BytesOf(b)
    BY <1>1, <1>2, <1>3 DEF CoffMade, BytesOf
  <1>6. \A a \in BytesOf(d) : a \in 0 .. MemorySize - 1 /\ a \notin BytesOf(b)
    BY <1>1, <1>2, <1>3 DEF CoffMade, BytesOf
  <1>7. \A a \in BytesOf(b) : a \in 0 .. MemorySize - 1
    BY <1>1, <1>2, <1>3 DEF CoffMade, BytesOf
  <1> QED
    BY <1>2, <1>3, <1>4, <1>5, <1>6, <1>7

\* Every phase begins, and ends, at a number of bytes
LEMMA PhaseFacts ==
    ASSUME disk \in BootDisks, NEW ph \in Loading, Kernel.type = IF ph \in {"text", "data"} THEN "coff" ELSE "exe"
    PROVE  BaseByte(disk, ph) \in Nat /\ BaseAddr(disk, ph) \in Nat /\ SizeIn(disk, ph) \in Nat
  <1>1. DiskMade(disk)
    BY DisksAssumption
  <1>2. CASE ph \in {"text", "data"}
    <2>1. Kernel.type = "coff"
      BY <1>2
    <2> QED
      BY <1>2, <2>1, CoffFacts, BootAssumption DEF BaseByte, BaseAddr, SizeIn
  <1>3. CASE ph \in {"relocations", "skip", "load"}
    <2>1. Kernel.type = "exe"
      BY <1>3
    <2> QED
      BY <1>1, <1>3, <2>1, ExeFacts, Area, BootAssumption, SMTT(30) DEF BaseByte, BaseAddr, SizeIn
  <1> QED
    BY <1>2, <1>3 DEF Loading

LEMMA BroughtOn ==
    ASSUME NEW d, NEW mem, NEW next, NEW addr \in Nat, NEW from \in Nat, NEW k \in Nat, NEW m \in Nat,
           Brought(d, mem, addr, from, k),
           \A a \in 0 .. MemorySize - 1 :
              next[a] = IF a \in addr + k .. addr + k + m - 1 THEN fileByte(d, from + k + (a - (addr + k))) ELSE mem[a]
    PROVE  Brought(d, next, addr, from, k + m)
  <1>1. SUFFICES ASSUME NEW n \in 0 .. k + m - 1, addr + n < MemorySize, from + n < fileArea(d)
                 PROVE  next[addr + n] = fileByte(d, from + n)
    BY DEF Brought
  <1>2. addr + n \in 0 .. MemorySize - 1
    BY <1>1, BootAssumption
  <1>3. CASE n < k
    <2>1. addr + n \notin addr + k .. addr + k + m - 1 /\ n \in 0 .. k - 1
      BY <1>3
    <2>2. mem[addr + n] = fileByte(d, from + n)
      BY <1>1, <2>1 DEF Brought
    <2> QED
      BY <1>2, <2>1, <2>2
  <1>4. CASE n >= k
    <2>1. addr + n \in addr + k .. addr + k + m - 1 /\ from + k + ((addr + n) - (addr + k)) = from + n
      BY <1>4
    <2> QED
      BY <1>2, <2>1
  <1> QED
    BY <1>3, <1>4

LEMMA BroughtKept ==
    ASSUME NEW d, NEW mem, NEW next, NEW addr \in Nat, NEW from \in Nat, NEW k \in Nat,
           Brought(d, mem, addr, from, k),
           \A a \in 0 .. MemorySize - 1 : a \in addr .. addr + k - 1 => next[a] = mem[a]
    PROVE  Brought(d, next, addr, from, k)
  <1>1. SUFFICES ASSUME NEW n \in 0 .. k - 1, addr + n < MemorySize, from + n < fileArea(d)
                 PROVE  next[addr + n] = fileByte(d, from + n)
    BY DEF Brought
  <1>2. addr + n \in 0 .. MemorySize - 1 /\ addr + n \in addr .. addr + k - 1
    BY <1>1, BootAssumption
  <1>3. mem[addr + n] = fileByte(d, from + n)
    BY <1>1 DEF Brought
  <1> QED
    BY <1>2, <1>3

\* What a phase is behind when it reads on
LEMMA ReadingAt ==
    ASSUME LoaderInv, phase \in Loading
    PROVE  \E b \in Nat, k \in Nat, s \in Nat :
              /\ b = BaseByte(disk, phase) /\ k = Done(phase, loaded, request) /\ s = SizeIn(disk, phase)
              /\ Reads(disk, phase, request, position, k) /\ Has(disk, phase, memory, k)
              /\ DiskMade(disk) /\ BaseAddr(disk, phase) \in Nat
  <1>1. DiskMade(disk) /\ disk \in BootDisks
    BY DisksAssumption DEF LoaderInv, LoaderTypes
  <1>2. Reads(disk, phase, request, position, Done(phase, loaded, request)) /\ Has(disk, phase, memory, Done(phase, loaded, request))
    BY DEF LoaderInv
  <1>3. PICK len \in Nat, asked \in Nat, l \in Nat : len = request.len /\ asked = request.asked /\ l = loaded /\ len <= asked
    BY <1>2 DEF LoaderInv, LoaderTypes, Reads
  <1>4. Done(phase, loaded, request) \in Nat
    BY <1>3 DEF Done
  <1>5. Kernel.type = IF phase \in {"text", "data"} THEN "coff" ELSE "exe"
    BY <1>2 DEF Reads, Kernel
  <1>6. BaseByte(disk, phase) \in Nat /\ BaseAddr(disk, phase) \in Nat /\ SizeIn(disk, phase) \in Nat
    BY <1>1, <1>5, PhaseFacts
  <1> QED
    BY <1>1, <1>2, <1>4, <1>6

\* A sector is read.
LEMMA BytesRead ==
    ASSUME LoaderInv, readSector
    PROVE  LoaderInv'
  <1>1. phase \in Loading /\ InFile(disk, position.pc) /\ FATRead(fat) /\ LoaderTypes
    BY DEF readSector, InFile, LoaderInv
  <1>2. PICK b \in Nat, k \in Nat, s \in Nat :
              /\ b = BaseByte(disk, phase) /\ k = Done(phase, loaded, request) /\ s = SizeIn(disk, phase)
              /\ Reads(disk, phase, request, position, k) /\ Has(disk, phase, memory, k)
              /\ DiskMade(disk) /\ BaseAddr(disk, phase) \in Nat
    BY <1>1, ReadingAt
  <1>3. ReadsAt(disk, b + k, position) /\ b + k \in Nat
    BY <1>2 DEF Reads
  <1>4. PICK m \in 1 .. request.len :
              /\ UNCHANGED <<disk, phase, loaded, cut>>
              /\ request' = [addr |-> request.addr + m, len |-> request.len - m, asked |-> request.asked, ended |-> FALSE]
              /\ b + k + m <= fileArea(disk)
              /\ ReadsAt(disk, b + k + m, position') /\ (InFile(disk, position'.pc) => FATRead(fat'))
              /\ DOMAIN memory' = DOMAIN memory
              /\ \A a \in DOMAIN memory :
                    memory'[a] = IF phase # "skip" /\ a \in request.addr .. request.addr + m - 1
                                 THEN fileByte(disk, b + k + (a - request.addr)) ELSE memory[a]
    BY <1>1, <1>2, <1>3, SectorRead
  <1>5. PICK addr \in Nat, len \in Nat, asked \in Nat :
            addr = request.addr /\ len = request.len /\ asked = request.asked /\ m \in 1 .. len /\ len <= asked
    BY <1>1, <1>2, <1>4 DEF LoaderTypes, Reads
  <1>6. Done(phase, loaded, request') = k + m /\ k + m \in Nat
    <2>1. PICK l \in Nat : l = loaded
      BY <1>1 DEF LoaderTypes
    <2> QED
      BY <1>2, <1>4, <1>5, <2>1 DEF Done
  <1>7. Reads(disk, phase, request', position', k + m)
    <2>1. b + (k + m) = b + k + m
      OBVIOUS
    <2>2. request'.addr = addr + m /\ request'.len = len - m /\ request'.asked = asked /\ ~request'.ended
      BY <1>4, <1>5
    <2>3. phase # "skip" => addr = BaseAddr(disk, phase) + k
      BY <1>2, <1>5 DEF Reads
    <2>4. phase # "skip" => request'.addr = BaseAddr(disk, phase) + (k + m)
      BY <1>2, <2>2, <2>3
    <2>5. phase # "load" => b + (k + m) <= fileArea(disk) /\ (k + m) + request'.len <= s
      BY <1>2, <1>4, <1>5, <2>1, <2>2 DEF Reads
    <2>6. request'.len <= request'.asked
      BY <1>5, <2>2
    <2> QED
      BY <1>2, <1>4, <1>5, <2>1, <2>2, <2>4, <2>5, <2>6 DEF Reads
  <1>8. Has(disk, phase, memory', k + m)
    <2>1. DOMAIN memory = 0 .. MemorySize - 1
      BY <1>1 DEF LoaderTypes
    <2>2. PICK base \in Nat : base = BaseAddr(disk, phase) /\ (phase # "skip" => addr = base + k)
      BY <1>2, <1>5 DEF Reads
    <2>3. \A a \in 0 .. MemorySize - 1 :
              memory'[a] = IF phase # "skip" /\ a \in addr .. addr + m - 1
                           THEN fileByte(disk, b + k + (a - addr)) ELSE memory[a]
      BY <1>4, <1>5, <2>1
    <2>4. phase # "skip" => Brought(disk, memory', base, b, k + m)
      <3>1. SUFFICES ASSUME phase # "skip"
                     PROVE  Brought(disk, memory', base, b, k + m)
        OBVIOUS
      <3>2. Brought(disk, memory, base, b, k)
        BY <1>2, <2>2, <3>1 DEF Has
      <3>3. \A a \in 0 .. MemorySize - 1 :
              memory'[a] = IF a \in base + k .. base + k + m - 1 THEN fileByte(disk, b + k + (a - (base + k))) ELSE memory[a]
        BY <2>2, <2>3, <3>1
      <3>4. m \in Nat
        BY <1>5
      <3> QED
        BY <3>2, <3>3, <3>4, BroughtOn
    <2>5. phase = "skip" => TableRead(disk, memory')
      <3>1. SUFFICES ASSUME phase = "skip"
                     PROVE  TableRead(disk, memory')
        OBVIOUS
      <3>2. \A a \in 0 .. MemorySize - 1 : memory'[a] = memory[a]
        BY <2>3, <3>1
      <3>3. TableRead(disk, memory) /\ Kernel.type = "exe" /\ disk \in BootDisks
        BY <1>1, <1>2, <3>1 DEF Has, Reads, Kernel, LoaderTypes
      <3>4. PICK relOffset \in Nat, relBytes \in Nat, table \in Nat :
                relOffset = disk.kernel.relOffset /\ relBytes = disk.kernel.relBytes /\ table = BaseAddr(disk, "relocations")
        BY <3>3, ExeFacts
      <3> QED
        BY <3>2, <3>3, <3>4, BroughtKept DEF TableRead
    <2>6. phase = "load" /\ TableSafe(disk) => TableRead(disk, memory')
      <3>1. SUFFICES ASSUME phase = "load", TableSafe(disk)
                     PROVE  TableRead(disk, memory')
        OBVIOUS
      <3>2. TableRead(disk, memory) /\ Kernel.type = "exe" /\ disk \in BootDisks
        BY <1>1, <1>2, <3>1 DEF Has, Reads, Kernel, LoaderTypes
      <3>3. PICK relOffset \in 0 .. SectorSize - 1, relBytes \in Nat, header \in Nat, size \in Nat, table \in Nat :
              /\ relOffset = disk.kernel.relOffset /\ relBytes = disk.kernel.relBytes /\ header = disk.kernel.header
              /\ size = disk.kernel.size /\ table = BaseAddr(disk, "relocations") /\ table = relTable
              /\ relOffset + relBytes <= header /\ size - header <= MemorySize /\ table + relBytes <= MemorySize
              /\ AtLast(disk, disk.end) => size <= fileArea(disk)
        BY <3>2, ExeFacts
      <3>4. base = 0 /\ b = header
        BY <1>2, <2>2, <3>1, <3>3 DEF BaseAddr, BaseByte
      <3>5. addr + m <= table
        <4>1. PICK area \in Nat : area = fileArea(disk)
          BY <1>2, Area
        <4>2. area - header <= table /\ header + k + m <= area
          BY <1>4, <3>1, <3>3, <3>4, <4>1 DEF TableSafe
        <4> QED
          BY <2>2, <3>1, <3>4, <4>2
      <3>6. \A a \in 0 .. MemorySize - 1 : a \in table .. table + relBytes - 1 => memory'[a] = memory[a]
        BY <2>3, <3>5
      <3> QED
        BY <3>2, <3>3, <3>6, BroughtKept DEF TableRead
    <2>7. phase = "data" => TextRead(disk, memory')
      <3>1. SUFFICES ASSUME phase = "data"
                     PROVE  TextRead(disk, memory')
        OBVIOUS
      <3>2. TextRead(disk, memory) /\ Kernel.type = "coff" /\ disk \in BootDisks
        BY <1>1, <1>2, <3>1 DEF Has, Reads, Kernel, LoaderTypes
      <3>3. PICK ts \in Nat, tp \in Nat, ds \in Nat, dp \in Nat :
              /\ ts = disk.kernel.text.size /\ tp = disk.kernel.text.paddr /\ ds = disk.kernel.data.size
              /\ dp = disk.kernel.data.paddr
        BY <3>2, CoffFacts
      <3>4. \A a \in tp .. tp + ts - 1 : a \notin dp .. dp + ds - 1
        BY <3>2, <3>3, CoffFacts DEF BytesOf
      <3>5. base = dp /\ s = ds
        BY <1>2, <2>2, <3>1, <3>3 DEF BaseAddr, SizeIn
      <3>6. k + len <= ds
        BY <1>2, <1>5, <3>1, <3>5 DEF Reads
      <3>7. addr = dp + k /\ addr + m - 1 <= dp + ds - 1
        BY <1>5, <2>2, <3>1, <3>5, <3>6
      <3>8. \A a \in 0 .. MemorySize - 1 : a \in tp .. tp + ts - 1 => memory'[a] = memory[a]
        BY <2>3, <3>4, <3>7
      <3> QED
        BY <3>2, <3>3, <3>8, BroughtKept, BootAssumption DEF TextRead
    <2> QED
      BY <1>2, <2>2, <2>4, <2>5, <2>6, <2>7 DEF Has
  <1>9. LoaderTypes'
    <2>1. request' \in [addr : Nat, len : Nat, asked : Nat, ended : BOOLEAN]
      BY <1>4, <1>5
    <2> QED
      BY <1>1, <1>4, <2>1 DEF LoaderTypes
  <1> QED
    BY <1>1, <1>4, <1>6, <1>7, <1>8, <1>9 DEF LoaderInv, KernelWhole, Loading

\* The first bytes of the kernel are in its first cluster.
LEMMA PlaceFirst ==
    ASSUME DiskMade(disk), NEW n \in 0 .. SectorSize - 1
    PROVE  ReadsAt(disk, n, [pc |-> Head(disk.chain), po |-> n]) /\ n < fileArea(disk)
  <1>1. PICK k \in Nat \ {0}, l \in Nat \ {0}, c \in Nat \ {0}, b \in Nat \ {0} :
            k = ClusterSize(disk) /\ l = Len(disk.chain) /\ fileArea(disk) = k * l /\ c = disk.spc /\ b = SectorSize /\ k = b * c
    BY Measures
  <1>2. b <= k /\ k <= k * l
    BY <1>1, SMTT(30)
  <1>3. n \in 0 .. k - 1 /\ n < fileArea(disk)
    BY <1>1, <1>2, Area, SMTT(30)
  <1>4. n \div k = 0 /\ n % k = n
    BY <1>3
  <1>5. Head(disk.chain) = disk.chain[1] /\ disk.chain[1] \in 2 .. RESV_CLUSTER(FATType(disk)) - 1
    <2>1. 1 \in 1 .. Len(disk.chain)
      BY <1>1
    <2> QED
      BY <2>1, Clusters DEF DiskMade
  <1>6. Head(disk.chain) \in Nat /\ ~AtLast(disk, Head(disk.chain))
    BY <1>5, Markers DEF AtLast
  <1>7. PICK place : place = [pc |-> Head(disk.chain), po |-> n]
    OBVIOUS
  <1>8. place.pc \in Nat /\ ~AtLast(disk, place.pc)
    BY <1>6, <1>7
  <1>9. place = [pc |-> disk.chain[1 + (n \div ClusterSize(disk))], po |-> n % ClusterSize(disk)]
    BY <1>1, <1>4, <1>5, <1>7
  <1> QED
    BY <1>3, <1>7, <1>8, <1>9 DEF ReadsAt

\* An .EXE whose table is in memory is read on from byte `passed`.
LEMMA SkipsOn ==
    ASSUME LoaderTypes, Kernel.type = "exe", NEW passed \in Nat, passed <= disk.kernel.header, passed <= fileArea(disk),
           ReadsAt(disk, passed, position'), InFile(disk, position'.pc) => FATRead(fat'),
           TableRead(disk, memory), skipFrom(passed), UNCHANGED <<disk, memory>>
    PROVE  LoaderInv'
  <1>1. PICK header \in Nat, b \in Nat : header = disk.kernel.header /\ b = SectorSize
    BY ExeFacts, BootAssumption DEF LoaderTypes
  <1>2. CASE passed < header
    <2>1. PICK len \in Nat : len = (IF header - passed < b THEN header - passed ELSE b) /\ passed + len <= header
      BY <1>1, <1>2
    <2>2. phase' = "skip" /\ loaded' = passed /\ request' = [addr |-> 0, len |-> len, asked |-> len, ended |-> FALSE]
      BY <1>1, <1>2, <2>1 DEF skipFrom, Ask, Kernel
    <2>3. Done(phase', loaded', request') = passed
      BY <2>2 DEF Done
    <2>4. Reads(disk, "skip", request', position', passed)
      BY <1>1, <2>1, <2>2 DEF Reads, BaseByte, SizeIn, Kernel
    <2>5. Has(disk, "skip", memory', passed)
      BY DEF Has
    <2>6. LoaderTypes'
      BY <2>2 DEF LoaderTypes, Loading
    <2> QED
      BY <2>2, <2>3, <2>4, <2>5, <2>6 DEF LoaderInv, KernelWhole
  <1>3. CASE passed = header
    <2>1. phase' = "load" /\ loaded' = 0 /\ request' = [addr |-> 0, len |-> b, asked |-> b, ended |-> FALSE]
      BY <1>1, <1>3 DEF skipFrom, Ask, Kernel
    <2>2. Done(phase', loaded', request') = 0
      BY <2>1 DEF Done
    <2>3. Reads(disk, "load", request', position', 0)
      BY <1>1, <1>3, <2>1 DEF Reads, BaseByte, BaseAddr, Kernel
    <2>4. Has(disk, "load", memory', 0)
      BY DEF Has, Brought
    <2>5. LoaderTypes'
      BY <2>1 DEF LoaderTypes, Loading
    <2> QED
      BY <2>1, <2>2, <2>3, <2>4, <2>5 DEF LoaderInv, KernelWhole
  <1> QED
    BY <1>1, <1>2, <1>3

\* A COFF program is read on from byte `passed` of a section, or started.
LEMMA SectionsOn ==
    ASSUME LoaderTypes, Kernel.type = "coff", NEW section \in {"text", "data"}, NEW passed \in Nat,
           passed <= SizeIn(disk, section), BaseByte(disk, section) + passed <= fileArea(disk),
           ReadsAt(disk, BaseByte(disk, section) + passed, position'), InFile(disk, position'.pc) => FATRead(fat'),
           Brought(disk, memory, BaseAddr(disk, section), BaseByte(disk, section), passed),
           section = "data" => TextRead(disk, memory),
           sectionFrom(section, passed), UNCHANGED disk
    PROVE  LoaderInv'
  <1>1. PICK ts \in Nat, tp \in Nat, ds \in Nat, dp \in Nat, bs \in Nat, bp \in Nat :
            /\ ts = disk.kernel.text.size /\ tp = disk.kernel.text.paddr /\ ds = disk.kernel.data.size
            /\ dp = disk.kernel.data.paddr /\ bs = disk.kernel.bss.size /\ bp = disk.kernel.bss.paddr
    BY CoffFacts DEF LoaderTypes
  <1>2. PICK size \in Nat, paddr \in Nat, b \in Nat :
            /\ size = disk.kernel[section].size /\ paddr = disk.kernel[section].paddr /\ b = SectorSize
            /\ size = SizeIn(disk, section) /\ paddr = BaseAddr(disk, section)
    BY <1>1, BootAssumption DEF SizeIn, BaseAddr
  <1>3. CASE passed < size
    <2>1. PICK len \in Nat : len = (IF size - passed < b THEN size - passed ELSE b) /\ passed + len <= size
      BY <1>2, <1>3
    <2>2. /\ phase' = section /\ loaded' = passed /\ memory' = memory
          /\ request' = [addr |-> paddr + passed, len |-> len, asked |-> len, ended |-> FALSE]
      BY <1>2, <1>3, <2>1 DEF sectionFrom, Ask, Kernel, sizeOf
    <2>3. Done(phase', loaded', request') = passed
      BY <2>2 DEF Done
    <2>4. Reads(disk, section, request', position', passed)
      BY <1>2, <2>1, <2>2 DEF Reads, Kernel
    <2>5. Has(disk, section, memory', passed)
      BY <2>2 DEF Has
    <2>6. LoaderTypes'
      BY <2>2 DEF LoaderTypes, Loading
    <2> QED
      BY <2>2, <2>3, <2>4, <2>5, <2>6 DEF LoaderInv, KernelWhole
  <1>4. CASE passed = size /\ section = "text" /\ ds > 0
    <2>1. PICK len \in Nat : len = (IF ds < b THEN ds ELSE b) /\ len <= ds
      BY <1>2
    <2>2. /\ phase' = "data" /\ loaded' = 0 /\ memory' = memory
          /\ request' = [addr |-> dp, len |-> len, asked |-> len, ended |-> FALSE]
      BY <1>1, <1>2, <1>4, <2>1 DEF sectionFrom, Ask, Kernel, sizeOf
    <2>3. Done(phase', loaded', request') = 0
      BY <2>2 DEF Done
    <2>4. BaseByte(disk, "text") = CoffHeader /\ BaseByte(disk, "data") = CoffHeader + ts /\ size = ts /\ BaseAddr(disk, "text") = tp
      BY <1>1, <1>2, <1>4 DEF BaseByte, BaseAddr
    <2>5. ReadsAt(disk, BaseByte(disk, "data") + 0, position') /\ BaseByte(disk, "data") + 0 <= fileArea(disk)
      BY <1>4, <2>4, BootAssumption
    <2>6. Reads(disk, "data", request', position', 0)
      BY <1>1, <2>1, <2>2, <2>5 DEF Reads, BaseAddr, SizeIn, Kernel
    <2>7. TextRead(disk, memory)
      BY <1>1, <1>4, <2>4 DEF TextRead
    <2>8. Has(disk, "data", memory', 0)
      BY <2>2, <2>7 DEF Has, Brought
    <2>9. LoaderTypes'
      BY <1>1, <2>2 DEF LoaderTypes, Loading
    <2> QED
      BY <2>2, <2>3, <2>6, <2>8, <2>9 DEF LoaderInv, KernelWhole
  <1>5. CASE passed = size /\ ~(section = "text" /\ ds > 0)
    <2>1. /\ phase' = "started" /\ request' = NoRequest /\ loaded' = 0
          /\ memory' = [a \in DOMAIN memory |-> IF a - bp \in 0 .. bs - 1 THEN Zero ELSE memory[a]]
      BY <1>1, <1>2, <1>5 DEF sectionFrom, Kernel, sizeOf
    <2>2. LoaderTypes'
      BY <2>1 DEF LoaderTypes, NoRequest
    <2>3. TextRead(disk, memory)
      <3>1. CASE section = "data"
        BY <3>1
      <3>2. CASE section = "text"
        BY <1>1, <1>2, <1>5, <3>2 DEF TextRead, BaseByte, BaseAddr
      <3> QED
        BY <3>1, <3>2
    <2>4. \A n \in 0 .. ts - 1 : memory'[tp + n] = fileByte(disk, CoffHeader + n)
      <3>1. SUFFICES ASSUME NEW n \in 0 .. ts - 1
                     PROVE  memory'[tp + n] = fileByte(disk, CoffHeader + n)
        OBVIOUS
      <3>2. tp + n \in BytesOf(disk.kernel.text)
        BY <1>1 DEF BytesOf
      <3>3. tp + n \in 0 .. MemorySize - 1 /\ ~(tp + n - bp \in 0 .. bs - 1)
        <4>1. PICK a \in Nat : a = tp + n
          OBVIOUS
        <4>2. a \in 0 .. MemorySize - 1 /\ a \notin BytesOf(disk.kernel.bss)
          BY <3>2, <4>1, CoffFacts DEF LoaderTypes
        <4>3. a \notin bp .. bp + bs - 1
          BY <1>1, <4>2 DEF BytesOf
        <4>4. ~(a - bp \in 0 .. bs - 1)
          BY <4>3
        <4> QED
          BY <4>1, <4>2, <4>4
      <3>4. tp + n < MemorySize /\ CoffHeader + n < fileArea(disk)
        <4>1. PICK area \in Nat : area = fileArea(disk)
          BY AreaOf DEF LoaderTypes
        <4>2. CoffHeader + ts <= area
          BY <1>1, <2>3, <4>1 DEF TextRead
        <4> QED
          BY <3>3, <4>1, <4>2, BootAssumption
      <3>5. memory[tp + n] = fileByte(disk, CoffHeader + n)
        BY <1>1, <2>3, <3>4 DEF TextRead, Brought
      <3> QED
        BY <2>1, <3>3, <3>5 DEF LoaderTypes
    <2>5. \A n \in 0 .. ds - 1 : memory'[dp + n] = fileByte(disk, CoffHeader + ts + n)
      <3>1. SUFFICES ASSUME NEW n \in 0 .. ds - 1
                     PROVE  memory'[dp + n] = fileByte(disk, CoffHeader + ts + n)
        OBVIOUS
      <3>2. dp + n \in BytesOf(disk.kernel.data) /\ section = "data"
        BY <1>1, <1>5 DEF BytesOf
      <3>3. dp + n \in 0 .. MemorySize - 1 /\ ~(dp + n - bp \in 0 .. bs - 1)
        <4>1. PICK a \in Nat : a = dp + n
          OBVIOUS
        <4>2. a \in 0 .. MemorySize - 1 /\ a \notin BytesOf(disk.kernel.bss)
          BY <3>2, <4>1, CoffFacts DEF LoaderTypes
        <4>3. a \notin bp .. bp + bs - 1
          BY <1>1, <4>2 DEF BytesOf
        <4>4. ~(a - bp \in 0 .. bs - 1)
          BY <4>3
        <4> QED
          BY <4>1, <4>2, <4>4
      <3>4. BaseByte(disk, section) = CoffHeader + ts /\ BaseAddr(disk, section) = dp /\ passed = ds
        BY <1>1, <1>2, <1>5, <3>2 DEF BaseByte, BaseAddr
      <3>5. dp + n < MemorySize /\ CoffHeader + ts + n < fileArea(disk)
        <4>1. PICK area \in Nat : area = fileArea(disk)
          BY AreaOf DEF LoaderTypes
        <4>2. CoffHeader + ts + ds <= area
          BY <3>4, <4>1
        <4> QED
          BY <3>3, <4>1, <4>2, BootAssumption
      <3>6. memory[dp + n] = fileByte(disk, CoffHeader + ts + n)
        BY <1>1, <3>4, <3>5 DEF Brought
      <3> QED
        BY <2>1, <3>3, <3>6 DEF LoaderTypes
    <2>6. \A n \in 0 .. bs - 1 : memory'[bp + n] = Zero
      <3>1. SUFFICES ASSUME NEW n \in 0 .. bs - 1
                     PROVE  memory'[bp + n] = Zero
        OBVIOUS
      <3>2. bp + n \in BytesOf(disk.kernel.bss) /\ bp + n - bp \in 0 .. bs - 1
        BY <1>1 DEF BytesOf
      <3>3. bp + n \in 0 .. MemorySize - 1
        BY <3>2, CoffFacts DEF LoaderTypes
      <3> QED
        BY <2>1, <3>2, <3>3 DEF LoaderTypes
    <2>7. disk'.kernel.type = "coff" /\ disk' = disk
      BY DEF Kernel
    <2>8. KernelWhole'
      BY <1>1, <2>4, <2>5, <2>6, <2>7 DEF KernelWhole, Kernel, sizeOf
    <2> QED
      BY <2>1, <2>2, <2>8 DEF LoaderInv, Loading
  <1> QED
    BY <1>2, <1>3, <1>4, <1>5

\* The loader gives up.
LEMMA Fails ==
    ASSUME LoaderInv, fail
    PROVE  LoaderInv'
  BY DEF LoaderInv, fail, LoaderTypes, NoRequest, Loading, KernelWhole

\* The first sector is read.
LEMMA Identified ==
    ASSUME LoaderInv, identKernel
    PROVE  LoaderInv'
  <1>1. LoaderTypes /\ position = [pc |-> Head(disk.chain), po |-> 0] /\ FATRead(fat) /\ DiskMade(disk)
    BY DisksAssumption DEF LoaderInv, identKernel, LoaderTypes, FATRead
  <1>2. CASE fail
    BY <1>2, Fails
  <1>3. CASE Kernel.type = "exe" /\ ~fail
    <2>1. PICK relOffset \in 0 .. SectorSize - 1, relBytes \in Nat, header \in Nat, table \in Nat :
              /\ relOffset = disk.kernel.relOffset /\ relBytes = disk.kernel.relBytes /\ header = disk.kernel.header
              /\ table = BaseAddr(disk, "relocations") /\ table = relTable /\ relOffset + relBytes <= header
      BY <1>1, <1>3, ExeFacts DEF LoaderTypes
    <2>2. /\ position' = [pc |-> Head(disk.chain), po |-> relOffset] /\ UNCHANGED <<disk, fat, memory, cut>>
          /\ IF relBytes > 0
             THEN Ask("relocations", relTable, relBytes) /\ UNCHANGED loaded
             ELSE skipFrom(relOffset)
      BY <1>1, <1>3, <2>1 DEF identKernel, Kernel
    <2>3. ReadsAt(disk, relOffset, position') /\ relOffset < fileArea(disk)
      BY <1>1, <2>2, PlaceFirst
    <2>4. PICK area \in Nat : area = fileArea(disk)
      BY <1>1, AreaOf DEF LoaderTypes
    <2>5. CASE relBytes > 0
      <3>1. phase' = "relocations" /\ request' = [addr |-> table, len |-> relBytes, asked |-> relBytes, ended |-> FALSE] /\ loaded' = loaded
        BY <2>1, <2>2, <2>5 DEF Ask
      <3>2. Done(phase', loaded', request') = 0
        BY <3>1 DEF Done
      <3>3. Reads(disk, "relocations", request', position', 0)
        BY <1>3, <2>1, <2>3, <2>4, <3>1 DEF Reads, BaseByte, SizeIn, Kernel
      <3>4. Has(disk, "relocations", memory', 0)
        BY DEF Has, Brought
      <3>5. LoaderTypes'
        BY <1>1, <2>2, <3>1 DEF LoaderTypes, Loading
      <3> QED
        BY <1>1, <2>2, <3>1, <3>2, <3>3, <3>4, <3>5 DEF LoaderInv, KernelWhole
    <2>6. CASE relBytes = 0
      <3>1. TableRead(disk, memory)
        BY <2>1, <2>3, <2>4, <2>6 DEF TableRead, Brought
      <3>2. skipFrom(relOffset) /\ relOffset <= disk.kernel.header /\ relOffset <= fileArea(disk) /\ relOffset \in Nat
        BY <2>1, <2>2, <2>3, <2>4, <2>6
      <3> QED
        BY <1>1, <1>3, <2>2, <2>3, <3>1, <3>2, SkipsOn
    <2> QED
      BY <2>5, <2>6
  <1>4. CASE Kernel.type = "coff" /\ ~fail
    <2>1. /\ position' = [pc |-> Head(disk.chain), po |-> CoffHeader] /\ UNCHANGED <<disk, fat, cut>>
          /\ sectionFrom("text", 0)
      BY <1>1, <1>4 DEF identKernel
    <2>2. BaseByte(disk, "text") + 0 = CoffHeader /\ 0 <= SizeIn(disk, "text")
      BY <1>1, <1>4, CoffFacts, BootAssumption, SMTT(30) DEF BaseByte, SizeIn, LoaderTypes
    <2>3. ReadsAt(disk, CoffHeader, position') /\ CoffHeader < fileArea(disk)
      BY <1>1, <2>1, PlaceFirst, BootAssumption
    <2>4. CoffHeader <= fileArea(disk)
      <3>1. PICK area \in Nat : area = fileArea(disk)
        BY <1>1, AreaOf DEF LoaderTypes
      <3> QED
        BY <2>3, <3>1, BootAssumption
    <2>5. Brought(disk, memory, BaseAddr(disk, "text"), BaseByte(disk, "text"), 0)
      BY DEF Brought
    <2> QED
      BY <1>1, <1>4, <2>1, <2>2, <2>3, <2>4, <2>5, SectionsOn
  <1> QED
    BY <1>2, <1>3, <1>4 DEF identKernel

\* read() returns.
LEMMA Returned ==
    ASSUME LoaderInv, readDone
    PROVE  LoaderInv'
  <1>1. phase \in Loading /\ LoaderTypes /\ (request.len = 0 \/ request.ended) /\ disk \in BootDisks
        /\ (InFile(disk, position.pc) => FATRead(fat))
    BY DEF readDone, LoaderInv, LoaderTypes
  <1>2. PICK b \in Nat, k \in Nat, s \in Nat :
              /\ b = BaseByte(disk, phase) /\ k = Done(phase, loaded, request) /\ s = SizeIn(disk, phase)
              /\ Reads(disk, phase, request, position, k) /\ Has(disk, phase, memory, k)
              /\ DiskMade(disk) /\ BaseAddr(disk, phase) \in Nat
    BY <1>1, ReadingAt
  <1>3. PICK len \in Nat, asked \in Nat, l \in Nat, area \in Nat :
            len = request.len /\ asked = request.asked /\ len <= asked /\ l = loaded /\ area = fileArea(disk)
    BY <1>1, <1>2, AreaOf DEF LoaderTypes, Reads
  <1>4. ReadsAt(disk, b + k, position) /\ (phase # "load" => b + k <= fileArea(disk) /\ k + len <= s)
    BY <1>2, <1>3 DEF Reads
  <1>5. k = (IF phase = "relocations" THEN 0 ELSE l) + (asked - len)
    BY <1>2, <1>3 DEF Done
  <1>6. CASE fail
    BY <1>6, Fails
  <1>7. CASE phase = "relocations" /\ len = 0 /\ ~fail
    <2>1. skipFrom(disk.kernel.relOffset + disk.kernel.relBytes) /\ UNCHANGED <<disk, position, fat, memory, cut>>
      BY <1>3, <1>7 DEF readDone, Kernel
    <2>2. Kernel.type = "exe"
      BY <1>2, <1>7 DEF Reads, Kernel
    <2>3. PICK relOffset \in Nat, relBytes \in Nat, header \in Nat :
              /\ relOffset = disk.kernel.relOffset /\ relBytes = disk.kernel.relBytes /\ header = disk.kernel.header
              /\ relOffset + relBytes <= header
      BY <1>1, <2>2, ExeFacts
    <2>4. b = relOffset /\ asked = relBytes /\ k = relBytes
      BY <1>2, <1>3, <1>5, <1>7, <2>3 DEF Reads, BaseByte, SizeIn
    <2>5. TableRead(disk, memory)
      BY <1>2, <1>4, <1>7, <2>3, <2>4 DEF TableRead, Has
    <2>6. ReadsAt(disk, relOffset + relBytes, position') /\ relOffset + relBytes <= fileArea(disk)
      BY <1>4, <1>7, <2>1, <2>4
    <2>7. skipFrom(relOffset + relBytes) /\ (InFile(disk, position'.pc) => FATRead(fat')) /\ relOffset + relBytes \in Nat
      BY <1>1, <2>1, <2>3
    <2> QED
      BY <1>1, <2>1, <2>2, <2>3, <2>5, <2>6, <2>7, SkipsOn
  <1>8. CASE phase = "skip" /\ len = 0 /\ ~fail
    <2>1. skipFrom(loaded + (request.asked - request.len)) /\ UNCHANGED <<disk, position, fat, memory, cut>>
      BY <1>3, <1>8 DEF readDone
    <2>2. Kernel.type = "exe" /\ TableRead(disk, memory)
      BY <1>2, <1>8 DEF Reads, Kernel, Has
    <2>3. b = 0 /\ s = disk.kernel.header
      BY <1>2, <1>8 DEF BaseByte, SizeIn
    <2>4. skipFrom(k) /\ (InFile(disk, position'.pc) => FATRead(fat'))
      BY <1>1, <1>3, <1>5, <1>8, <2>1
    <2>5. ReadsAt(disk, k, position') /\ k <= fileArea(disk) /\ k <= disk.kernel.header
      BY <1>3, <1>4, <1>8, <2>1, <2>3
    <2> QED
      BY <1>1, <2>1, <2>2, <2>4, <2>5, SkipsOn
  <1>9. CASE phase = "load" /\ asked - len > 0 /\ ~fail
    <2>1. PICK n \in Nat : n = l + SectorSize
      BY BootAssumption
    <2>2. /\ phase' = "load" /\ loaded' = n /\ UNCHANGED <<disk, position, fat, memory, cut>>
          /\ request' = [addr |-> n, len |-> SectorSize, asked |-> SectorSize, ended |-> FALSE]
      BY <1>3, <1>9, <2>1 DEF readDone, Ask
    <2>3. asked = SectorSize /\ k <= n /\ (k = n \/ request.ended)
      BY <1>1, <1>2, <1>3, <1>5, <1>9, <2>1, BootAssumption DEF Reads
    <2>4. Done(phase', loaded', request') = n
      BY <2>1, <2>2, BootAssumption DEF Done
    <2>5. k < n => AtLast(disk, position.pc) /\ b + k >= area /\ AtLast(disk, disk.end)
      BY <1>2, <1>3, <1>4, <2>3 DEF Reads, ReadsAt
    <2>6. ReadsAt(disk, b + n, position)
      <3>1. CASE k = n
        BY <1>4, <3>1
      <3>2. CASE k < n
        <4>1. ~InFile(disk, position.pc) /\ position.pc \in Nat
          BY <1>2, <1>4, <2>5, <3>2, Markers DEF AtLast, InFile, ReadsAt
        <4>2. b + n >= fileArea(disk)
          BY <1>3, <2>5, <3>2
        <4> QED
          BY <2>5, <3>2, <4>1, <4>2 DEF ReadsAt
      <3> QED
        BY <2>3, <3>1, <3>2
    <2>7. BaseByte(disk, "load") = b /\ BaseAddr(disk, "load") = 0
      BY <1>2, <1>9 DEF BaseByte, BaseAddr
    <2>8. Reads(disk, "load", request', position', n)
      BY <1>2, <1>9, <2>2, <2>6, <2>7, BootAssumption DEF Reads
    <2>9. Brought(disk, memory, 0, b, n)
      <3>1. SUFFICES ASSUME NEW i \in 0 .. n - 1, 0 + i < MemorySize, b + i < fileArea(disk)
                     PROVE  memory[0 + i] = fileByte(disk, b + i)
        BY DEF Brought
      <3>2. i < k
        BY <1>3, <2>3, <2>5, <3>1
      <3>3. Brought(disk, memory, 0, b, k)
        BY <1>2, <1>9, <2>7 DEF Has
      <3> QED
        BY <3>1, <3>2, <3>3 DEF Brought
    <2>10. Has(disk, "load", memory', n)
      BY <1>2, <1>9, <2>2, <2>7, <2>9 DEF Has
    <2>11. LoaderTypes'
      BY <1>1, <2>2, BootAssumption DEF LoaderTypes, Loading
    <2> QED
      BY <1>1, <2>2, <2>4, <2>8, <2>10, <2>11 DEF LoaderInv, KernelWhole
  <1>10. CASE phase = "load" /\ asked - len <= 0 /\ ~fail
    <2>1. phase' = "relocate" /\ request' = NoRequest /\ UNCHANGED <<disk, position, loaded, fat, memory, cut>>
      BY <1>3, <1>10 DEF readDone
    <2>2. request.ended /\ Kernel.type = "exe"
      BY <1>1, <1>2, <1>3, <1>10, BootAssumption DEF Reads, Kernel
    <2>3. b + k >= area /\ AtLast(disk, disk.end)
      BY <1>2, <1>3, <1>4, <2>2 DEF Reads, ReadsAt
    <2>4. PICK relOffset \in Nat, relBytes \in Nat, header \in Nat, size \in Nat, table \in Nat :
              /\ relOffset = disk.kernel.relOffset /\ relBytes = disk.kernel.relBytes /\ header = disk.kernel.header
              /\ size = disk.kernel.size /\ table = BaseAddr(disk, "relocations")
              /\ size - header <= MemorySize /\ table + relBytes <= MemorySize
              /\ AtLast(disk, disk.end) => size <= fileArea(disk)
      BY <1>1, <2>2, ExeFacts
    <2>5. b = header /\ BaseAddr(disk, "load") = 0
      BY <1>2, <1>10, <2>4 DEF BaseByte, BaseAddr
    <2>6. \A n \in header .. size - 1 : memory[n - header] = fileByte(disk, n)
      <3>1. SUFFICES ASSUME NEW n \in header .. size - 1
                     PROVE  memory[n - header] = fileByte(disk, n)
        OBVIOUS
      <3>2. PICK i \in Nat : i = n - header
        OBVIOUS
      <3>3. n < area /\ i < MemorySize /\ i \in 0 .. k - 1
        BY <1>3, <2>3, <2>4, <2>5, <3>2, BootAssumption
      <3>4. Brought(disk, memory, 0, header, k)
        BY <1>2, <1>10, <2>5 DEF Has
      <3>5. memory[0 + i] = fileByte(disk, header + i)
        BY <1>3, <3>2, <3>3, <3>4 DEF Brought
      <3> QED
        BY <3>2, <3>5
    <2>7. TableSafe(disk) => \A n \in 0 .. relBytes - 1 : memory[table + n] = fileByte(disk, relOffset + n)
      <3>1. SUFFICES ASSUME TableSafe(disk), NEW n \in 0 .. relBytes - 1
                     PROVE  memory[table + n] = fileByte(disk, relOffset + n)
        OBVIOUS
      <3>2. TableRead(disk, memory)
        BY <1>2, <1>10, <3>1 DEF Has
      <3>3. relOffset + relBytes <= area
        BY <1>3, <2>4, <3>2 DEF TableRead
      <3>4. table + n < MemorySize /\ relOffset + n < fileArea(disk)
        BY <1>3, <2>4, <3>3, BootAssumption
      <3> QED
        BY <2>4, <3>2, <3>4 DEF TableRead, Brought
    <2>8. ExeRead(disk, memory)
      BY <2>2, <2>4, <2>6, <2>7 DEF ExeRead, Kernel
    <2>9. LoaderTypes'
      BY <1>1, <2>1 DEF LoaderTypes, NoRequest
    <2> QED
      BY <2>1, <2>8, <2>9 DEF LoaderInv, KernelWhole, Loading
  <1>11. CASE phase \in {"text", "data"} /\ len = 0 /\ ~fail
    <2>1. sectionFrom(phase, loaded + (request.asked - request.len)) /\ UNCHANGED <<disk, position, fat, cut>>
      BY <1>3, <1>11 DEF readDone
    <2>2. Kernel.type = "coff"
      BY <1>2, <1>11 DEF Reads, Kernel
    <2>3. sectionFrom(phase, k) /\ (InFile(disk, position'.pc) => FATRead(fat'))
      BY <1>1, <1>3, <1>5, <1>11, <2>1
    <2>4. k <= SizeIn(disk, phase) /\ BaseByte(disk, phase) + k <= fileArea(disk) /\ ReadsAt(disk, BaseByte(disk, phase) + k, position')
      BY <1>2, <1>3, <1>4, <1>11, <2>1
    <2>5. Brought(disk, memory, BaseAddr(disk, phase), BaseByte(disk, phase), k) /\ (phase = "data" => TextRead(disk, memory))
      BY <1>2, <1>11 DEF Has
    <2> QED
      BY <1>1, <1>11, <2>1, <2>2, <2>3, <2>4, <2>5, SectionsOn
  <1> QED
    BY <1>3, <1>6, <1>7, <1>8, <1>9, <1>10, <1>11 DEF readDone

\* The other steps: finding the kernel, the end of its clusters, an error, and the start.
LEMMA LoaderElse ==
    ASSUME LoaderInv, main \/ findKernel \/ readEnd \/ readError \/ startExe
    PROVE  LoaderInv'
  <1>1. CASE fail
    BY <1>1, Fails
  <1>2. CASE main
    BY <1>2 DEF LoaderInv, main, LoaderTypes, Loading, KernelWhole
  <1>3. CASE findKernel /\ ~fail
    <2>1. /\ phase = "find" /\ UNCHANGED <<disk, request, fat, memory, cut>>
          /\ \/ phase' = "ident" /\ position' = [pc |-> Head(disk.chain), po |-> 0] /\ UNCHANGED loaded
             \/ phase' = phase /\ loaded' = loaded + 1 /\ UNCHANGED position
      BY <1>3, Zenon DEF findKernel
    <2>2. CASE phase' = "ident" /\ position' = [pc |-> Head(disk.chain), po |-> 0] /\ UNCHANGED loaded
      BY <2>1, <2>2 DEF LoaderInv, LoaderTypes, Loading, KernelWhole
    <2>3. CASE phase' = phase /\ loaded' = loaded + 1 /\ UNCHANGED position
      BY <2>1, <2>3 DEF LoaderInv, LoaderTypes, Loading, KernelWhole
    <2>4. (phase' = "ident" /\ position' = [pc |-> Head(disk.chain), po |-> 0] /\ UNCHANGED loaded)
          \/ (phase' = phase /\ loaded' = loaded + 1 /\ UNCHANGED position)
      BY <2>1, Zenon
    <2> QED
      BY <2>2, <2>3, <2>4, Zenon
  <1>4. CASE readEnd
    <2>1. phase \in Loading /\ AtLast(disk, position.pc) /\ request' = [request EXCEPT !.ended = TRUE]
          /\ UNCHANGED <<disk, phase, position, loaded, fat, memory, cut>>
      BY <1>4 DEF readEnd, AtLast
    <2>2. LoaderTypes /\ Reads(disk, phase, request, position, Done(phase, loaded, request))
          /\ Has(disk, phase, memory, Done(phase, loaded, request)) /\ (InFile(disk, position.pc) => FATRead(fat))
      BY <2>1 DEF LoaderInv
    <2>3. request'.addr = request.addr /\ request'.len = request.len /\ request'.asked = request.asked
      BY <2>1, <2>2 DEF LoaderTypes
    <2>4. Done(phase, loaded, request') = Done(phase, loaded, request)
      BY <2>3 DEF Done
    <2>5. Reads(disk, phase, request', position, Done(phase, loaded, request))
      BY <2>1, <2>2, <2>3 DEF Reads
    <2>6. LoaderTypes'
      BY <2>1, <2>2 DEF LoaderTypes
    <2> QED
      BY <2>1, <2>2, <2>4, <2>5, <2>6 DEF LoaderInv, KernelWhole, Loading
  <1>5. CASE readError /\ ~fail
    <2>1. phase' = "relocate" /\ cut' = TRUE /\ request' = NoRequest /\ UNCHANGED <<disk, position, loaded, fat, memory>>
      BY <1>5 DEF readError
    <2> QED
      BY <2>1 DEF LoaderInv, LoaderTypes, NoRequest, Loading, KernelWhole
  <1>6. CASE startExe
    <2>1. phase = "relocate" /\ phase' = "started" /\ UNCHANGED <<disk, request, position, loaded, fat, memory, cut>>
      BY <1>6 DEF startExe
    <2>2. LoaderTypes' /\ (~cut => ExeRead(disk, memory))
      BY <2>1 DEF LoaderInv, LoaderTypes
    <2>3. KernelWhole'
      BY <2>1, <2>2 DEF KernelWhole, Kernel, ExeRead, TableSafe, BaseAddr, relTable
    <2> QED
      BY <2>1, <2>2, <2>3 DEF LoaderInv, Loading
  <1> QED
    BY <1>1, <1>2, <1>3, <1>4, <1>5, <1>6

LEMMA LoaderInitial ==
    ASSUME BootInit(BootDisks)
    PROVE  LoaderInv
  BY BootAssumption DEF BootInit, LoaderInv, LoaderTypes, NoRequest, Loading, KernelWhole

LEMMA LoaderNext ==
    ASSUME LoaderInv, BootStep
    PROVE  LoaderInv'
  BY BytesRead, Identified, Returned, LoaderElse DEF BootStep

\* A kernel that is started is in memory whole, as its header wants it, and so is its
\* relocation table where the last cluster ends below it.
THEOREM KernelLoads == BootSpec => []KernelWhole
  <1>1. BootInit(BootDisks) => LoaderInv
    BY LoaderInitial
  <1>2. LoaderInv /\ [BootStep]_bootVars => LoaderInv'
    <2>1. CASE UNCHANGED bootVars
      <3>1. UNCHANGED <<disk, phase, request, position, loaded, fat, memory, cut>>
        BY <2>1 DEF bootVars
      <3> QED
        BY <3>1 DEF LoaderInv, LoaderTypes, KernelWhole, Kernel, relTable, sizeOf
    <2> QED
      BY <2>1, LoaderNext
  <1>3. LoaderInv => KernelWhole
    BY DEF LoaderInv
  <1> QED
    BY <1>1, <1>2, <1>3, PTL DEF BootSpec
=============================================================================
