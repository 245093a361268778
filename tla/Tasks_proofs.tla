---------------------------- MODULE Tasks_proofs ----------------------------
(***************************************************************************)
(* Proofs about the components of MCTasks, which share no state: the I2C   *)
(* bus, the firmware update, the LEDs, and the types of all five.          *)
(***************************************************************************)
EXTENDS MCTasks, Folds_proofs, FiniteSetTheorems, SequenceTheorems, TLAPS

-----------------------------------------------------------------------------
(***************************************************************************)
(* I2cBus: while no completion came too late, the semaphore answers for    *)
(* the transfer of the task that holds the mutex.                          *)
(***************************************************************************)

\* The mutex: who is between its take and the end of the transfer.
MutexInv == \A t \in Users : at[t] \in {"start", "wait"} => holder = t

\* The semaphore is given for the transfer of the holder, and a transfer is
\* its own.
BusInv ==
    /\ given => /\ holder \in Users /\ at[holder] = "wait" /\ transfer = NoTransfer
                /\ done[holder] = ~err
    /\ transfer.by # Nobody => transfer.by \in Users /\ at[transfer.by] = "wait" /\ ~given

I2cTypes ==
    /\ at \in [Users -> {"out", "lock", "start", "wait", "return"}]
    /\ result \in [Users -> Int] /\ done \in [Users -> BOOLEAN]
    /\ {err, given, overdue} \subseteq BOOLEAN

I2cInv == I2cTypes /\ MutexInv /\ (overdue \/ BusInv) /\ OwnCompletion

LEMMA I2cInit_Inv == I2cInit => I2cInv
<1> SUFFICES ASSUME I2cInit PROVE I2cInv
  OBVIOUS
<1>1. I2cTypes
  <2>1. at \in [Users -> {"out", "lock", "start", "wait", "return"}]
    BY DEF I2cInit
  <2>2. result \in [Users -> Int] /\ done \in [Users -> BOOLEAN]
    BY DEF I2cInit
  <2>3. err \in BOOLEAN /\ given \in BOOLEAN /\ overdue \in BOOLEAN
    BY DEF I2cInit
  <2> QED
    BY <2>1, <2>2, <2>3 DEF I2cTypes
<1>2. \A t \in Users : at[t] = "out"
  BY DEF I2cInit
<1>3. MutexInv /\ OwnCompletion
  BY <1>2 DEF MutexInv, OwnCompletion
<1>4. BusInv
  BY DEF I2cInit, BusInv, NoTransfer
<1> QED
  BY <1>1, <1>3, <1>4 DEF I2cInv

LEMMA I2cNext_Inv == I2cInv /\ [I2cNext]_i2c => I2cInv'
<1> SUFFICES ASSUME I2cInv, [I2cNext]_i2c PROVE I2cInv'
  OBVIOUS
<1> USE DEF I2cInv
<1>1. CASE Interrupt
  <2>1. at' = at /\ holder' = holder /\ result' = result /\ overdue' = overdue /\ given' = TRUE
        /\ transfer' = NoTransfer /\ transfer.by # Nobody
    BY <1>1 DEF Interrupt
  <2>2. PICK failed \in BOOLEAN : err' = failed /\ done' = [done EXCEPT ![transfer.by] = ~failed]
    BY <1>1 DEF Interrupt
  <2>3. I2cTypes'
    BY <2>1, <2>2 DEF I2cTypes
  <2>4. MutexInv'
    BY <2>1 DEF MutexInv
  <2>5. ASSUME ~overdue PROVE BusInv' /\ OwnCompletion'
    <3>1. transfer.by \in Users /\ at[transfer.by] = "wait" /\ holder = transfer.by
      BY <2>1, <2>5 DEF BusInv, MutexInv
    <3>2. done'[transfer.by] = ~failed
      BY <2>2, <3>1 DEF I2cTypes
    <3>3. \A t \in Users : at[t] = "return" => done'[t] = done[t]
      BY <2>2, <3>1 DEF I2cTypes
    <3>4. BusInv'
      BY <2>1, <2>2, <3>1, <3>2 DEF BusInv, NoTransfer
    <3> QED
      BY <2>1, <2>5, <3>3, <3>4 DEF OwnCompletion
  <2> QED
    BY <2>1, <2>3, <2>4, <2>5 DEF OwnCompletion
<1>2. ASSUME NEW t \in Users, CallBus(t) PROVE I2cInv'
  BY <1>2 DEF CallBus, Go, I2cTypes, MutexInv, BusInv, OwnCompletion
<1>3. ASSUME NEW t \in Users, Lock(t) PROVE I2cInv'
  <2>1. at[t] = "lock" /\ holder = Nobody /\ holder' = t /\ at' = [at EXCEPT ![t] = "start"]
        /\ UNCHANGED <<result, given, transfer, err, done, overdue>>
    BY <1>3 DEF Lock, Go
  <2>2. I2cTypes'
    BY <2>1 DEF I2cTypes
  <2>3. MutexInv'
    BY <2>1, I2cAssumption DEF MutexInv, I2cTypes
  <2>4. ASSUME ~overdue PROVE BusInv'
    BY <2>1, <2>4, I2cAssumption DEF BusInv, I2cTypes
  <2>5. OwnCompletion'
    BY <2>1 DEF OwnCompletion, I2cTypes
  <2> QED
    BY <2>1, <2>2, <2>3, <2>4, <2>5
<1>4. ASSUME NEW t \in Users, LockTimeout(t) PROVE I2cInv'
  BY <1>4 DEF LockTimeout, Ends, Go, I2cTypes, MutexInv, BusInv, OwnCompletion
<1>5. ASSUME NEW t \in Users, Start(t) PROVE I2cInv'
  <2>1. at[t] = "start" /\ done' = [done EXCEPT ![t] = FALSE] /\ holder = t
        /\ UNCHANGED <<holder, given, err, overdue>>
    BY <1>5 DEF Start, MutexInv
  <2>2. ~overdue => ~given
    BY <2>1 DEF BusInv
  <2>3. CASE transfer = NoTransfer
    <3>1. transfer'.by = t /\ at' = [at EXCEPT ![t] = "wait"] /\ result' = result
      BY <1>5, <2>3 DEF Start, Go
    <3> QED
      BY <2>1, <2>2, <3>1 DEF I2cTypes, MutexInv, BusInv, OwnCompletion
  <2>4. CASE transfer # NoTransfer
    <3>1. transfer' = transfer /\ at' = [at EXCEPT ![t] = "return"] /\ result' = [result EXCEPT ![t] = -2]
      BY <1>5, <2>4 DEF Start, Ends, Go
    <3> QED
      BY <2>1, <2>2, <3>1 DEF I2cTypes, MutexInv, BusInv, OwnCompletion
  <2> QED
    BY <2>3, <2>4
<1>6. ASSUME NEW t \in Users, Completed(t) PROVE I2cInv'
  <2>1. at[t] = "wait" /\ given /\ given' = FALSE /\ holder = t
        /\ result' = [result EXCEPT ![t] = Outcome] /\ at' = [at EXCEPT ![t] = "return"]
        /\ UNCHANGED <<holder, transfer, err, done, overdue>>
    BY <1>6 DEF Completed, Ends, Go, MutexInv
  <2>2. Outcome \in Int /\ (Outcome = 0 <=> ~err)
    BY DEF Outcome
  <2>3. ~overdue => done[t] = ~err /\ transfer.by = Nobody
    BY <2>1 DEF BusInv, NoTransfer
  <2> QED
    BY <2>1, <2>2, <2>3 DEF I2cTypes, MutexInv, BusInv, OwnCompletion
<1>7. ASSUME NEW t \in Users, WaitTimeout(t) PROVE I2cInv'
  BY <1>7 DEF WaitTimeout, Ends, Go, I2cTypes, MutexInv, OwnCompletion
<1>8. ASSUME NEW t \in Users, Return(t) PROVE I2cInv'
  <2>1. at[t] = "return" /\ UNCHANGED <<given, transfer, err, overdue>>
    BY <1>8 DEF Return
  <2>2. holder' = holder \/ (holder \in {t, Nobody} /\ holder' = Nobody)
    BY <1>8 DEF Return
  <2>3. PICK place \in {"lock", "out"} : at' = [at EXCEPT ![t] = place]
    BY <1>8 DEF Return, Go
  <2>4. /\ result' \in [Users -> Int] /\ done' \in [Users -> BOOLEAN]
        /\ \A u \in Users \ {t} : result'[u] = result[u] /\ done'[u] = done[u]
    <3>1. CASE Forget(t)
      BY <3>1 DEF Forget, I2cTypes
    <3>2. CASE UNCHANGED <<result, done>>
      BY <3>2 DEF I2cTypes
    <3> QED
      BY <1>8, <3>1, <3>2 DEF Return
  <2>5. I2cTypes'
    BY <2>1, <2>3, <2>4 DEF I2cTypes
  <2>6. MutexInv'
    BY <2>1, <2>2, <2>3 DEF MutexInv, I2cTypes
  <2>7. ASSUME ~overdue PROVE BusInv'
    BY <2>1, <2>2, <2>3, <2>4, <2>7, I2cAssumption DEF BusInv, I2cTypes
  <2>8. OwnCompletion'
    BY <2>1, <2>3, <2>4 DEF OwnCompletion, I2cTypes
  <2> QED
    BY <2>1, <2>5, <2>6, <2>7, <2>8
<1>9. CASE UNCHANGED i2c
  BY <1>9 DEF i2c, I2cTypes, MutexInv, BusInv, OwnCompletion
<1> QED
  BY <1>1, <1>2, <1>3, <1>4, <1>5, <1>6, <1>7, <1>8, <1>9 DEF I2cNext, CallStep

(* For every number of tasks and of attempts: as long as no wait for a      *)
(* completion timed out, the one semaphore of the bus answers only for the  *)
(* transfer of the task that waits (i2c_rtos_write_data and the read).       *)
THEOREM CompletionIsOwn == I2cSpec => []OwnCompletion
<1>1. I2cInv => OwnCompletion
  BY DEF I2cInv
<1> QED
  BY <1>1, I2cInit_Inv, I2cNext_Inv, PTL DEF I2cSpec

-----------------------------------------------------------------------------
(***************************************************************************)
(* Update: an image that is complete by the count of its bytes is whole.   *)
(***************************************************************************)

\* The units that hold something.
Held(f) == {u \in Units : f[u] # Blank}

\* Every unit is blank or its own, and a chunk is there as a whole.
Proper(f) ==
    /\ f \in [Units -> Int]
    /\ \A u \in Units : f[u] \in {u, Blank}
    /\ \A c \in 1..Chunks : \A u, v \in Target(c, 2) : f[u] = Blank => f[v] = Blank

\* The bytes that are counted are those in the flash since the erase.
CountInv ==
    /\ Proper(flash)
    /\ erased => perChunk = 2 /\ written = Cardinality(Held(flash))
    /\ ~erased => perChunk = 0 /\ written = 0

\* What the outcome says, and what runs.
OutcomeInv ==
    /\ outcome = "complete" => erased /\ written = Size
    /\ mode = "bootloader" /\ written = Size => outcome # "idle"
    /\ mode \in {"reset", "app"} /\ Valid => Whole \/ interrupted
    /\ mode = "app" => Valid

UpdateInv == CountInv /\ OutcomeInv

LEMMA TargetUnits ==
    ASSUME NEW c \in 1..Chunks
    PROVE  /\ Size \in Nat /\ Size > 0
           /\ Target(c, 2) \subseteq Units
           /\ Target(c, 2) = IF c = Chunks THEN {2 * (c - 1)} ELSE {2 * (c - 1), 2 * (c - 1) + 1}
<1>1. Chunks \in Nat /\ Chunks > 1
  BY UpdateAssumption
<1>2. Size \in Nat /\ Size > 0 /\ Size = 2 * Chunks - 1
  BY <1>1 DEF Size
<1>3. CASE c = Chunks
  <2>1. 0..(ChunkLength(c) - 1) = {0}
    BY <1>3 DEF ChunkLength
  <2>2. Target(c, 2) = {2 * (c - 1) + 0}
    BY <2>1 DEF Target
  <2>3. 2 * (c - 1) \in Units
    BY <1>1, <1>2, <1>3 DEF Units
  <2> QED
    BY <1>1, <1>2, <1>3, <2>2, <2>3
<1>4. CASE c # Chunks
  <2>1. 0..(ChunkLength(c) - 1) = {0, 1}
    BY <1>4 DEF ChunkLength
  <2>2. Target(c, 2) = {2 * (c - 1) + 0, 2 * (c - 1) + 1}
    BY <2>1 DEF Target
  <2>3. 2 * (c - 1) \in Units /\ 2 * (c - 1) + 1 \in Units
    BY <1>1, <1>2, <1>4 DEF Units
  <2> QED
    BY <1>2, <1>4, <2>2, <2>3
<1> QED
  BY <1>3, <1>4

\* Two chunks share no unit.
LEMMA TargetsApart ==
    ASSUME NEW c \in 1..Chunks, NEW d \in 1..Chunks, c # d
    PROVE  Target(c, 2) \cap Target(d, 2) = {}
  BY TargetUnits, UpdateAssumption

\* The count is that of all units only when nothing is blank.
LEMMA HeldCount ==
    ASSUME NEW f, Proper(f)
    PROVE  /\ IsFiniteSet(Held(f)) /\ Cardinality(Held(f)) \in Nat
           /\ Cardinality(Held(f)) = Size <=> \A u \in Units : f[u] = u
<1>1. Size \in Nat /\ Size > 0
  BY UpdateAssumption DEF Size
<1>2. IsFiniteSet(Units) /\ Cardinality(Units) = Size
  <2>1. IsFiniteSet(0..(Size - 1)) /\ Cardinality(0..(Size - 1)) = Size - 1 - 0 + 1
    BY <1>1, FS_Interval
  <2> QED
    BY <1>1, <2>1 DEF Units
<1>3. Held(f) \in SUBSET Units
  BY DEF Held
<1>4. IsFiniteSet(Held(f)) /\ (Cardinality(Units) = Cardinality(Held(f)) => Units = Held(f))
  BY <1>2, <1>3, FS_Subset, Zenon
<1>5. Cardinality(Held(f)) \in Nat
  BY <1>4, FS_CardinalityType, Zenon
<1>6. Units = Held(f) <=> \A u \in Units : f[u] = u
  BY <1>1 DEF Held, Proper, Units, Blank
<1> QED
  BY <1>2, <1>4, <1>5, <1>6

\* A blank chunk takes its units, and the count grows by its length.
LEMMA BlankChunk ==
    ASSUME Proper(Erased), NEW c \in 1..Chunks, Programmable(c, 2)
    PROVE  /\ Proper(Programmed(c, 2))
           /\ Cardinality(Held(Programmed(c, 2))) = Cardinality(Held(Erased)) + ChunkLength(c)
<1> DEFINE f == Programmed(c, 2)
           a == 2 * (c - 1)
<1>1. Chunks \in Nat /\ Chunks > 1 /\ c \in Int /\ a \in Int
  BY UpdateAssumption
<1>2. \A u \in Target(c, 2) : u \in Int /\ u \in Units /\ Erased[u] = Blank
  BY TargetUnits, <1>1 DEF Programmable, Units, Size
<1>3. \A u \in Units : f[u] = IF u \in Target(c, 2) THEN u ELSE Erased[u]
  BY <1>1, <1>2 DEF Programmed
<1>4. f \in [Units -> Int]
  <2>1. DOMAIN f = Units /\ f = [u \in Units |-> f[u]]
    BY DEF Programmed
  <2>2. \A u \in Units : f[u] \in Int
    BY <1>2, <1>3 DEF Proper
  <2> QED
    BY <2>1, <2>2
<1> HIDE DEF f
<1>5. \A u \in Units : f[u] \in {u, Blank}
  BY <1>3 DEF Proper
<1>6. ASSUME NEW d \in 1..Chunks, NEW u \in Target(d, 2), NEW v \in Target(d, 2), f[u] = Blank
      PROVE  f[v] = Blank
  <2>1. u \in Units /\ v \in Units
    BY TargetUnits
  <2>2. d # c
    BY <1>2, <1>3, <1>6, <2>1 DEF Units, Blank, Size
  <2>3. u \notin Target(c, 2) /\ v \notin Target(c, 2)
    BY <2>2, TargetsApart
  <2> QED
    BY <1>3, <1>6, <2>1, <2>3 DEF Proper
<1>7. Proper(f)
  BY <1>4, <1>5, <1>6 DEF Proper
<1>8. Held(f) = Held(Erased) \cup Target(c, 2) /\ Held(Erased) \cap Target(c, 2) = {}
  <2>1. \A u \in Target(c, 2) : u # Blank
    BY <1>2 DEF Units, Blank
  <2> QED
    BY <1>2, <1>3, <2>1 DEF Held
<1>9. IsFiniteSet(Held(Erased)) /\ Cardinality(Held(Erased)) \in Nat
  BY HeldCount
<1>10. CASE c = Chunks
  <2>1. Target(c, 2) = {a} /\ ChunkLength(c) = 1
    BY <1>10, TargetUnits DEF ChunkLength
  <2>2. a \notin Held(Erased) /\ Held(f) = Held(Erased) \cup {a}
    BY <1>8, <2>1
  <2>3. Cardinality(Held(f)) = Cardinality(Held(Erased)) + 1
    BY <1>9, <2>2, FS_AddElement, Zenon
  <2> QED
    BY <1>7, <2>1, <2>3 DEF f
<1>11. CASE c # Chunks
  <2> DEFINE H == Held(Erased) \cup {a}
  <2>1. Target(c, 2) = {a, a + 1} /\ ChunkLength(c) = 2
    BY <1>11, TargetUnits DEF ChunkLength
  <2>2. a \notin Held(Erased) /\ a + 1 \notin Held(Erased) /\ Held(f) = H \cup {a + 1}
    BY <1>8, <2>1
  <2>3. a + 1 # a
    BY <1>1
  <2>4. IsFiniteSet(H) /\ Cardinality(H) = Cardinality(Held(Erased)) + 1
    BY <1>9, <2>2, FS_AddElement, Zenon
  <2>5. a + 1 \notin H
    BY <2>2, <2>3
  <2> HIDE DEF H
  <2>6. Cardinality(Held(f)) = Cardinality(H) + 1
    BY <2>2, <2>4, <2>5, FS_AddElement, Zenon
  <2> QED
    BY <1>7, <1>9, <2>1, <2>4, <2>6 DEF f
<1> QED
  BY <1>10, <1>11

\* A chunk that is there already changes nothing.
LEMMA HeldChunk ==
    ASSUME Proper(Erased), NEW c \in 1..Chunks, ~Programmable(c, 2)
    PROVE  Programmed(c, 2) = Erased
<1>1. PICK w \in Target(c, 2) : Erased[w] # Blank
  BY DEF Programmable
<1>2. \A u \in Target(c, 2) : Erased[u] # Blank
  BY <1>1 DEF Proper
<1>3. \A u \in Target(c, 2) : u \in Int
  BY TargetUnits DEF Units
<1>4. ASSUME NEW u \in Units, u \in Target(c, 2)
      PROVE  ~ \A v \in Target(c, 2) : v <= u => Erased[v] = Blank
  BY <1>2, <1>3, <1>4
<1>5. Programmed(c, 2) = [u \in Units |-> Erased[u]]
  BY <1>4 DEF Programmed
<1>6. Erased = [u \in Units |-> Erased[u]]
  BY DEF Proper
<1> QED
  BY <1>5, <1>6, Zenon

LEMMA UpdateInit_Inv == UpdateInit => UpdateInv
<1> SUFFICES ASSUME UpdateInit PROVE UpdateInv
  OBVIOUS
<1>1. flash = [u \in Units |-> u] /\ ~erased /\ perChunk = 0 /\ written = 0 /\ mode = "reset" /\ outcome = "idle"
  BY DEF UpdateInit
<1>2. Units \subseteq Int /\ Blank \notin Units
  BY DEF Units, Blank
<1>3. Proper(flash) /\ Whole
  BY <1>1, <1>2, TargetUnits DEF Proper, Whole
<1> QED
  BY <1>1, <1>3 DEF UpdateInv, CountInv, OutcomeInv

LEMMA Chunk_Inv ==
    ASSUME UpdateInv, Disorder = {}, NEW c \in 1..Chunks, Chunk(c)
    PROVE  UpdateInv'
<1>1. perChunk # 0 \/ c # Chunks
  BY DEF Chunk
<1>2. (IF perChunk = 0 THEN ChunkLength(c) ELSE perChunk) = 2
  BY <1>1 DEF UpdateInv, CountInv, ChunkLength
<1>3. /\ mode = "bootloader" /\ mode' = mode /\ header' = header /\ interrupted' = interrupted
      /\ header \/ written + ChunkLength(c) < Size
      /\ perChunk' = 2 /\ erased' = TRUE
      /\ flash' = Programmed(c, 2) /\ written' = Counted(c, 2)
      /\ outcome' = IF ~Programmable(c, 2) THEN "fail"
                    ELSE IF CompleteNow(written') THEN "complete" ELSE outcome
  BY <1>2 DEF Chunk, Arrives
<1>4. Proper(Erased) /\ written = Cardinality(Held(Erased))
  <2>1. CASE erased
    BY <2>1 DEF UpdateInv, CountInv, Erased
  <2>2. CASE ~erased
    <3> DEFINE blank == [u \in Units |-> Blank]
    <3>1. Erased = blank
      BY <2>2 DEF Erased
    <3>2. Proper(blank)
      BY TargetUnits DEF Proper, Blank
    <3>3. Held(blank) = {}
      BY DEF Held
    <3> QED
      BY <2>2, <3>1, <3>2, <3>3, FS_EmptySet DEF UpdateInv, CountInv
  <2> QED
    BY <2>1, <2>2
<1>5. written \in Nat /\ ChunkLength(c) \in Nat \ {0}
  BY <1>4, HeldCount DEF ChunkLength
<1>6. CASE Programmable(c, 2)
  <2>1. Proper(flash') /\ written' = Cardinality(Held(flash')) /\ written' = written + ChunkLength(c)
    BY <1>3, <1>4, <1>6, BlankChunk DEF Counted
  <2>2. outcome' = IF header /\ written' = Size THEN "complete" ELSE outcome
    BY <1>3, <1>6 DEF CompleteNow
  <2>3. written' = Size => header
    BY <1>3, <1>5, <2>1 DEF Size
  <2>4. CountInv'
    BY <1>3, <2>1 DEF CountInv
  <2>5. written' # Size => outcome' # "complete"
    <3> SUFFICES ASSUME written' # Size, outcome = "complete" PROVE FALSE
      BY <2>2
    <3>1. written = Size /\ erased /\ Proper(flash)
      BY DEF UpdateInv, OutcomeInv, CountInv
    <3>2. written = Cardinality(Held(flash))
      BY <3>1 DEF UpdateInv, CountInv
    <3>3. \A u \in Units : flash[u] = u
      BY <3>1, <3>2, HeldCount
    <3>4. PICK u \in Target(c, 2) : u \in Units
      BY TargetUnits
    <3> QED
      BY <1>6, <3>1, <3>3, <3>4 DEF Programmable, Erased, Units, Blank
  <2> QED
    BY <1>3, <2>2, <2>3, <2>4, <2>5 DEF UpdateInv, OutcomeInv
<1>7. CASE ~Programmable(c, 2)
  <2>1. flash' = Erased /\ written' = written
    BY <1>3, <1>4, <1>7, HeldChunk DEF Counted
  <2>2. outcome' = "fail"
    BY <1>3, <1>7
  <2>3. CountInv'
    BY <1>3, <1>4, <2>1 DEF CountInv
  <2> QED
    BY <1>3, <2>1, <2>2, <2>3 DEF UpdateInv, OutcomeInv
<1> QED
  BY <1>6, <1>7

LEMMA UpdateNext_Inv ==
    ASSUME Disorder = {}, UpdateInv, [UpdateNext]_updateVars
    PROVE  UpdateInv'
<1>1. (outcome = "complete" => Whole) /\ Size \in Nat /\ Size > 0
  <2>1. Size \in Nat /\ Size > 0
    BY UpdateAssumption DEF Size
  <2>2. ASSUME outcome = "complete" PROVE Whole
    <3>1. Proper(flash) /\ Cardinality(Held(flash)) = Size
      BY <2>2 DEF UpdateInv, OutcomeInv, CountInv
    <3> QED
      BY <3>1, HeldCount DEF Whole
  <2> QED
    BY <2>1, <2>2
<1>2. CASE Decide
  <2>1. mode = "reset" /\ UNCHANGED <<flash, interrupted>>
    BY <1>2 DEF Decide
  <2>2. CASE StartBootloader
    <3>1. mode' = "bootloader" /\ outcome' = "idle" /\ ~erased' /\ written' = 0 /\ perChunk' = 0
      BY <2>2 DEF StartBootloader
    <3> QED
      BY <1>1, <2>1, <3>1 DEF UpdateInv, CountInv, OutcomeInv, Proper, Size
  <2>3. CASE Valid /\ \E flags \in SUBSET cause : StartApp(flags)
    <3>1. mode' = "app" /\ UNCHANGED dfu /\ Valid
      BY <2>3 DEF StartApp
    <3> QED
      BY <2>1, <3>1 DEF UpdateInv, CountInv, OutcomeInv, Valid, Whole, dfu
  <2> QED
    BY <1>2, <2>2, <2>3 DEF Decide
<1>3. CASE RequestBootloader
  <2>1. Whole /\ mode' = "reset" /\ flash' = flash /\ UNCHANGED dfu
    BY <1>3 DEF RequestBootloader, SystemReset
  <2> QED
    BY <2>1 DEF UpdateInv, CountInv, OutcomeInv, Valid, Whole, dfu
<1>4. CASE Cut \/ Failed
  <2>1. mode' = "reset" /\ UNCHANGED flash /\ UNCHANGED dfu /\ interrupted' = (Valid /\ ~Whole)
    BY <1>4 DEF Cut, Failed, SystemReset
  <2> QED
    BY <2>1 DEF UpdateInv, CountInv, OutcomeInv, Valid, Whole, dfu
<1>5. CASE Complete
  <2>1. outcome = "complete" /\ mode' = "reset" /\ UNCHANGED flash /\ UNCHANGED dfu
    BY <1>5 DEF Complete, SystemReset
  <2> QED
    BY <1>1, <2>1 DEF UpdateInv, CountInv, OutcomeInv, Valid, Whole, dfu
<1>6. CASE FwHeader \/ BadChunk
  <2>1. mode = "bootloader" /\ UNCHANGED <<mode, flash, erased, written, perChunk>> /\ outcome' \in {outcome, "fail"}
    BY <1>6 DEF FwHeader, BadChunk, Arrives, image
  <2> QED
    BY <2>1 DEF UpdateInv, CountInv, OutcomeInv
<1>7. ASSUME NEW c \in 1..Chunks, Chunk(c) PROVE UpdateInv'
  BY <1>7, Chunk_Inv
<1>8. CASE UNCHANGED updateVars
  BY <1>8 DEF updateVars, image, dfu, UpdateInv, CountInv, OutcomeInv, Valid, Whole
<1> QED
  BY <1>2, <1>3, <1>4, <1>5, <1>6, <1>7, <1>8 DEF UpdateNext

(* For an image of any size, for chunks that come in any order but the two  *)
(* that t_boot_dfu.c calls unlikely, damaged or again, and for any number of*)
(* cuts: what the bootloader starts is a whole image, unless a cut or the   *)
(* button split the update (should_start_bootloader, dfu_mcu_write).        *)
THEOREM WholeImageRuns == ASSUME Disorder = {} PROVE UpdateSpec => []RunsWhole
<1>1. UpdateInv => RunsWhole
  BY DEF UpdateInv, OutcomeInv, RunsWhole
<1>2. UpdateInv /\ [UpdateNext]_updateVars => UpdateInv'
  BY UpdateNext_Inv
<1> QED
  BY <1>1, <1>2, UpdateInit_Inv, PTL DEF UpdateSpec

(* In the same orders: when the last unit that was missing is written, the  *)
(* count of bytes says so, and the update ends                              *)
(* (t_boot_dfu_non_sequential_process_chunk).                               *)
THEOREM UpdateEnds == ASSUME Disorder = {} PROVE UpdateSpec => []NeverStuck
<1>1. ASSUME UpdateInv PROVE NeverStuck
  <2>1. ASSUME erased, Whole PROVE written = Size
    BY <1>1, <2>1, HeldCount DEF UpdateInv, CountInv, Whole
  <2> QED
    BY <1>1, <2>1 DEF UpdateInv, OutcomeInv, NeverStuck
<1>2. UpdateInv /\ [UpdateNext]_updateVars => UpdateInv'
  BY UpdateNext_Inv
<1> QED
  BY <1>1, <1>2, UpdateInit_Inv, PTL DEF UpdateSpec
-----------------------------------------------------------------------------
(***************************************************************************)
(* Leds.                                                                   *)
(***************************************************************************)
LEMMA RunType ==
  ASSUME NEW state \in {"once", "few", "inf"}, NEW p \in Patterns, NEW pre \in BOOLEAN, NEW post \in BOOLEAN
  PROVE  Run(state, p, pre, post) \in Engines /\ Run(state, p, pre, post).state = state
  BY DEF Run, Engines

LEMMA StoppedType == Stopped \in Engines /\ Stopped.state = "stopped"
  BY DEF Stopped, Engines, Patterns

\* A step of an engine starts nothing: it goes on, or it stops.
LEMMA ExecType ==
  ASSUME NEW e \in Engines, NEW f \in Exec(e)
  PROVE  f \in Engines /\ f.state \in {e.state, "stopped"}
<1>1. /\ e.state \in {"stopped", "once", "few", "inf", "terminating"} /\ e.core \in Patterns
      /\ e.stage \in {"pre", "core", "post"} /\ e.ramp \in BOOLEAN
  BY DEF Engines
<1>2. f \in {e, Stopped, [e EXCEPT !.stage = "core"], [e EXCEPT !.stage = "post"]}
  BY DEF Exec, AfterCore
<1>3. ASSUME NEW s \in {"core", "post"}
      PROVE  [e EXCEPT !.stage = s] \in Engines /\ [e EXCEPT !.stage = s].state = e.state
  BY <1>1 DEF Engines
<1> QED
  BY <1>2, <1>3, StoppedType

LEMMA FinishType ==
  ASSUME NEW e \in Engines
  PROVE  FinishGently(e) \in Engines /\ FinishGently(e).state # "inf"
  BY DEF FinishGently, Engines
LEMMA StartedType ==
  ASSUME NEW e \in Engines, NEW p \in Long
  PROVE  Started(e, p) \in Engines
<1>1. p \in Patterns /\ Ramped(p) \in BOOLEAN /\ (p \in Levels) \in BOOLEAN
  BY DEF Patterns, Ramped
<1>2. Run("inf", p, Ramped(p), p \in Levels) \in Engines
  BY <1>1, RunType
<1> QED
  BY <1>2, FinishType DEF Started

\* The loop of update_infinite_patterns, round by round.
LEMMA Rounds ==
  ASSUME NEW e \in Engines, NEW p \in Seq(Long)
  PROVE  /\ AfterFirst(e, p) \in [0..Len(p) -> Engines]
         /\ AfterFirst(e, p)[0] = e
         /\ \A i \in 1..Len(p) : AfterFirst(e, p)[i] = Started(AfterFirst(e, p)[i - 1], p[i])
<1> DEFINE Is(f) == f = [n \in 0..Len(p) |-> IF n = 0 THEN e ELSE Started(f[n - 1], p[n])]
           round == [i \in 1..Len(p) |-> [d \in Engines |-> Started(d, p[i])]]
<1>1. Len(p) \in Nat /\ \A i \in 1..Len(p) : p[i] \in Long
  OBVIOUS
<1>2. round \in [1..Len(p) -> [Engines -> Engines]]
  BY <1>1, StartedType
<1>3. \A i \in 1..Len(p), d \in Engines : round[i][d] = Started(d, p[i])
  OBVIOUS
<1> HIDE DEF round
<1>4. PICK g \in [0..Len(p) -> Engines] : g[0] = e /\ \A i \in 1..Len(p) : g[i] = round[i][g[i - 1]]
  <2> DEFINE m == Len(p)
  <2>1. m \in Nat /\ round \in [1..m -> [Engines -> Engines]]
    BY <1>1, <1>2
  <2> HIDE DEF m
  <2>2. \E g \in [0..m -> Engines] : LoopOf(g, e, m, round)
    BY <2>1, Loop
  <2> QED
    BY <2>2 DEF m, LoopOf
<1>5. Is(g)
  <2>1. \A i \in 1..Len(p) : g[i] = Started(g[i - 1], p[i])
    <3> TAKE i \in 1..Len(p)
    <3>1. g[i - 1] \in Engines
      BY <1>1, <1>4
    <3> QED
      BY <1>3, <1>4, <3>1
  <2> DEFINE h == [n \in 0..Len(p) |-> IF n = 0 THEN e ELSE Started(g[n - 1], p[n])]
  <2>2. \A n \in 0..Len(p) : h[n] = g[n]
    BY <1>1, <1>4, <2>1
  <2>3. h = g
    <3>1. h = [n \in 0..Len(p) |-> h[n]] /\ g = [n \in 0..Len(p) |-> g[n]]
      BY <1>4
    <3> QED
      BY <2>2, <3>1
  <2> QED
    BY <2>3
<1>6. AfterFirst(e, p) = CHOOSE f : Is(f)
  BY DEF AfterFirst
<1>7. Is(CHOOSE f : Is(f))
  <2> HIDE DEF Is
  <2> QED
    BY <1>5, Zenon
<1>8. Is(AfterFirst(e, p))
  BY <1>6, <1>7
<1> DEFINE a == AfterFirst(e, p)
<1>9. a = [n \in 0..Len(p) |-> IF n = 0 THEN e ELSE Started(a[n - 1], p[n])]
  BY <1>8
<1> HIDE DEF a, Is
<1>10. a[0] = e /\ \A i \in 1..Len(p) : a[i] = Started(a[i - 1], p[i])
  BY <1>1, <1>9
<1>11. \A i \in 0..Len(p) : a[i] \in Engines
  <2> DEFINE S == {i \in 0..Len(p) : a[i] \in Engines}
  <2>1. 0 \in S
    BY <1>1, <1>10
  <2>2. ASSUME NEW k \in S, k < Len(p) PROVE k + 1 \in S
    <3>1. k + 1 \in 1..Len(p) /\ k + 1 \in 0..Len(p) /\ (k + 1) - 1 = k /\ a[k] \in Engines
      BY <1>1, <2>2
    <3>2. a[k + 1] = Started(a[k], p[k + 1])
      BY <1>10, <3>1
    <3> QED
      BY <1>1, <3>1, <3>2, StartedType
  <2>3. S \in SUBSET Nat /\ \A i \in S : a[i] \in Engines
    BY <1>1
  <2> HIDE DEF S
  <2>4. \A i \in 0..Len(p) : i \in S
    <3> TAKE i \in 0..Len(p)
    <3>1. i \in Nat /\ \A k \in S : k < i => k + 1 \in S
      BY <1>1, <2>2, <2>3
    <3> QED
      BY <2>1, <2>3, <3>1, Below
  <2> QED
    BY <2>3, <2>4
<1>12. a \in [0..Len(p) -> Engines]
  BY <1>9, <1>11
<1> QED
  BY <1>10, <1>12 DEF a
LEMMA PatternLists ==
  /\ StatusPatterns \in Seq(Long) /\ Len(StatusPatterns) = 4
  /\ SourcePatterns \in Seq(Long) /\ Len(SourcePatterns) = 9
  /\ \A i \in 1..4 : StatusPatterns[i] \in Long
  /\ \A i \in 1..9 : SourcePatterns[i] \in Long
  BY DEF StatusPatterns, SourcePatterns, Long, Levels, BtStatuses, Connected, PairingStatus

LEMMA UpdatedType ==
  ASSUME NEW e \in Engines
  PROVE  Updated(e, StatusPatterns) \in Engines /\ Updated(e, SourcePatterns) \in Engines
<1>1. ASSUME NEW p \in Seq(Long) PROVE AfterFirst(e, p)[Len(p)] \in Engines
  BY Rounds
<1> QED
  BY <1>1, PatternLists DEF Updated

IndicatedState(e) == e.state \in {"once", "few"}

LEMMA IndicatedType ==
  /\ Indicated \subseteq Engines
  /\ \A e \in Indicated : IndicatedState(e)
<1> DEFINE b == ~Running(statusLed)
<1>1. "short" \in Patterns /\ b \in BOOLEAN
  BY DEF Patterns, Running
<1> HIDE DEF b
<1>2. Run("few", "short", b, TRUE) \in Engines /\ IndicatedState(Run("few", "short", b, TRUE))
  BY <1>1, RunType DEF IndicatedState
<1>3. ASSUME NEW m \in {"once", "few"}, NEW c \in BOOLEAN
      PROVE  Run(m, "short", c, FALSE) \in Engines /\ IndicatedState(Run(m, "short", c, FALSE))
  BY <1>1 DEF IndicatedState, Run, Engines
<1> QED
  BY <1>2, <1>3 DEF Indicated, b

\* The pattern that the status LED runs for ever is one of its conditions',
\* and the source LED is not left with one for ever when the speaker goes off.
LedInv ==
    /\ LedTypeOK
    /\ statusLed.state = "inf" => \E j \in 1..4 : statusLed.core = StatusPatterns[j]
    /\ power \in {"preOff", "off"} => sourceLed.state # "inf" \/ pressed

LEMMA LedInit_Inv == LedInit => LedInv
<1> SUFFICES ASSUME LedInit PROVE LedInv
  OBVIOUS
<1>1. LedTypeOK
  BY StoppedType DEF LedInit, LedTypeOK, BtStatuses, Connected, Levels
<1> QED
  BY <1>1, StoppedType DEF LedInit, LedInv
\* One round: the pattern of its condition runs for ever only if that holds.
LEMMA OneRound ==
  ASSUME NEW e \in Engines, NEW p \in Long, NEW f, f = Started(e, p)
  PROVE  /\ f.state = "inf" => (f.core = p /\ Due(p)) \/ (f = e /\ e.core # p)
         /\ Due(p) => Running(f) /\ f.core = p
         /\ ~Due(p) => f = e \/ f.core = p
<1> DEFINE r == Run("inf", p, Ramped(p), p \in Levels)
<1>1. Running(r) /\ r.core = p /\ r.state = "inf"
  BY DEF Run, Running
<1>2. FinishGently(e).state # "inf" /\ FinishGently(e).core = e.core
  BY DEF FinishGently, Engines
<1>3. CASE ~RunningIt(e, p) /\ Due(p)
  <2>1. f = r
    BY <1>3 DEF Started
  <2> HIDE DEF r
  <2> QED
    BY <1>1, <1>3, <2>1
<1>4. CASE RunningIt(e, p) /\ ~Due(p)
  BY <1>2, <1>4 DEF Started, RunningIt
<1>5. CASE RunningIt(e, p) /\ Due(p)
  <2>1. f = e
    BY <1>5 DEF Started
  <2> QED
    BY <1>5, <2>1 DEF RunningIt
<1>6. CASE ~RunningIt(e, p) /\ ~Due(p)
  <2>1. f = e
    BY <1>6 DEF Started
  <2>2. e.state = "inf" => e.core # p
    BY <1>6 DEF RunningIt, Running
  <2> QED
    BY <1>6, <2>1, <2>2
<1> QED
  BY <1>3, <1>4, <1>5, <1>6

\* After the loop over the conditions of the status LED one of them that holds
\* runs for ever, or nothing does.
LEMMA StatusRounds ==
  ASSUME NEW e \in Engines, e.state = "inf" => \E j \in 1..4 : e.core = StatusPatterns[j]
  PROVE  LET f == Updated(e, StatusPatterns) IN
         f.state = "inf" => Due(f.core) /\ \E j \in 1..4 : f.core = StatusPatterns[j]
<1> DEFINE a == AfterFirst(e, StatusPatterns)
           Fits(i) == \E j \in 1..4 : a[i].core = StatusPatterns[j] /\ (Due(a[i].core) \/ j > i)
           S == {i \in 0..4 : a[i].state = "inf" => Fits(i)}
<1>1. /\ a \in [0..4 -> Engines] /\ a[0] = e
      /\ \A i \in 1..4 : a[i] = Started(a[i - 1], StatusPatterns[i])
      /\ \A i \in 1..4 : StatusPatterns[i] \in Long
  <2>1. StatusPatterns \in Seq(Long) /\ Len(StatusPatterns) = 4
    BY PatternLists
  <2>2. /\ a \in [0..Len(StatusPatterns) -> Engines] /\ a[0] = e
        /\ \A i \in 1..Len(StatusPatterns) : a[i] = Started(a[i - 1], StatusPatterns[i])
    BY <2>1, Rounds
  <2> HIDE DEF a
  <2> QED
    BY <2>1, <2>2, PatternLists
<1> HIDE DEF a
<1>2. 0 \in S
  BY <1>1
<1>3. ASSUME NEW k \in S, k < 4 PROVE k + 1 \in S
  <2>1. k \in 0..4 /\ k + 1 \in 1..4 /\ k + 1 \in 0..4 /\ (k + 1) - 1 = k /\ (a[k].state = "inf" => Fits(k))
    BY <1>3
  <2> DEFINE p == StatusPatterns[k + 1]
  <2>2. a[k + 1] = Started(a[k], p) /\ a[k] \in Engines /\ p \in Long
    BY <1>1, <2>1
  <2>3. SUFFICES ASSUME a[k + 1].state = "inf" PROVE Fits(k + 1)
    BY <2>1
  <2>4. CASE a[k + 1].core = p /\ Due(p)
    BY <2>1, <2>4
  <2>5. CASE a[k + 1] = a[k] /\ a[k].core # p
    <3>1. PICK j \in 1..4 : a[k].core = StatusPatterns[j] /\ (Due(a[k].core) \/ j > k)
      BY <2>1, <2>3, <2>5
    <3>2. j # k + 1
      BY <2>5, <3>1
    <3> QED
      BY <2>1, <2>5, <3>1, <3>2
  <2> HIDE DEF p
  <2> QED
    BY <2>2, <2>3, <2>4, <2>5, OneRound
<1>4. 4 \in S
  <2> HIDE DEF S
  <2>1. S \in SUBSET Nat
    BY DEF S
  <2> QED
    BY <1>2, <1>3, <2>1, Below
<1>5. a[4].state = "inf" => Due(a[4].core) /\ \E j \in 1..4 : a[4].core = StatusPatterns[j]
  BY <1>4
<1>6. CASE Free(e)
  BY <1>5, <1>6, PatternLists DEF Updated, a
<1>7. CASE ~Free(e)
  <2>1. Updated(e, StatusPatterns) = e /\ e.core \notin Long
    BY <1>7 DEF Updated, Free
  <2> QED
    BY <1>1, <2>1
<1> QED
  BY <1>6, <1>7

\* After the loop over the sources the LED shows the status.
LEMMA SourceRounds ==
  ASSUME NEW e \in Engines, Free(e), btStatus \in BtStatuses
  PROVE  Running(Updated(e, SourcePatterns)) /\ Updated(e, SourcePatterns).core = btStatus
<1> DEFINE a == AfterFirst(e, SourcePatterns)
<1>1. /\ a \in [0..9 -> Engines] /\ a[0] = e
      /\ \A i \in 1..9 : a[i] = Started(a[i - 1], SourcePatterns[i])
      /\ \A i \in 1..9 : SourcePatterns[i] \in Long
  <2>1. SourcePatterns \in Seq(Long) /\ Len(SourcePatterns) = 9
    BY PatternLists
  <2>2. /\ a \in [0..Len(SourcePatterns) -> Engines] /\ a[0] = e
        /\ \A i \in 1..Len(SourcePatterns) : a[i] = Started(a[i - 1], SourcePatterns[i])
    BY <2>1, Rounds
  <2> HIDE DEF a
  <2> QED
    BY <2>1, <2>2, PatternLists
<1>2. PICK j \in 1..9 : SourcePatterns[j] = btStatus
  BY DEF SourcePatterns, BtStatuses, Connected, PairingStatus
<1>3. \A i \in 1..9 : Due(SourcePatterns[i]) <=> SourcePatterns[i] = btStatus
  BY DEF SourcePatterns, Due, Levels
<1>4. \A i \in 1..9 : i # j => SourcePatterns[i] # btStatus
  BY <1>2 DEF SourcePatterns
<1> DEFINE S == {i \in 0..9 : i >= j => Running(a[i]) /\ a[i].core = btStatus}
<1> HIDE DEF a
<1>5. 0 \in S
  BY <1>2
<1>6. ASSUME NEW k \in S, k < 9 PROVE k + 1 \in S
  <2>1. k \in 0..9 /\ k + 1 \in 1..9 /\ k + 1 \in 0..9 /\ (k + 1) - 1 = k
    BY <1>6
  <2>2. a[k + 1] = Started(a[k], SourcePatterns[k + 1]) /\ a[k] \in Engines /\ SourcePatterns[k + 1] \in Long
    BY <1>1, <2>1
  <2>3. CASE k + 1 = j
    <3>1. Due(SourcePatterns[k + 1]) /\ SourcePatterns[k + 1] = btStatus
      BY <1>2, <1>3, <2>1, <2>3
    <3> QED
      BY <2>1, <2>2, <3>1, OneRound
  <2>4. CASE k + 1 < j
    BY <2>1, <2>4
  <2>5. CASE k + 1 > j
    <3>1. ~Due(SourcePatterns[k + 1]) /\ SourcePatterns[k + 1] # btStatus
      BY <1>3, <1>4, <2>1, <2>5
    <3>2. Running(a[k]) /\ a[k].core = btStatus
      BY <1>6, <2>1, <2>5
    <3>3. a[k + 1] = a[k]
      BY <2>2, <3>1, <3>2 DEF Started, RunningIt
    <3> QED
      BY <2>1, <3>2, <3>3
  <2> QED
    BY <1>2, <2>1, <2>3, <2>4, <2>5
<1>7. 9 \in S
  <2> HIDE DEF S
  <2>1. S \in SUBSET Nat
    BY DEF S
  <2> QED
    BY <1>5, <1>6, <2>1, Below
<1>8. Running(a[9]) /\ a[9].core = btStatus
  BY <1>2, <1>7
<1> QED
  BY <1>8, PatternLists DEF Updated, a
LEMMA DimType == ASSUME LedTypeOK, DimTick PROVE dim' \in {"no", "dimming", "dimmed"} /\ bright' \in BOOLEAN
<1>1. dim \in {"no", "dimming", "dimmed"} /\ bright \in BOOLEAN /\ idleFor \in BOOLEAN
  BY DEF LedTypeOK
<1>2. dim' \in {"no", "dimming", "dimmed"}
  BY <1>1 DEF DimTick, Dim
<1> QED
  BY <1>2 DEF DimTick

\* What a tick leaves on the two LEDs.
LEMMA TickShows ==
  ASSUME LedInv, Tick
  PROVE  /\ statusLed' \in Engines /\ sourceLed' \in Engines
         /\ statusLed'.state = "inf" => Due(statusLed'.core) /\ \E j \in 1..4 : statusLed'.core = StatusPatterns[j]
         /\ power = "on" /\ sourceLed.core # "short" => sourceLed'.core \in {btStatus, "none"}
         /\ power # "on" /\ sourceLed.state # "inf" => sourceLed'.state # "inf"
<1> DEFINE s == Updated(statusLed, StatusPatterns)
           u == Updated(sourceLed, SourcePatterns)
<1>0. /\ statusLed \in Engines /\ sourceLed \in Engines /\ btStatus \in BtStatuses
      /\ statusLed.state = "inf" => \E j \in 1..4 : statusLed.core = StatusPatterns[j]
  BY DEF LedInv, LedTypeOK
<1>1. s \in Engines /\ statusLed' \in Exec(s)
  BY <1>0, UpdatedType DEF Tick
<1>2. s.state = "inf" => Due(s.core) /\ \E j \in 1..4 : s.core = StatusPatterns[j]
  BY <1>0, StatusRounds
<1> HIDE DEF s
<1>3. \A e \in Engines : \A f \in Exec(e) : f.state = "inf" => f.core = e.core
  BY DEF Exec, AfterCore, Stopped, Engines
<1>4. \A e \in Engines : \A f \in Exec(e) : f.core \in {e.core, "none"}
  BY DEF Exec, AfterCore, Stopped, Engines
<1>5. /\ statusLed' \in Engines
      /\ statusLed'.state = "inf" => Due(statusLed'.core) /\ \E j \in 1..4 : statusLed'.core = StatusPatterns[j]
  <2>1. statusLed' \in Engines /\ statusLed'.state \in {s.state, "stopped"}
    BY <1>1, ExecType
  <2>2. CASE statusLed'.state = "inf"
    <3>1. statusLed'.core = s.core /\ s.state = "inf"
      BY <1>1, <1>3, <2>1, <2>2
    <3> QED
      BY <1>2, <2>1, <3>1
  <2> QED
    BY <2>1, <2>2
<1>6. CASE power = "on"
  <2>1. u \in Engines /\ sourceLed' \in Exec(u)
    BY <1>0, <1>6, UpdatedType DEF Tick
  <2>2. sourceLed.core # "short" => u.core \in {btStatus, "none"}
    <3>1. CASE Free(sourceLed)
      BY <1>0, <3>1, SourceRounds
    <3>2. CASE ~Free(sourceLed)
      <4>1. u = sourceLed
        BY <3>2 DEF Updated
      <4>2. sourceLed.core \in {"short", "none"}
        BY <1>0, <3>2 DEF Free, Engines, Patterns
      <4> QED
        BY <4>1, <4>2
    <3> QED
      BY <3>1, <3>2
  <2> HIDE DEF u
  <2>3. sourceLed' \in Engines /\ sourceLed'.core \in {u.core, "none"}
    BY <1>4, <2>1, ExecType
  <2> QED
    BY <1>5, <1>6, <2>2, <2>3
<1>7. CASE power # "on"
  <2>1. sourceLed' \in Exec(sourceLed)
    BY <1>7 DEF Tick
  <2>2. sourceLed' \in Engines /\ sourceLed'.state \in {sourceLed.state, "stopped"}
    BY <1>0, <2>1, ExecType
  <2> QED
    BY <1>5, <1>7, <2>2
<1> QED
  BY <1>6, <1>7

LEMMA LedNext_Inv == LedInv /\ [LedNext]_ledVars => LedInv'
<1> SUFFICES ASSUME LedInv, [LedNext]_ledVars PROVE LedInv'
  OBVIOUS
<1>0. /\ LedTypeOK /\ statusLed \in Engines /\ sourceLed \in Engines
      /\ statusLed.state = "inf" => \E j \in 1..4 : statusLed.core = StatusPatterns[j]
      /\ power \in {"preOff", "off"} => sourceLed.state # "inf" \/ pressed
  BY DEF LedInv, LedTypeOK
<1>1. CASE Tick
  <2>1. LedTypeOK'
    BY <1>0, <1>1, TickShows, DimType DEF LedTypeOK, Tick
  <2>2. power' = power /\ pressed' = pressed
    BY <1>1 DEF Tick
  <2> QED
    BY <1>0, <1>1, <2>1, <2>2, TickShows DEF LedInv
<1>2. CASE IndicateStatus
  <2>1. PICK e \in Indicated : statusLed' = e /\ sourceLed' = sourceLed
    BY <1>2 DEF IndicateStatus, Show
  <2>2. e \in Engines /\ e.state # "inf"
    BY IndicatedType DEF IndicatedState
  <2>3. UNCHANGED <<Static, power, pressed>>
    BY <1>2 DEF IndicateStatus
  <2>4. LedTypeOK'
    BY <1>0, <2>1, <2>2, <2>3 DEF LedTypeOK, Static
  <2> QED
    BY <1>0, <2>1, <2>2, <2>3, <2>4 DEF LedInv
<1>3. CASE IndicateSource
  <2>1. PICK m \in {"once", "few"} : statusLed' = statusLed /\ sourceLed' = Run(m, "short", FALSE, FALSE)
    BY <1>3 DEF IndicateSource, Show
  <2>2. sourceLed' \in Engines /\ sourceLed'.state # "inf"
    BY <2>1 DEF Run, Engines, Patterns
  <2>3. UNCHANGED <<Static, power, pressed>>
    BY <1>3 DEF IndicateSource
  <2>4. LedTypeOK'
    BY <1>0, <2>1, <2>2, <2>3 DEF LedTypeOK, Static
  <2> QED
    BY <1>0, <2>1, <2>2, <2>3, <2>4 DEF LedInv
<1>4. CASE PressBt
  <2>1. /\ statusLed' = statusLed /\ power # "off"
        /\ UNCHANGED <<watched, power, btStatus, moist, charging, level>>
        /\ idleFor' = FALSE /\ dim' = "no" /\ bright' = TRUE /\ pressed' = (pressed \/ power = "preOff")
    BY <1>4 DEF PressBt, Show
  <2>2. sourceLed' \in Engines
    <3>1. CASE btStatus \in Connected
      <4> DEFINE b == Ramped(btStatus) /\ ~Running(sourceLed)
      <4>1. b \in BOOLEAN /\ btStatus \in Patterns
        BY <3>1 DEF Patterns, Long, BtStatuses
      <4>2. sourceLed' = Run("inf", btStatus, b, FALSE)
        BY <1>4, <3>1 DEF PressBt, Show
      <4> HIDE DEF b
      <4> QED
        BY <4>1, <4>2 DEF Run, Engines
    <3>2. CASE btStatus \notin Connected
      BY <1>0, <1>4, <3>2, FinishType DEF PressBt, Show
    <3> QED
      BY <3>1, <3>2
  <2>3. pressed' \in BOOLEAN
    BY <2>1
  <2>4. LedTypeOK'
    BY <1>0, <2>1, <2>2, <2>3 DEF LedTypeOK
  <2> QED
    BY <1>0, <2>1, <2>2, <2>4 DEF LedInv
<1>5. CASE Power
  <2>1. /\ UNCHANGED Static /\ pressed' = (pressed /\ power' = "off")
        /\ power' \in {"off", "preOn", "on", "preOff"}
    BY <1>5 DEF Power, PowerStep
  <2>2. pressed' \in BOOLEAN
    BY <2>1
  <2> DEFINE b == ~Running(statusLed)
  <2>3. "short" \in Patterns /\ b \in BOOLEAN
    BY DEF Patterns
  <2>4. Run("few", "short", b, TRUE) \in Engines /\ Run("few", "short", b, TRUE).state # "inf"
    <3> HIDE DEF b
    <3> QED
      BY <2>3 DEF Run, Engines
  <2>5. statusLed' \in Engines /\ (statusLed'.state = "inf" => statusLed' = statusLed)
    BY <1>0, <1>5, <2>4, IndicatedType DEF Power, PowerStep, Show, IndicatedState
  <2>6. PreOffSource \in Engines /\ PreOffSource.state # "inf"
    BY <2>3 DEF PreOffSource, Run, Engines
  <2>7. /\ sourceLed' \in {sourceLed, PreOffSource}
        /\ power' = "preOff" => sourceLed' = PreOffSource
        /\ power' = "off" => power = "preOff" /\ sourceLed' = sourceLed
    BY <1>5 DEF Power, PowerStep, Show
  <2>8. LedTypeOK'
    BY <1>0, <2>1, <2>2, <2>5, <2>6, <2>7 DEF LedTypeOK, Static
  <2>9. power' \in {"preOff", "off"} => sourceLed'.state # "inf" \/ pressed'
    BY <1>0, <2>1, <2>6, <2>7
  <2> QED
    BY <1>0, <2>5, <2>8, <2>9 DEF LedInv
<1>6. CASE Environment
  <2>1. UNCHANGED <<watched, power, statusLed, sourceLed, dim, pressed>>
    BY <1>6 DEF Environment
  <2>2. /\ btStatus' \in BtStatuses /\ moist' \in BOOLEAN /\ charging' \in BOOLEAN
        /\ level' \in Levels /\ bright' \in BOOLEAN /\ idleFor' \in BOOLEAN
    BY <1>0, <1>6 DEF Environment, LedTypeOK
  <2>3. LedTypeOK'
    BY <1>0, <2>1, <2>2 DEF LedTypeOK
  <2> QED
    BY <1>0, <2>1, <2>3 DEF LedInv
<1>7. CASE UNCHANGED ledVars
  BY <1>7 DEF LedInv, LedTypeOK, ledVars
<1> QED
  BY <1>1, <1>2, <1>3, <1>4, <1>5, <1>6, <1>7 DEF LedNext

(* A speaker that is off has no pattern for ever on its source LED, in any   *)
(* behaviour of the conditions, the messages and the buttons: PreOff         *)
(* replaces the one of the status, and only a press of BT after it starts    *)
(* another (set_source_pattern, get_connected_source_pattern).               *)
THEOREM DarkWhenOff == LedSpec => []OffIsDark
<1>1. LedInv => OffIsDark
  BY DEF LedInv, OffIsDark
<1> QED
  BY <1>1, LedInit_Inv, LedNext_Inv, PTL DEF LedSpec

(* Whatever was on the LEDs, after a tick the source LED shows the status    *)
(* and the pattern that the status LED runs for ever is one whose condition  *)
(* holds: the loop of update_infinite_patterns, which passes each LED        *)
(* through all its patterns in turn, leaves the one that is due.             *)
THEOREM TickFollows == LedSpec => LedsFollow
<1>1. LedInv /\ [LedNext]_ledVars
      => [Tick => /\ power = "on" /\ sourceLed.core # "short" => sourceLed'.core \in {btStatus, "none"}
                  /\ statusLed'.state = "inf" => Due(statusLed'.core)]_ledVars
  BY TickShows
<1> QED
  BY <1>1, LedInit_Inv, LedNext_Inv, PTL DEF LedSpec, LedsFollow
-----------------------------------------------------------------------------
(***************************************************************************)
(* Types.                                                                  *)
(***************************************************************************)
LEMMA I2cInitType == I2cInit => I2cTypeOK
<1> SUFFICES ASSUME I2cInit PROVE I2cTypeOK
  OBVIOUS
<1>1. Retries \in Nat /\ 0 \in 0..Retries
  BY I2cAssumption
<1>2. /\ at \in [Users -> {"out", "lock", "start", "wait", "return"}]
      /\ kind \in [Users -> {"read", "write"}] /\ tries \in [Users -> 0..Retries]
      /\ result \in [Users -> -4..0] /\ done \in [Users -> BOOLEAN]
  BY <1>1 DEF I2cInit
<1>3. holder \in Users \cup {Nobody} /\ transfer \in [by : Users \cup {Nobody}, stuck : BOOLEAN]
  BY DEF I2cInit, NoTransfer
<1>4. given \in BOOLEAN /\ err \in BOOLEAN /\ halted \in BOOLEAN /\ overdue \in BOOLEAN
  BY DEF I2cInit
<1> QED
  BY <1>2, <1>3, <1>4 DEF I2cTypeOK

LEMMA I2cNextType == I2cTypeOK /\ [I2cNext]_i2c => I2cTypeOK'
<1> SUFFICES ASSUME I2cTypeOK, [I2cNext]_i2c PROVE I2cTypeOK'
  OBVIOUS
<1>0. /\ at \in [Users -> {"out", "lock", "start", "wait", "return"}]
      /\ kind \in [Users -> {"read", "write"}] /\ tries \in [Users -> 0..Retries]
      /\ result \in [Users -> -4..0] /\ done \in [Users -> BOOLEAN]
      /\ holder \in Users \cup {Nobody} /\ transfer \in [by : Users \cup {Nobody}, stuck : BOOLEAN]
      /\ given \in BOOLEAN /\ err \in BOOLEAN /\ halted \in BOOLEAN /\ overdue \in BOOLEAN
      /\ Retries \in Nat
  BY I2cAssumption DEF I2cTypeOK
<1> USE <1>0
<1>1. CASE Interrupt
  <2>1. PICK failed \in BOOLEAN : err' = failed /\ done' = [done EXCEPT ![transfer.by] = ~failed]
    BY <1>1 DEF Interrupt
  <2>2. done' \in [Users -> BOOLEAN] /\ err' \in BOOLEAN
    BY <2>1
  <2>3. given' \in BOOLEAN /\ transfer' \in [by : Users \cup {Nobody}, stuck : BOOLEAN]
    BY <1>1 DEF Interrupt, NoTransfer
  <2> QED
    BY <1>1, <2>2, <2>3 DEF Interrupt, I2cTypeOK
<1>2. ASSUME NEW t \in Users, CallBus(t) PROVE I2cTypeOK'
  <2>1. kind' \in [Users -> {"read", "write"}] /\ tries' \in [Users -> 0..Retries]
        /\ at' \in [Users -> {"out", "lock", "start", "wait", "return"}]
    BY <1>2 DEF CallBus, Go
  <2> QED
    BY <1>2, <2>1 DEF CallBus, I2cTypeOK
<1>3. ASSUME NEW t \in Users, Lock(t) \/ LockTimeout(t) PROVE I2cTypeOK'
  <2>1. at' \in [Users -> {"out", "lock", "start", "wait", "return"}]
        /\ holder' \in Users \cup {Nobody} /\ result' \in [Users -> -4..0]
    BY <1>3 DEF Lock, LockTimeout, Ends, Go
  <2> QED
    BY <1>3, <2>1 DEF Lock, LockTimeout, I2cTypeOK
<1>4. ASSUME NEW t \in Users, Start(t) PROVE I2cTypeOK'
  <2>1. done' \in [Users -> BOOLEAN]
    BY <1>4 DEF Start
  <2>2. /\ transfer' \in [by : Users \cup {Nobody}, stuck : BOOLEAN]
        /\ at' \in [Users -> {"out", "lock", "start", "wait", "return"}]
        /\ result' \in [Users -> -4..0]
    BY <1>4 DEF Start, Ends, Go
  <2> QED
    BY <1>4, <2>1, <2>2 DEF Start, I2cTypeOK
<1>5. ASSUME NEW t \in Users, Completed(t) \/ WaitTimeout(t) PROVE I2cTypeOK'
  <2>1. Outcome \in -4..0
    BY DEF Outcome
  <2>2. /\ at' \in [Users -> {"out", "lock", "start", "wait", "return"}]
        /\ result' \in [Users -> -4..0] /\ given' \in BOOLEAN /\ overdue' \in BOOLEAN
    <3>1. CASE Completed(t)
      BY <2>1, <3>1 DEF Completed, Ends, Go
    <3>2. CASE WaitTimeout(t)
      BY <3>2 DEF WaitTimeout, Ends, Go
    <3> QED
      BY <1>5, <3>1, <3>2
  <2> QED
    BY <1>5, <2>2 DEF Completed, WaitTimeout, I2cTypeOK
<1>6. ASSUME NEW t \in Users, Return(t) PROVE I2cTypeOK'
  <2>1. holder' \in Users \cup {Nobody} /\ halted' \in BOOLEAN
    BY <1>6 DEF Return
  <2>2. at' \in [Users -> {"out", "lock", "start", "wait", "return"}]
    BY <1>6 DEF Return, Go
  <2>3. /\ kind' \in [Users -> {"read", "write"}] /\ tries' \in [Users -> 0..Retries]
        /\ result' \in [Users -> -4..0] /\ done' \in [Users -> BOOLEAN]
    <3>1. CASE Forget(t)
      BY <3>1 DEF Forget
    <3>2. CASE Left(t) > 0 /\ tries' = [tries EXCEPT ![t] = Left(t)] /\ UNCHANGED <<kind, result, done>>
      <4>1. Left(t) \in 0..Retries
        BY <3>2 DEF Left
      <4> QED
        BY <3>2, <4>1
    <3> QED
      BY <1>6, <3>1, <3>2 DEF Return
  <2> QED
    BY <1>6, <2>1, <2>2, <2>3 DEF Return, I2cTypeOK
<1>7. CASE UNCHANGED i2c
  BY <1>7 DEF i2c, I2cTypeOK
<1> QED
  BY <1>1, <1>2, <1>3, <1>4, <1>5, <1>6, <1>7 DEF I2cNext, CallStep

\* The count of the bytes is that of the units programmed, and so no larger
\* than the image.
LEMMA UpdateInitType == UpdateInit => UpdateTypeOK
<1> SUFFICES ASSUME UpdateInit PROVE UpdateTypeOK
  OBVIOUS
<1>1. Size \in Nat /\ Deliveries \in Nat /\ Cuts \in Nat
  BY UpdateAssumption DEF Size
<1>2. flash \in [Units -> Units \cup {Blank}]
  BY DEF UpdateInit
<1>3. access \in BOOLEAN /\ erased \in BOOLEAN /\ header \in BOOLEAN /\ poweredOn \in BOOLEAN
      /\ updated \in BOOLEAN /\ interrupted \in BOOLEAN
  BY DEF UpdateInit
<1> QED
  BY <1>1, <1>2, <1>3 DEF UpdateInit, UpdateTypeOK

Counts == written \in 0..Size /\ flash \in [Units -> Units \cup {Blank}]

LEMMA CountedUnits == UpdateInv => Counts
<1> SUFFICES ASSUME UpdateInv PROVE Counts
  OBVIOUS
<1>1. Size \in Nat /\ Size > 0 /\ Proper(flash)
  BY UpdateAssumption DEF Size, UpdateInv, CountInv
<1>2. IsFiniteSet(Units) /\ Cardinality(Units) = Size
  <2>1. IsFiniteSet(0..(Size - 1)) /\ Cardinality(0..(Size - 1)) = Size - 1 - 0 + 1
    BY <1>1, FS_Interval
  <2> QED
    BY <1>1, <2>1 DEF Units
<1>3. Held(flash) \subseteq Units
  BY DEF Held
<1>4. Cardinality(Held(flash)) \in Nat /\ Cardinality(Held(flash)) <= Size
  BY <1>1, <1>2, <1>3, FS_Subset, HeldCount
<1>5. written \in 0..Size
  BY <1>1, <1>4 DEF UpdateInv, CountInv
<1> QED
  BY <1>1, <1>5 DEF Proper, Counts

LEMMA UpdateNextType == UpdateTypeOK /\ Counts' /\ [UpdateNext]_updateVars => UpdateTypeOK'
<1> SUFFICES ASSUME UpdateTypeOK, Counts', [UpdateNext]_updateVars PROVE UpdateTypeOK'
  OBVIOUS
<1> DEFINE Bools == access \in BOOLEAN /\ erased \in BOOLEAN /\ header \in BOOLEAN
                    /\ poweredOn \in BOOLEAN /\ updated \in BOOLEAN /\ interrupted \in BOOLEAN
           Names == /\ mode \in {"reset", "bootloader", "app"}
                    /\ bkp \in {"none", "request", "done"} /\ cause \subseteq {"power", "soft"}
                    /\ outcome \in {"idle", "complete", "fail"}
                    /\ perChunk \in 0..2 /\ sectors \in 0..Deliveries /\ cuts \in 0..Cuts
<1>0. Bools /\ Names /\ Deliveries \in Nat /\ Cuts \in Nat
  BY UpdateAssumption DEF UpdateTypeOK
<1>1. ASSUME Bools', Names' PROVE UpdateTypeOK'
  BY <1>1 DEF UpdateTypeOK, Counts
<1>2. CASE Decide
  <2>1. CASE StartBootloader
    <3>1. Bools'
      BY <1>0, <1>2, <2>1 DEF Decide, StartBootloader, Valid
    <3>2. Names'
      BY <1>0, <1>2, <2>1 DEF Decide, StartBootloader
    <3> QED
      BY <1>1, <3>1, <3>2
  <2>2. ASSUME NEW flags \in SUBSET {"power", "soft"}, StartApp(flags) PROVE UpdateTypeOK'
    <3>1. Bools'
      BY <1>0, <1>2, <2>2 DEF Decide, StartApp, dfu
    <3>2. Names'
      BY <1>0, <1>2, <2>2 DEF Decide, StartApp, dfu
    <3> QED
      BY <1>1, <3>1, <3>2
  <2> QED
    BY <1>0, <1>2, <2>1, <2>2 DEF Decide
<1>3. CASE RequestBootloader \/ Failed \/ Complete
  <2>1. PICK ends \in BOOLEAN : SystemReset(ends) /\ bkp' \in {bkp, "request", "done"}
    BY <1>3 DEF RequestBootloader, Failed, Complete
  <2>2. Bools'
    BY <1>0, <2>1 DEF SystemReset, dfu
  <2>3. Names'
    BY <1>0, <2>1 DEF SystemReset, dfu
  <2> QED
    BY <1>1, <2>2, <2>3
<1>4. CASE Cut
  <2>1. Bools'
    BY <1>0, <1>4 DEF Cut, dfu
  <2>2. Names'
    BY <1>0, <1>4 DEF Cut, dfu
  <2> QED
    BY <1>1, <2>1, <2>2
<1>5. CASE FwHeader \/ BadChunk
  <2>1. Bools'
    BY <1>0, <1>5 DEF FwHeader, BadChunk, Arrives, image
  <2>2. sectors' \in 0..Deliveries
    BY <1>0, <1>5 DEF FwHeader, BadChunk, Arrives
  <2>3. mode' = mode /\ bkp' = bkp /\ cause' = cause /\ perChunk' = perChunk /\ cuts' = cuts
    BY <1>5 DEF FwHeader, BadChunk, image
  <2>4. outcome' \in {outcome, "fail"}
    BY <1>5 DEF FwHeader, BadChunk
  <2>5. Names'
    BY <1>0, <2>2, <2>3, <2>4
  <2> QED
    BY <1>1, <2>1, <2>5
<1>6. ASSUME NEW c \in 1..Chunks, Chunk(c) PROVE UpdateTypeOK'
  <2>1. Bools'
    BY <1>0, <1>6 DEF Chunk, Arrives
  <2>2. ChunkLength(c) \in 0..2
    BY DEF ChunkLength
  <2>3. Names'
    BY <1>0, <1>6, <2>2 DEF Chunk, Arrives
  <2> QED
    BY <1>1, <2>1, <2>3
<1>7. CASE UNCHANGED updateVars
  <2>1. Bools' /\ Names'
    BY <1>0, <1>7 DEF updateVars, image, dfu
  <2> QED
    BY <1>1, <2>1
<1> QED
  BY <1>2, <1>3, <1>4, <1>5, <1>6, <1>7 DEF UpdateNext

(***************************************************************************)
(* FactoryTests.                                                           *)
(***************************************************************************)
LEMMA TestsInitType == TestsInit => TestsTypeOK
<1> SUFFICES ASSUME TestsInit PROVE TestsTypeOK
  OBVIOUS
<1>1. 0 \in TestAges
  BY TestsAssumption DEF TestAges
<1>2. testMode \in BOOLEAN /\ ledTest \in BOOLEAN /\ keyTest \in BOOLEAN /\ prompt \in BOOLEAN
      /\ finishing \in BOOLEAN /\ limit \in BOOLEAN /\ applied \in BOOLEAN /\ above \in BOOLEAN
  BY DEF TestsInit
<1> QED
  BY <1>1, <1>2 DEF TestsInit, TestsTypeOK

LEMMA TestsNextType == TestsTypeOK /\ [TestsNext]_tests => TestsTypeOK'
<1> SUFFICES ASSUME TestsTypeOK, [TestsNext]_tests PROVE TestsTypeOK'
  OBVIOUS
<1> DEFINE Bools == testMode \in BOOLEAN /\ ledTest \in BOOLEAN /\ keyTest \in BOOLEAN
                    /\ prompt \in BOOLEAN /\ finishing \in BOOLEAN /\ limit \in BOOLEAN
                    /\ applied \in BOOLEAN /\ above \in BOOLEAN
           Values == /\ startAge \in TestAges \cup {NotStarted} /\ keys \subseteq TestKeys
                     /\ testAge \in TestAges
<1>0. Bools /\ Values
  BY DEF TestsTypeOK
<1>1. ASSUME Bools', Values' PROVE TestsTypeOK'
  BY <1>1 DEF TestsTypeOK
<1>2. 0 \in TestAges /\ (\A a \in TestAges : Older(a) \in TestAges) /\ Older(NotStarted) = NotStarted
  BY TestsAssumption DEF TestAges, Older, NotStarted
<1>3. CASE KeyProcess \/ KeyProcessEnds
  <2>1. Bools'
    BY <1>0, <1>3 DEF KeyProcess, KeyProcessEnds
  <2>2. Values'
    BY <1>0, <1>2, <1>3 DEF KeyProcess, KeyProcessEnds
  <2> QED
    BY <1>1, <2>1, <2>2
<1>4. CASE KeyHandler
  <2>1. Bools'
    BY <1>0, <1>4 DEF KeyHandler, KeyPressed
  <2>2. Values'
    BY <1>0, <1>4 DEF KeyHandler, KeyPressed
  <2> QED
    BY <1>1, <2>1, <2>2
<1>5. CASE ApplyLimit \/ LevelMoves
  <2>1. Bools'
    BY <1>0, <1>5 DEF ApplyLimit, LevelMoves
  <2>2. Values'
    BY <1>0, <1>5 DEF ApplyLimit, LevelMoves
  <2> QED
    BY <1>1, <2>1, <2>2
<1>6. CASE TestCommand
  <2>1. Bools'
    BY <1>0, <1>6 DEF TestCommand, EnterTestMode, ExitTestMode, ResetTestMode, LedTest, LedTestEnds,
                      KeyTest, SetLimit
  <2>2. Values'
    BY <1>0, <1>2, <1>6 DEF TestCommand
  <2> QED
    BY <1>1, <2>1, <2>2
<1>7. CASE TimePasses
  <2>1. Bools'
    BY <1>0, <1>7 DEF TimePasses
  <2>2. Values'
    BY <1>0, <1>2, <1>7 DEF TimePasses
  <2> QED
    BY <1>1, <2>1, <2>2
<1>8. CASE UNCHANGED tests
  <2>1. Bools' /\ Values'
    BY <1>0, <1>8 DEF tests
  <2> QED
    BY <1>1, <2>1
<1> QED
  BY <1>3, <1>4, <1>5, <1>6, <1>7, <1>8 DEF TestsNext

(***************************************************************************)
(* BluetoothTask.  Posted cuts what the queue has no place for.            *)
(***************************************************************************)
Queued(q) == q \in Seq(Messages) /\ Len(q) <= QueueSize

LEMMA PostedType ==
  ASSUME NEW q \in Seq(Messages), NEW ms \in Seq(Messages)
  PROVE  Queued(Posted(q, ms))
<1> DEFINE all == q \o ms
           cut == IF Len(all) < QueueSize THEN Len(all) ELSE QueueSize
<1>1. all \in Seq(Messages) /\ Len(all) \in Nat
  BY ConcatProperties
<1>2. QueueSize \in Nat /\ QueueSize > 0
  BY RadioAssumption
<1>3. cut \in Nat /\ cut <= Len(all) /\ cut <= QueueSize
  BY <1>1, <1>2
<1>4. \A i \in 1..cut : all[i] \in Messages
  BY <1>1, <1>3
<1> HIDE DEF all, cut
<1>5. SubSeq(all, 1, cut) \in Seq(Messages) /\ Len(SubSeq(all, 1, cut)) = IF 1 <= cut THEN cut - 1 + 1 ELSE 0
  BY <1>3, <1>4, SubSeqProperties
<1>6. Len(SubSeq(all, 1, cut)) <= QueueSize
  BY <1>2, <1>3, <1>5
<1>7. Posted(q, ms) = SubSeq(all, 1, cut)
  BY DEF Posted, all, cut
<1> QED
  BY <1>5, <1>6, <1>7 DEF Queued

LEMMA OneMessage ==
  /\ \A m \in Messages : <<m>> \in Seq(Messages)
  /\ \A m, n \in Messages : <<m, n>> \in Seq(Messages)
  /\ <<>> \in Seq(Messages)
  /\ \A i \in Icons : <<"play", i>> \in Messages /\ <<"stop", i>> \in Messages
  /\ \A m \in {"startPairing", "clear", "reset", "ready", "command"} : <<m, "">> \in Messages
<1>1. \A i \in Icons : <<"play", i>> \in Messages /\ <<"stop", i>> \in Messages
  BY DEF Messages
<1>2. \A m \in {"startPairing", "clear", "reset", "ready", "command"} : <<m, "">> \in Messages
  BY DEF Messages
<1>3. /\ \A m \in Messages : <<m>> \in Seq(Messages)
      /\ \A m, n \in Messages : <<m, n>> \in Seq(Messages)
      /\ <<>> \in Seq(Messages)
  OBVIOUS
<1> QED
  BY <1>1, <1>2, <1>3

\* What the loops and a change of the status post.
LEMMA StatusPosts ==
  /\ \A i \in Infinite : Renewed(i) \in Seq(Messages)
  /\ \A old, new \in Statuses : StatusIcon(old, new) \in Seq(Messages)
  /\ Renewed("pairing") \o Renewed("slavePairing") \in Seq(Messages)
<1>1. Infinite \subseteq Icons /\ {"master", "chain", "slavePairing", "chainEnd"} \subseteq Icons
  BY DEF Icons, Infinite
<1>2. \A i \in Infinite : Renewed(i) \in Seq(Messages)
  BY <1>1, OneMessage DEF Renewed
<1>3. \A old, new \in Statuses : StatusIcon(old, new) \in Seq(Messages)
  <2> SUFFICES ASSUME NEW old \in Statuses, NEW new \in Statuses
               PROVE  StatusIcon(old, new) \in Seq(Messages)
    OBVIOUS
  <2>1. StatusIcon(old, new) \in { << <<"play", "master">> >>, << <<"play", "chain">> >>,
                                   << <<"play", "slavePairing">> >>, << <<"play", "chainEnd">> >>, <<>> }
    BY DEF StatusIcon
  <2>2. /\ << <<"play", "master">> >> \in Seq(Messages) /\ << <<"play", "chain">> >> \in Seq(Messages)
        /\ << <<"play", "slavePairing">> >> \in Seq(Messages) /\ << <<"play", "chainEnd">> >> \in Seq(Messages)
        /\ <<>> \in Seq(Messages)
    BY <1>1, OneMessage
  <2> QED
    BY <2>1, <2>2
<1>4. Renewed("pairing") \in Seq(Messages) /\ Renewed("slavePairing") \in Seq(Messages)
  BY <1>2 DEF Infinite
<1>5. Renewed("pairing") \o Renewed("slavePairing") \in Seq(Messages)
  BY <1>4, ConcatProperties
<1> QED
  BY <1>2, <1>3, <1>5

\* The parts of RadioTypeOK.
RadioBools == /\ jack \in BOOLEAN /\ over \in BOOLEAN /\ iconsOn \in BOOLEAN
              /\ streaming \in BOOLEAN /\ wasStreaming \in BOOLEAN /\ stale \in BOOLEAN
RadioShown == icon \in Icons /\ status \in Statuses
RadioMarks == /\ phase \in {"off", "starting", "configuring", "on", "stopping"}
              /\ dirty \in {"no", "fresh", "ripe"}
              /\ powerOnIcon \in {"none", "early", "mid", "late", "over", "played"}
RadioCounts == devices \in 0..2 /\ posted \in 0..Burst
RadioHeard == radio \in [source : Sources \cup {NotYet}, pairing : PairingStates, csb : CsbStates,
                         connected : BOOLEAN, usb : BOOLEAN, dfu : BOOLEAN]

RadioParts == RadioBools /\ RadioShown /\ RadioMarks /\ RadioCounts /\ RadioHeard /\ Queued(queue)

LEMMA PartsAreTypes == RadioTypeOK <=> RadioParts
<1>1. RadioTypeOK => RadioParts
  BY DEF RadioTypeOK, RadioParts, RadioBools, RadioShown, RadioMarks, RadioCounts, RadioHeard, Queued
<1>2. RadioParts => RadioTypeOK
  BY DEF RadioTypeOK, RadioParts, RadioBools, RadioShown, RadioMarks, RadioCounts, RadioHeard, Queued
<1> QED
  BY <1>1, <1>2

LEMMA RadioInitParts == RadioInit => RadioParts
<1> SUFFICES ASSUME RadioInit PROVE RadioParts
  OBVIOUS
<1>1. RadioBools
  BY DEF RadioInit, RadioBools
<1>2. RadioShown
  BY DEF RadioInit, RadioShown, Icons, Statuses
<1>3. RadioMarks
  BY DEF RadioInit, RadioMarks
<1>4. RadioCounts
  BY RadioAssumption DEF RadioInit, RadioCounts
<1>5. RadioHeard
  BY DEF RadioInit, RadioHeard, Sources, NotYet, PairingStates, CsbStates
<1>6. Queued(queue)
  <2>1. queue = <<>> /\ queue \in Seq(Messages) /\ Len(queue) = 0
    BY DEF RadioInit
  <2> QED
    BY <2>1, RadioAssumption DEF Queued
<1> QED
  BY <1>1, <1>2, <1>3, <1>4, <1>5, <1>6 DEF RadioParts

\* The status that follows from the notifications.
LEMMA DerivedIsStatus == \A r : Derived(r) \in Statuses
  BY DEF Derived, Statuses

LEMMA IdleParts == ASSUME RadioParts, Idle PROVE RadioParts'
<1> DEFINE posts == Posted(<<>>, Renewed("pairing") \o Renewed("slavePairing"))
<1>1. Queued(posts) /\ posts \in Seq(Messages)
  BY StatusPosts, OneMessage, PostedType DEF Queued
<1>2. RadioCounts' /\ RadioHeard'
  BY RadioAssumption DEF Idle, RadioParts, RadioCounts, RadioHeard
<1>3. RadioMarks'
  BY DEF Idle, RadioParts, RadioMarks, StillDirty
<1>4. CASE HandleNewState(posts)
  <2> DEFINE new == Derived(radio)
             command == IF Resumes(new) THEN << <<"command", "">> >> ELSE <<>>
  <2>1. new \in Statuses /\ status \in Statuses
    BY DerivedIsStatus DEF RadioParts, RadioShown
  <2>2. command \in Seq(Messages)
    BY OneMessage
  <2>3. StatusIcon(status, new) \o command \in Seq(Messages)
    <3> HIDE DEF command, new
    <3> QED
      BY <2>1, <2>2, StatusPosts, ConcatProperties
  <2>4. queue' = posts \/ queue' = Posted(posts, StatusIcon(status, new) \o command)
    BY <1>4 DEF HandleNewState
  <2>5. Queued(queue')
    <3> HIDE DEF command, new, posts
    <3> QED
      BY <1>1, <2>3, <2>4, PostedType
  <2>6. status' \in Statuses /\ icon' = icon
    BY <1>4, <2>1 DEF HandleNewState, Idle
  <2>7. stale' \in BOOLEAN /\ wasStreaming' \in BOOLEAN
    BY <1>4 DEF HandleNewState, RadioParts, RadioBools
  <2>8. RadioBools'
    BY <2>7 DEF Idle, RadioParts, RadioBools
  <2>9. RadioShown'
    BY <2>6 DEF RadioParts, RadioShown
  <2> QED
    BY <1>2, <1>3, <2>5, <2>8, <2>9 DEF RadioParts, Queued
<1>5. CASE queue' = posts /\ UNCHANGED <<status, wasStreaming, stale>>
  <2>1. RadioBools' /\ RadioShown'
    BY <1>5 DEF Idle, RadioParts, RadioBools, RadioShown
  <2> QED
    BY <1>1, <1>2, <1>3, <1>5, <2>1 DEF RadioParts, Queued
<1> QED
  BY <1>4, <1>5 DEF Idle

LEMMA NotificationParts == ASSUME RadioParts, Notification PROVE RadioParts'
<1> USE DEF RadioParts
<1>1. RadioBools'
  <2>1. stale' \in BOOLEAN
    BY DEF Notification, NewSource, NewPairingState, NewConnectionState, NewCsbState, NewDfuMode,
           UsbSource, SystemReady, Update, RadioBools
  <2> QED
    BY <2>1 DEF Notification, RadioBools
<1>2. RadioShown'
  BY DEF Notification, RadioShown
<1>3. RadioMarks'
  <2>1. dirty' \in {dirty, "fresh"}
    BY DEF Notification, NewSource, NewPairingState, NewConnectionState, NewCsbState, NewDfuMode,
           UsbSource, SystemReady, Update
  <2> QED
    BY <2>1 DEF Notification, RadioMarks
<1>4. RadioCounts'
  <2>1. posted' = posted \/ Spend
    BY DEF Notification, NewSource, NewPairingState, NewConnectionState, NewCsbState, NewDfuMode,
           UsbSource, SystemReady, Update
  <2>2. posted' \in 0..Burst
    BY <2>1, RadioAssumption DEF Spend, RadioCounts
  <2> QED
    BY <2>2 DEF Notification, RadioCounts
<1>5. RadioHeard'
  <2>1. CASE NewSource \/ Update([radio EXCEPT !.source = "a2dp"])
    BY <2>1 DEF NewSource, Update, RadioHeard, Sources
  <2>2. CASE NewPairingState
    BY <2>2 DEF NewPairingState, Update, RadioHeard
  <2>3. CASE NewConnectionState
    BY <2>3 DEF NewConnectionState, Update, RadioHeard
  <2>4. CASE NewCsbState
    BY <2>4 DEF NewCsbState, Update, RadioHeard
  <2>5. CASE NewDfuMode
    BY <2>5 DEF NewDfuMode, Update, RadioHeard
  <2>6. CASE UsbSource
    BY <2>6 DEF UsbSource, RadioHeard
  <2>7. CASE SystemReady
    BY <2>7 DEF SystemReady, RadioHeard
  <2> QED
    BY <2>1, <2>2, <2>3, <2>4, <2>5, <2>6, <2>7 DEF Notification
<1>6. Queued(queue)'
  <2>1. queue \in Seq(Messages)
    BY DEF Queued
  <2>2. CASE queue' = queue
    BY <2>2 DEF Queued
  <2>3. ASSUME Post(<< <<"command", "">> >>) PROVE Queued(queue)'
    BY <2>1, <2>3, OneMessage, PostedType DEF Post
  <2>4. CASE SystemReady
    <3> DEFINE ms == << <<"ready", "">>, <<"command", "">>, <<"command", "">>, <<"command", "">>, <<"command", "">> >>
    <3>1. ms \in Seq(Messages)
      <4>1. <<"ready", "">> \in Messages /\ <<"command", "">> \in Messages
        BY OneMessage
      <4>2. \A m, n \in Messages : <<m, n, n, n, n>> \in Seq(Messages)
        OBVIOUS
      <4> QED
        BY <4>1, <4>2
    <3> HIDE DEF ms
    <3>2. queue' = Posted(queue, ms)
      BY <2>4 DEF SystemReady, Post, ms
    <3> QED
      BY <2>1, <3>1, <3>2, PostedType
  <2>5. queue' = queue \/ Post(<< <<"command", "">> >>) \/ SystemReady
    BY DEF Notification, NewSource, NewPairingState, NewConnectionState, NewCsbState, NewDfuMode,
           UsbSource, Update
  <2> QED
    BY <2>2, <2>3, <2>4, <2>5
<1> QED
  BY <1>1, <1>2, <1>3, <1>4, <1>5, <1>6

\* The power sequence, the time and the inputs from outside.
LEMMA OutsideParts ==
  ASSUME RadioParts, \/ StartLink \/ LinkStarted \/ Announce \/ GoOff \/ StopLink \/ Elapse
                     \/ Device \/ Stream \/ SetSoundIcons \/ Asked \/ Jack
  PROVE  RadioParts'
<1> USE DEF RadioParts
<1>0. Burst \in Nat /\ QueueSize \in Nat /\ queue \in Seq(Messages)
  BY RadioAssumption DEF Queued
<1>1. ASSUME NEW ms \in Seq(Messages), Post(ms) PROVE Queued(queue)'
  BY <1>0, <1>1, PostedType DEF Post
<1>2. {"powerOn", "powerOff", "connected", "disconnected"} \subseteq Icons
  BY DEF Icons
<1>3. CASE StartLink \/ LinkStarted
  BY <1>3 DEF StartLink, LinkStarted, RadioBools, RadioShown, RadioMarks, RadioCounts, RadioHeard, Queued
<1>4. CASE Announce \/ GoOff
  <2>1. Queued(queue)'
    BY <1>1, <1>2, <1>4, OneMessage DEF Announce, GoOff
  <2>2. RadioBools' /\ RadioShown' /\ RadioMarks' /\ RadioCounts' /\ RadioHeard'
    BY <1>4 DEF Announce, GoOff, RadioBools, RadioShown, RadioMarks, RadioCounts, RadioHeard
  <2> QED
    BY <2>1, <2>2
<1>5. CASE StopLink
  BY <1>5 DEF StopLink, RadioBools, RadioShown, RadioMarks, RadioCounts, RadioHeard, Queued
<1>6. CASE Elapse
  <2>1. RadioMarks' /\ over' \in BOOLEAN
    BY <1>6 DEF Elapse, Timer, Ripen, PlayOn, EndIcon, RadioMarks, RadioBools
  <2>2. RadioBools' /\ RadioShown' /\ RadioCounts' /\ RadioHeard' /\ Queued(queue)'
    BY <1>6, <2>1 DEF Elapse, Timer, RadioBools, RadioShown, RadioCounts, RadioHeard, Queued
  <2> QED
    BY <2>1, <2>2
<1>7. CASE Device
  <2>1. Queued(queue)'
    <3>1. CASE queue' = queue
      BY <3>1 DEF Queued
    <3>2. CASE Post(<< <<"play", "connected">> >>) \/ Post(<< <<"play", "disconnected">> >>)
      BY <1>1, <1>2, <3>2, OneMessage
    <3> QED
      BY <1>7, <3>1, <3>2 DEF Device, DeviceConnected, DeviceDisconnected
  <2>2. devices' \in 0..2
    BY <1>7 DEF Device, DeviceConnected, DeviceDisconnected, RadioCounts
  <2>3. posted' \in 0..Burst
    BY <1>0, <1>7 DEF Device, Spend, RadioCounts
  <2>4. RadioBools' /\ RadioShown' /\ RadioMarks' /\ RadioHeard' /\ RadioCounts'
    BY <1>7, <2>2, <2>3 DEF Device, RadioBools, RadioShown, RadioMarks, RadioHeard, RadioCounts
  <2> QED
    BY <2>1, <2>4
<1>8. CASE Stream
  BY <1>8 DEF Stream, RadioBools, RadioShown, RadioMarks, RadioCounts, RadioHeard, Queued
<1>9. CASE SetSoundIcons
  BY <1>9 DEF SetSoundIcons, RadioBools, RadioShown, RadioMarks, RadioCounts, RadioHeard, Queued
<1>10. CASE Asked
  <2>1. Queued(queue)'
    <3>1. PICK m \in {"startPairing", "clear", "reset", "command"} : Post(<< <<m, "">> >>)
      BY <1>10 DEF Asked
    <3> QED
      BY <1>1, <3>1, OneMessage
  <2>2. posted < Burst /\ posted' = posted + 1
    BY <1>10 DEF Asked, Spend
  <2>3. /\ UNCHANGED <<phase, radio, dirty, powerOnIcon, icon, over, iconsOn, status, streaming, wasStreaming, devices, stale>>
        /\ jack' \in BOOLEAN
    BY <1>10 DEF Asked, RadioBools
  <2>4. RadioCounts'
    BY <1>0, <2>2, <2>3 DEF RadioCounts
  <2>5. RadioBools' /\ RadioShown' /\ RadioMarks' /\ RadioHeard'
    BY <2>3 DEF RadioBools, RadioShown, RadioMarks, RadioHeard
  <2> QED
    BY <2>1, <2>4, <2>5
<1>11. CASE Jack
  <2>1. Queued(queue)'
    BY <1>1, <1>11, OneMessage DEF Jack
  <2>2. posted < Burst /\ posted' = posted + 1
    BY <1>11 DEF Jack, Spend
  <2>3. /\ UNCHANGED <<phase, radio, dirty, powerOnIcon, icon, over, iconsOn, status, streaming, wasStreaming, devices, stale>>
        /\ jack' \in BOOLEAN
    BY <1>11 DEF Jack, RadioBools
  <2>4. RadioCounts'
    BY <1>0, <2>2, <2>3 DEF RadioCounts
  <2>5. RadioBools' /\ RadioShown' /\ RadioMarks' /\ RadioHeard'
    BY <2>3 DEF RadioBools, RadioShown, RadioMarks, RadioHeard
  <2> QED
    BY <2>1, <2>4, <2>5
<1> QED
  BY <1>3, <1>4, <1>5, <1>6, <1>7, <1>8, <1>9, <1>10, <1>11

LEMMA FirstMessage ==
  ASSUME NEW q, Queued(q), q # <<>>
  PROVE  /\ Head(q) \in Messages /\ Tail(q) \in Seq(Messages) /\ Queued(Tail(q))
         /\ Head(q)[1] \in {"play", "stop"} => Head(q)[2] \in Icons
<1>1. q \in Seq(Messages) /\ Len(q) \in Nat /\ Len(q) <= QueueSize /\ QueueSize \in Nat
  BY RadioAssumption DEF Queued
<1>2. Head(q) \in Messages /\ Tail(q) \in Seq(Messages) /\ Len(Tail(q)) = Len(q) - 1
  BY <1>1, HeadTailProperties
<1>3. Head(q)[1] \in {"play", "stop"} => Head(q)[2] \in Icons
  BY <1>2 DEF Messages
<1> QED
  BY <1>1, <1>2, <1>3 DEF Queued

LEMMA MessageParts ==
  ASSUME RadioParts, HandleIcon \/ HandleMessage
  PROVE  RadioParts'
<1> USE DEF RadioParts
<1> DEFINE rest == Tail(queue)
<1>1. /\ queue # <<>> /\ rest \in Seq(Messages) /\ Queued(rest)
      /\ Head(queue)[1] \in {"play", "stop"} => Head(queue)[2] \in Icons
  BY FirstMessage DEF HandleIcon, HandleMessage
<1>2. ASSUME NEW ms \in Seq(Messages), queue' = Posted(rest, ms) PROVE Queued(queue)'
  BY <1>1, <1>2, PostedType
<1>3. CASE HandleIcon
  <2>1. CASE Head(queue)[1] = "play" /\ Play(Head(queue)[2], rest)
    <3> DEFINE i == Head(queue)[2]
    <3>1. i \in Icons
      BY <1>1, <2>1
    <3>2. Queued(queue)'
      <4>1. CASE queue' = rest
        BY <1>1, <4>1
      <4>2. CASE queue' = Posted(rest, << <<"play", i>> >>)
        BY <1>2, <3>1, <4>2, OneMessage
      <4> QED
        BY <2>1, <4>1, <4>2 DEF Play
    <3>3. powerOnIcon' \in {powerOnIcon, "early"} /\ icon' \in {icon, i} /\ over' \in BOOLEAN
      BY <2>1 DEF Play, RadioBools
    <3>4. RadioBools' /\ RadioShown' /\ RadioMarks' /\ RadioHeard' /\ RadioCounts'
      BY <1>3, <3>1, <3>3 DEF HandleIcon, RadioBools, RadioShown, RadioMarks, RadioHeard, RadioCounts
    <3> QED
      BY <3>2, <3>4
  <2>2. CASE Head(queue)[1] = "stop" /\ Stop(rest)
    <3>1. queue' = rest /\ icon' \in {icon, "nothing"} /\ over' \in BOOLEAN /\ powerOnIcon' = powerOnIcon
      BY <2>2 DEF Stop, RadioBools
    <3>2. "nothing" \in Icons
      BY DEF Icons
    <3>3. Queued(queue)'
      BY <1>1, <3>1
    <3>4. RadioBools' /\ RadioShown' /\ RadioMarks' /\ RadioHeard' /\ RadioCounts'
      BY <1>3, <3>1, <3>2 DEF HandleIcon, RadioBools, RadioShown, RadioMarks, RadioHeard, RadioCounts
    <3> QED
      BY <3>3, <3>4
  <2> QED
    BY <1>3, <2>1, <2>2 DEF HandleIcon
<1>4. CASE HandleMessage
  <2>0. "feedback" \in Icons
    BY DEF Icons
  <2>1. Queued(queue)'
    <3>1. CASE queue' = rest
      BY <1>1, <3>1
    <3>2. CASE ClearDeviceList(rest)
      <4> DEFINE ms == << <<"play", "feedback">>, <<"startPairing", "">> >>
      <4>1. ms \in Seq(Messages)
        BY <2>0, OneMessage
      <4>2. queue' = Posted(rest, ms)
        BY <3>2 DEF ClearDeviceList
      <4> HIDE DEF ms
      <4> QED
        BY <1>2, <4>1, <4>2
    <3>3. CASE FactoryReset(rest)
      <4>1. << <<"play", "feedback">> >> \in Seq(Messages)
        BY <2>0, OneMessage
      <4> QED
        BY <1>2, <3>3, <4>1 DEF FactoryReset
    <3> QED
      BY <1>4, <3>1, <3>2, <3>3 DEF HandleMessage, StartPairing, ActionsReady, Command
  <2>2. wasStreaming' \in BOOLEAN /\ devices' \in 0..2
    <3>1. wasStreaming' \in {wasStreaming, streaming}
      BY <1>4 DEF HandleMessage, StartPairing, ClearDeviceList, FactoryReset, ActionsReady, Command
    <3>2. devices' \in {devices, 0}
      BY <1>4 DEF HandleMessage, StartPairing, ClearDeviceList, FactoryReset, ActionsReady, Command
    <3> QED
      BY <3>1, <3>2 DEF RadioBools, RadioCounts
  <2>3. RadioHeard'
    BY <1>4 DEF HandleMessage, StartPairing, ClearDeviceList, FactoryReset, ActionsReady, Command,
                RadioHeard
  <2>4. RadioBools' /\ RadioShown' /\ RadioMarks' /\ RadioCounts'
    BY <1>4, <2>2 DEF HandleMessage, RadioBools, RadioShown, RadioMarks, RadioCounts
  <2> QED
    BY <2>1, <2>3, <2>4
<1> QED
  BY <1>3, <1>4

LEMMA RadioNextParts == RadioParts /\ [RadioNext]_bt => RadioParts'
<1> SUFFICES ASSUME RadioParts, [RadioNext]_bt PROVE RadioParts'
  OBVIOUS
<1>1. CASE UNCHANGED bt
  BY <1>1 DEF bt, RadioParts, RadioBools, RadioShown, RadioMarks, RadioCounts, RadioHeard, Queued
<1> QED
  BY <1>1, IdleParts, NotificationParts, OutsideParts, MessageParts DEF RadioNext

(***************************************************************************)
(* All components together: a step of one leaves the others alone.         *)
(***************************************************************************)
LEMMA OneMoves ==
  [MCNext]_MCVars => /\ [I2cNext]_i2c /\ [RadioNext]_bt /\ [LedNext]_ledVars
                     /\ [UpdateNext]_updateVars /\ [TestsNext]_tests
  BY DEF MCNext, MCVars

(* Every component of MCTasks keeps its types, whatever the bounds: the     *)
(* queue of the Bluetooth task never holds more than QUEUE_SIZE messages    *)
(* (Posted cuts what a task posts to its own full queue), and t-boot never  *)
(* counts more bytes than the image has, which its types do not show: the   *)
(* count is that of the units programmed (CountInv).                        *)
THEOREM TasksTypes == ASSUME Disorder = {} PROVE MCSpec => []TasksTypeOK
<1>1. MCInit => /\ I2cTypeOK /\ RadioParts /\ LedInv /\ UpdateInv /\ UpdateTypeOK /\ TestsTypeOK
  BY I2cInitType, RadioInitParts, LedInit_Inv, UpdateInit_Inv, UpdateInitType, TestsInitType DEF MCInit
<1>2. UpdateInv /\ [MCNext]_MCVars => UpdateInv'
  BY OneMoves, UpdateNext_Inv
<1>3. I2cTypeOK /\ [MCNext]_MCVars => I2cTypeOK'
  BY OneMoves, I2cNextType
<1>4. RadioParts /\ [MCNext]_MCVars => RadioParts'
  BY OneMoves, RadioNextParts
<1>5. LedInv /\ [MCNext]_MCVars => LedInv'
  BY OneMoves, LedNext_Inv
<1>6. UpdateTypeOK /\ Counts' /\ [MCNext]_MCVars => UpdateTypeOK'
  BY OneMoves, UpdateNextType
<1>7. TestsTypeOK /\ [MCNext]_MCVars => TestsTypeOK'
  BY OneMoves, TestsNextType
<1>8. UpdateInv => Counts
  BY CountedUnits
<1>9. I2cTypeOK /\ RadioParts /\ LedInv /\ UpdateTypeOK /\ TestsTypeOK => TasksTypeOK
  BY PartsAreTypes DEF TasksTypeOK, LedInv
<1> QED
  BY <1>1, <1>2, <1>3, <1>4, <1>5, <1>6, <1>7, <1>8, <1>9, PTL DEF MCSpec
=============================================================================
