------------------------------- MODULE I2cBus -------------------------------
(***************************************************************************)
(* One I2C bus: the transfers of src/drivers/platform/stm32/i2c_freertos.c *)
(* with the retries of bsp_shared_i2c.c (amplifiers, IO expander) and      *)
(* bsp_usb_pd_i2c.c (USB PD controller).                                   *)
(*                                                                         *)
(* The tasks share a mutex; the holder starts a transfer in the HAL and    *)
(* waits for the semaphore that the interrupt gives.  A transfer may be    *)
(* refused by the device (an error interrupt), or get stuck, as when the   *)
(* device holds the clock: then the waits end by their timeouts, and the   *)
(* interrupt may still come when nobody expects it any more.               *)
(***************************************************************************)
EXTENDS Integers

CONSTANTS
    Users,   \* the tasks that use the bus
    Retries  \* attempts of one call: retries of bsp_shared_i2c_write

Nobody == "nobody"

ASSUME I2cAssumption == Retries \in Nat \ {0} /\ Nobody \notin Users

VARIABLES
    at,       \* where the call of a task is
    kind,     \* read or write: their timeouts are 1000 ms and 100 ms
    tries,    \* the attempts that are left
    result,   \* what the last call returned
    holder,   \* the holder of the mutex
    given,    \* the binary semaphore
    transfer, \* the transfer in the HAL, and whether it is stuck
    err,      \* async_error_code
    halted,   \* a failed kernel assertion: interrupts off, for ever
    done,     \* history: the current transfer of a task was completed
    overdue   \* history: some wait for a completion ended by its timeout

i2c == <<at, kind, tries, result, holder, given, transfer, err, halted, done, overdue>>

NoTransfer == [by |-> Nobody, stuck |-> FALSE]

I2cTypeOK ==
    /\ at \in [Users -> {"out", "lock", "start", "wait", "return"}]
    /\ kind \in [Users -> {"read", "write"}]
    /\ tries \in [Users -> 0..Retries]
    /\ result \in [Users -> -4..0]
    /\ holder \in Users \cup {Nobody}
    /\ transfer \in [by : Users \cup {Nobody}, stuck : BOOLEAN]
    /\ {given, err, halted, overdue} \subseteq BOOLEAN
    /\ done \in [Users -> BOOLEAN]

I2cInit ==
    /\ at = [t \in Users |-> "out"]
    /\ kind = [t \in Users |-> "read"]
    /\ tries = [t \in Users |-> 0]
    /\ result = [t \in Users |-> 0]
    /\ holder = Nobody /\ given = FALSE /\ transfer = NoTransfer
    /\ err = FALSE /\ halted = FALSE
    /\ done = [t \in Users |-> FALSE]
    /\ overdue = FALSE

Go(t, place) == at' = [at EXCEPT ![t] = place]
Ends(t, code) == result' = [result EXCEPT ![t] = code] /\ Go(t, "return")

\* bsp_*_i2c_read and bsp_*_i2c_write.
CallBus(t) ==
    /\ at[t] = "out" /\ Go(t, "lock")
    /\ \E k \in {"read", "write"} : kind' = [kind EXCEPT ![t] = k]
    /\ tries' = [tries EXCEPT ![t] = Retries]
    /\ UNCHANGED <<result, holder, given, transfer, err, halted, done, overdue>>

Lock(t) ==
    /\ at[t] = "lock" /\ holder = Nobody
    /\ holder' = t /\ Go(t, "start")
    /\ UNCHANGED <<kind, tries, result, given, transfer, err, halted, done, overdue>>

\* The mutex stays taken for longer than the wait for it: while the holder
\* waits for a stuck transfer. The wait of a reader outlasts a writer's.
OutwaitedBy(t) == holder # Nobody /\ at[holder] = "wait" /\ transfer.stuck
                  /\ (kind[t] = "write" \/ kind[holder] = "read")

LockTimeout(t) ==
    /\ at[t] = "lock" /\ OutwaitedBy(t)
    /\ Ends(t, -1)
    /\ UNCHANGED <<kind, tries, holder, given, transfer, err, halted, done, overdue>>

\* HAL_I2C_Mem_Write_IT and HAL_I2C_Mem_Read_IT.
Start(t) ==
    /\ at[t] = "start"
    /\ done' = [done EXCEPT ![t] = FALSE]
    /\ IF transfer = NoTransfer
       THEN /\ \E s \in BOOLEAN : transfer' = [by |-> t, stuck |-> s]
            /\ Go(t, "wait") /\ UNCHANGED result
       ELSE Ends(t, -2) /\ UNCHANGED transfer
    /\ UNCHANGED <<kind, tries, holder, given, err, halted, overdue>>

\* The completion or error interrupt.
Interrupt ==
    /\ transfer.by # Nobody
    /\ \E failed \in BOOLEAN :
          /\ err' = failed
          /\ done' = [done EXCEPT ![transfer.by] = ~failed]
    /\ given' = TRUE /\ transfer' = NoTransfer
    /\ UNCHANGED <<at, kind, tries, result, holder, halted, overdue>>

\* mutant: the error of the interrupt is not looked at
OutcomeIgnored == 0

\* async_error_code
Outcome == IF err THEN -4 ELSE 0

Completed(t) ==
    /\ at[t] = "wait" /\ given
    /\ given' = FALSE
    /\ Ends(t, Outcome)
    /\ UNCHANGED <<kind, tries, holder, transfer, err, halted, done, overdue>>

WaitTimeout(t) ==
    /\ at[t] = "wait" /\ ~given /\ transfer.stuck
    /\ overdue' = TRUE
    /\ Ends(t, -3)
    /\ UNCHANGED <<kind, tries, holder, given, transfer, err, halted, done>>

\* What was local to the call is gone.
Forget(t) ==
    /\ tries' = [tries EXCEPT ![t] = 0] /\ kind' = [kind EXCEPT ![t] = "read"]
    /\ result' = [result EXCEPT ![t] = 0] /\ done' = [done EXCEPT ![t] = FALSE]

\* mutant: the attempts are not counted
LeftSame(t) == tries[t]

Left(t) == tries[t] - 1

\* Both ways out give the mutex. The kernel asserts that the giver holds it,
\* if somebody does.
Return(t) ==
    /\ at[t] = "return"
    /\ IF holder \in {t, Nobody} THEN holder' = Nobody /\ UNCHANGED halted
                                 ELSE halted' = TRUE /\ UNCHANGED holder
    /\ IF result[t] < 0 /\ Left(t) > 0
       THEN Go(t, "lock") /\ tries' = [tries EXCEPT ![t] = Left(t)] /\ UNCHANGED <<kind, result, done>>
       ELSE Go(t, "out") /\ Forget(t)
    /\ UNCHANGED <<given, transfer, err, overdue>>

CallStep(t) == Lock(t) \/ LockTimeout(t) \/ Start(t) \/ Completed(t) \/ WaitTimeout(t) \/ Return(t)

I2cNext == ~halted /\ (Interrupt \/ \E t \in Users : CallBus(t) \/ CallStep(t))

\* The scheduler runs every ready task, a transfer that is not stuck comes to
\* its interrupt, and the others leave the mutex free often enough.
I2cFairness == /\ WF_i2c(~halted /\ ~transfer.stuck /\ Interrupt)
               /\ \A t \in Users : SF_i2c(~halted /\ CallStep(t))

I2cSpec == I2cInit /\ [][I2cNext]_i2c /\ I2cFairness
-----------------------------------------------------------------------------
(* While no completion has come too late, a call that returns 0 has its own *)
(* transfer completed ("Wait for transfer to finish", i2c_freertos.c:89):   *)
(* the semaphore belongs to the bus, not to the transfer, so one interrupt  *)
(* after a timeout answers for the next transfer.                           *)
OwnCompletion ==
    \A t \in Users : at[t] = "return" /\ result[t] = 0 /\ ~overdue => done[t]

(* Every call comes to an end, whatever the devices do, or the device has    *)
(* halted: the error path gives the mutex even when it was not taken, which  *)
(* happens when a transfer is stuck while both tasks need the bus.           *)
CallsReturn == \A t \in Users : (at[t] # "out") ~> (at[t] = "out" \/ halted)
=============================================================================
