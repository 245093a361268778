-------------------------------- MODULE Update --------------------------------
(***************************************************************************)
(* The firmware update over USB: the bootloader decides at every reset     *)
(* whether to run the application or itself (MyndBootloader/main.c); the   *)
(* host copies a file whose chunks t-boot passes on, in the order in which *)
(* they come, to the flash (dfu_mcu.c); main polls the outcome.            *)
(*                                                                         *)
(* The image has Chunks chunks of two units each, the last one of one      *)
(* unit.  The unit u of the image belongs at the unit u of the flash.      *)
(***************************************************************************)
EXTENDS Integers

CONSTANTS
    Chunks,      \* of the image
    Deliveries,  \* bound: sectors the host writes between two resets
    Cuts,        \* bound: power cuts
    Disorder     \* which of the orders t_boot_dfu.c calls unlikely occur

ASSUME UpdateAssumption ==
    Chunks \in Nat \ {0, 1} /\ {Deliveries, Cuts} \subseteq Nat /\ Disorder \subseteq {"lastFirst", "headerLast"}

VARIABLES
    mode,         \* what runs; "reset" is the decision
    flash,        \* of each unit, the unit of the image it holds
    bkp, access,  \* RTC->BKP0R, and whether it may be written
    cause,        \* the reset flags
    outcome,      \* update_state
    erased,       \* s_dfu_mcu.flash_was_erased
    header, written, perChunk, \* of t_boot_ctx: magic, bytes_written, bytes_in_chunk
    sectors, cuts,             \* how much of the bounds is used
    poweredOn,    \* power_on_after_update() of the application
    updated, interrupted       \* history: the last reset ended an update; another reset split one

image == <<mode, flash, bkp, access, cause>>
dfu == <<outcome, erased, header, written, perChunk, sectors>>
updateVars == <<image, dfu, cuts, poweredOn, updated, interrupted>>

Size == 2 * Chunks - 1
Units == 0..(Size - 1)
Blank == -1
Whole == \A u \in Units : flash[u] = u
ChunkLength(c) == IF c = Chunks THEN 1 ELSE 2

UpdateTypeOK ==
    /\ mode \in {"reset", "bootloader", "app"} /\ flash \in [Units -> Units \cup {Blank}]
    /\ bkp \in {"none", "request", "done"} /\ cause \subseteq {"power", "soft"}
    /\ outcome \in {"idle", "complete", "fail"}
    /\ written \in 0..Size /\ perChunk \in 0..2 /\ sectors \in 0..Deliveries /\ cuts \in 0..Cuts
    /\ {access, erased, header, poweredOn, updated, interrupted} \subseteq BOOLEAN

UpdateInit ==
    /\ mode = "reset" /\ flash = [u \in Units |-> u]
    /\ bkp = "none" /\ access = FALSE /\ cause = {"power"}
    /\ outcome = "idle" /\ erased = FALSE /\ header = FALSE /\ written = 0 /\ perChunk = 0 /\ sectors = 0
    /\ cuts = 0 /\ poweredOn = FALSE /\ updated = FALSE /\ interrupted = FALSE
-----------------------------------------------------------------------------
(* should_start_bootloader: only the first words of the image are looked   *)
(* at, and the backup registers stay locked when they are not valid.       *)

Valid == flash[0] = 0

\* power_on_after_update, in the init of the System task
StartApp(flags) ==
    /\ mode' = "app" /\ access' = TRUE /\ cause' = flags
    /\ poweredOn' = (bkp = "done") /\ bkp' = "none"
    /\ UNCHANGED dfu

\* run_bootloader: t_boot_dfu_init and dfu_mcu_init
StartBootloader ==
    /\ mode' = "bootloader" /\ access' = Valid /\ bkp' = IF Valid THEN "none" ELSE bkp
    /\ outcome' = "idle" /\ erased' = FALSE /\ header' = FALSE /\ written' = 0 /\ perChunk' = 0 /\ sectors' = 0
    /\ UNCHANGED <<cause, poweredOn>>

Decide ==
    /\ mode = "reset"
    /\ IF ~Valid \/ ("power" \notin cause /\ bkp = "request") THEN StartBootloader
       ELSE StartApp(IF "power" \in cause \/ bkp = "done" THEN {} ELSE cause)
    /\ UNCHANGED <<flash, cuts, updated, interrupted>>

\* NVIC_SystemReset
SystemReset(ends) ==
    /\ mode' = "reset" /\ access' = FALSE /\ cause' = cause \cup {"soft"}
    /\ updated' = ends
    /\ interrupted' = (~ends /\ Valid /\ ~Whole)
    /\ UNCHANGED <<flash, dfu, cuts, poweredOn>>

\* The button combination of the application.
RequestBootloader ==
    /\ mode = "app" /\ Whole
    /\ bkp' = "request" /\ SystemReset(FALSE)

Cut ==
    /\ mode # "reset" /\ cuts < Cuts /\ cuts' = cuts + 1
    /\ mode' = "reset" /\ access' = FALSE /\ cause' = {"power"} /\ bkp' \in {bkp, "none"}
    /\ updated' = FALSE /\ interrupted' = (Valid /\ ~Whole)
    /\ UNCHANGED <<flash, dfu, poweredOn>>
-----------------------------------------------------------------------------
(* The file arrives sector by sector, in any order and perhaps twice.      *)

Arrives == mode = "bootloader" /\ sectors < Deliveries /\ sectors' = sectors + 1

FwHeader ==
    /\ Arrives
    /\ header' = TRUE
    /\ UNCHANGED <<image, outcome, erased, written, perChunk, cuts, poweredOn, updated, interrupted>>

BadChunk ==
    /\ Arrives /\ outcome' = "fail"
    /\ UNCHANGED <<image, erased, header, written, perChunk, cuts, poweredOn, updated, interrupted>>

\* dfu_mcu_write: the first write erases; a unit that is not empty cannot be
\* programmed, and ends the write.
Erased == IF erased THEN flash ELSE [u \in Units |-> Blank]
Target(c, each) == {each * (c - 1) + i : i \in 0..(ChunkLength(c) - 1)}
Programmable(c, each) == \A u \in Target(c, each) : Erased[u] = Blank

Programmed(c, each) ==
    [u \in Units |->
        IF u \in Target(c, each) /\ (\A v \in Target(c, each) : v <= u => Erased[v] = Blank)
        THEN 2 * (c - 1) + u - each * (c - 1) ELSE Erased[u]]

\* bytes_written after a chunk; mutant: counted before it is written.
CountedFirst(c, each) == IF written + ChunkLength(c) <= Size THEN written + ChunkLength(c) ELSE written
Counted(c, each) == IF Programmable(c, each) THEN written + ChunkLength(c) ELSE written

\* Mutant: the completion is looked for only while the header is missing.
CompleteLost(now) == ~header /\ now = Size
CompleteNow(now) == header /\ now = Size

Chunk(c) ==
    LET each == IF perChunk = 0 THEN ChunkLength(c) ELSE perChunk
        now  == Counted(c, each)
    IN /\ Arrives
       /\ "lastFirst" \in Disorder \/ perChunk # 0 \/ c # Chunks
       /\ "headerLast" \in Disorder \/ header \/ written + ChunkLength(c) < Size
       /\ perChunk' = each /\ erased' = TRUE
       /\ flash' = Programmed(c, each) /\ written' = now
       /\ outcome' = IF ~Programmable(c, each) THEN "fail"
                     ELSE IF CompleteNow(now) THEN "complete" ELSE outcome
       /\ UNCHANGED <<mode, bkp, access, cause, header, cuts, poweredOn, updated, interrupted>>

\* periodic_task, in main
Failed == /\ mode = "bootloader" /\ outcome = "fail" /\ bkp' = bkp /\ SystemReset(FALSE)
Complete == /\ mode = "bootloader" /\ outcome = "complete"
            /\ bkp' = IF access THEN "done" ELSE bkp
            /\ SystemReset(TRUE)

UpdateNext ==
    \/ Decide \/ RequestBootloader \/ Cut
    \/ FwHeader \/ BadChunk \/ (\E c \in 1..Chunks : Chunk(c))
    \/ Failed \/ Complete

UpdateSpec == UpdateInit /\ [][UpdateNext]_updateVars
-----------------------------------------------------------------------------
(* An application that runs is a whole image, however often its chunks     *)
(* came, came damaged or came again, unless a cut or the button split the  *)
(* update after the chunk with the vectors was written (is_application_valid*)
(* looks at nothing else).                                                 *)
RunsWhole == mode = "app" => Whole \/ interrupted

(* When the whole image is in the flash the update ends: it is not left    *)
(* waiting for sectors that never come (the byte count of                  *)
(* t_boot_dfu_non_sequential_process_chunk).                               *)
NeverStuck == mode = "bootloader" /\ erased /\ Whole => outcome # "idle"

(* After a successful update the application powers the speaker on         *)
(* (changelog of the bootloader, 2.1.0).                                   *)
PowersOnAfterUpdate == mode = "app" /\ updated => poweredOn
=============================================================================
