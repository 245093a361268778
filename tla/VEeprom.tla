------------------------------- MODULE VEeprom -------------------------------
(***************************************************************************)
(* The EEPROM that the firmware emulates in two pages of flash (ST's       *)
(* eeprom.c behind virtual_eeprom.c).  A page is a log: a header halfword, *)
(* then slots of a value halfword and a key halfword.  Writing appends; a  *)
(* read takes the last slot with the key.  A full page is compacted into   *)
(* the other one, and the headers tell EE_Init how far that came when the  *)
(* power was cut.                                                          *)
(*                                                                         *)
(* Every step programs one halfword or erases one page, so a power cut may *)
(* come between any two of them.  The binary semaphore of virtual_eeprom.c *)
(* lets one caller in at a time: there is one operation to model.          *)
(***************************************************************************)
EXTENDS Naturals, Sequences

CONSTANTS Key,       \* the virtual addresses the firmware writes
          Value,     \* halfwords other than 0xFFFF, which looks like no value
          NoKey,     \* 0xFFFF where a key should be
          NoValue,   \* EE_ReadVariable did not find the key
          NoPage,    \* NO_VALID_PAGE
          Table,     \* VirtAddVarTab: the keys that a transfer copies
          Slots,     \* slots of a page besides its header
          Cuts,      \* when the power may be cut (see Window)
          MaxCuts    \* bound: cuts from one completed boot to the next

Page   == {0, 1}
Status == {"erased", "receive", "valid"}

(***************************************************************************)
(* Power cuts are told apart by what they interrupt.  downward: page 1 is  *)
(* being moved into page 0.  between: a recovery has marked the new page   *)
(* and not yet erased the old one.  other: all the rest.                   *)
(***************************************************************************)
Window == {"downward", "between", "other"}

ASSUME VEepromAssumption ==
    /\ NoKey \notin Key
    /\ Value # {} /\ NoValue \notin Value
    /\ NoPage \notin Page
    /\ Table \in Seq(Key)
    /\ \A i, j \in DOMAIN Table : Table[i] = Table[j] => i = j
    /\ Slots \in Nat \ {0}
    /\ Cuts \subseteq Window
    /\ MaxCuts \in Nat

VARIABLES
    header,    \* the status of each page
    slots,     \* the programmed slots of each page, in their order
    pc,        \* where the driver is
    booting,   \* it is in EE_Init
    to,        \* the page being filled or kept
    n,         \* varidx of the copying loop
    request,   \* the key and value of EE_WriteVariable
    cuts       \* power cuts since EE_Init last returned

vars == <<header, slots, pc, booting, to, n, request, cuts>>

flash == <<header, slots>>
ram   == <<booting, to, n, request>>

Slot  == [key : Key \cup {NoKey}, value : Value]
Point == {"off", "ready", "key", "first", "firstKey", "copy",
          "copyKey", "erase", "mark", "clean", "format", "formatMark",
          "formatClean"}

TypeOK ==
    /\ header \in [Page -> Status]
    /\ slots \in [Page -> Seq(Slot)]
    /\ \A p \in Page : Len(slots[p]) <= Slots
    /\ pc \in Point
    /\ booting \in BOOLEAN
    /\ to \in Page
    /\ n \in 1..Len(Table) + 1
    /\ request \in Slot
    /\ cuts \in 0..MaxCuts

-----------------------------------------------------------------------------
(***************************************************************************)
(* Looking at the flash.                                                   *)
(***************************************************************************)
Other(p) == 1 - p

\* (Mutant of LastHit: the search starts from the beginning of the page.)
FirstHit(s, k) ==
    {i \in DOMAIN s : s[i].key = k /\ \A j \in DOMAIN s : s[j].key = k => i <= j}

\* The loop of EE_ReadVariable starts from the end of the page.
LastHit(s, k) ==
    {i \in DOMAIN s : s[i].key = k /\ \A j \in DOMAIN s : s[j].key = k => j <= i}

Last(s, k) ==
    IF LastHit(s, k) = {} THEN NoValue
    ELSE s[CHOOSE i \in LastHit(s, k) : TRUE].value

\* EE_FindValidPage
ReadPage ==
    IF header[0] = "valid" THEN 0
    ELSE IF header[1] = "valid" THEN 1 ELSE NoPage

WritePage ==
    IF header[1] = "valid" THEN IF header[0] = "receive" THEN 0 ELSE 1
    ELSE IF header[0] = "valid" THEN IF header[1] = "receive" THEN 1 ELSE 0
    ELSE NoPage

\* EE_ReadVariable
Read(k) == IF ReadPage = NoPage THEN NoValue ELSE Last(slots[ReadPage], k)

\* EE_VerifyPageFullyErased: its loop ends at the end of page 0, so that
\* page 1 always passes.
FullyErased(p) == p = 1 \/ (header[p] = "erased" /\ slots[p] = <<>>)

\* (Mutant of Full: one slot too many.)
FullLate(p) == Len(slots[p]) > Slots

Full(p) == Len(slots[p]) = Slots

Headers(a, b) == header[0] = a /\ header[1] = b

-----------------------------------------------------------------------------
(***************************************************************************)
(* The two flash operations.  Programming a header that is not erased      *)
(* fails, unless the halfword written is that of "valid", 0x0000.          *)
(***************************************************************************)
Erase(p) ==
    /\ header' = [header EXCEPT ![p] = "erased"]
    /\ slots' = [slots EXCEPT ![p] = <<>>]

MarkPage(p, s) ==
    /\ header' = [header EXCEPT ![p] = s]
    /\ UNCHANGED slots

\* EE_VerifyPageFullWriteVariable programs the value, then the key.
Half(v)     == [key |-> NoKey, value |-> v]
Keyed(s, k) == [s EXCEPT ![Len(s)] = [key |-> k, value |-> @.value]]

ProgramValue(p, v) ==
    /\ slots' = [slots EXCEPT ![p] = Append(@, Half(v))]
    /\ UNCHANGED header

ProgramKey(p, k) ==
    /\ slots' = [slots EXCEPT ![p] = Keyed(@, k)]
    /\ UNCHANGED header

NoRequest == [key |-> NoKey, value |-> CHOOSE v \in Value : TRUE]

Init ==
    /\ header = [p \in Page |-> "erased"]
    /\ slots = [p \in Page |-> <<>>]
    /\ pc = "off" /\ booting = TRUE
    /\ to = 0 /\ n = 1 /\ request = NoRequest
    /\ cuts = 0

\* The driver returns to its caller.
Return ==
    /\ pc' = "ready" /\ booting' = FALSE
    /\ to' = 0 /\ n' = 1 /\ request' = NoRequest
    /\ cuts' = 0

-----------------------------------------------------------------------------
(***************************************************************************)
(* EE_Init.                                                                *)
(***************************************************************************)
Boot ==
    /\ pc = "off"
    /\ \/ \E p \in Page :
            /\ header[p] # "erased" /\ header[Other(p)] = "erased"
            /\ pc' = "clean" /\ to' = p
       \/ \E p \in Page :
            /\ header[p] = "receive" /\ header[Other(p)] = "valid"
            /\ pc' = "copy" /\ to' = p
       \/ /\ header[0] = header[1]
          /\ pc' = "format" /\ to' = 0
    /\ UNCHANGED <<flash, booting, n, request, cuts>>

\* The page that is not kept is erased, if it is not fully erased already.
Clean ==
    /\ pc = "clean"
    /\ IF FullyErased(Other(to)) THEN UNCHANGED flash ELSE Erase(Other(to))
    /\ IF header[to] = "receive"
       THEN pc' = "mark" /\ UNCHANGED <<ram, cuts>>
       ELSE Return

\* EE_Format
Format ==
    /\ pc = "format"
    /\ IF FullyErased(0) THEN UNCHANGED flash ELSE Erase(0)
    /\ pc' = "formatMark"
    /\ UNCHANGED <<ram, cuts>>

\* (Mutant of FormatMark: the header is forgotten.)
FormatUnmarked ==
    /\ pc = "formatMark"
    /\ pc' = "formatClean"
    /\ UNCHANGED <<flash, ram, cuts>>

FormatMark ==
    /\ pc = "formatMark"
    /\ MarkPage(0, "valid")
    /\ pc' = "formatClean"
    /\ UNCHANGED <<ram, cuts>>

FormatClean ==
    /\ pc = "formatClean"
    /\ IF FullyErased(1) THEN UNCHANGED flash ELSE Erase(1)
    /\ Return

-----------------------------------------------------------------------------
(***************************************************************************)
(* vEEPROM_AddressWrite and EE_WriteVariable.                              *)
(***************************************************************************)
\* A value that differs from the stored one goes into the page for writing.
Write ==
    /\ pc = "ready"
    /\ WritePage # NoPage /\ ~Full(WritePage)
    /\ \E k \in Key, v \in Value :
         /\ Read(k) # v
         /\ request' = [key |-> k, value |-> v]
         /\ ProgramValue(WritePage, v)
    /\ pc' = "key"
    /\ UNCHANGED <<booting, to, n, cuts>>

WriteKey ==
    /\ pc = "key"
    /\ ProgramKey(WritePage, request.key)
    /\ Return

\* EE_PageTransfer.  The new page is marked, which fails when it has a mark.
Transfer ==
    /\ pc = "ready"
    /\ WritePage # NoPage /\ Full(WritePage)
    /\ header[Other(ReadPage)] = "erased"
    /\ \E k \in Key, v \in Value :
         /\ Read(k) # v
         /\ request' = [key |-> k, value |-> v]
    /\ to' = Other(ReadPage)
    /\ MarkPage(to', "receive")
    /\ pc' = "first"
    /\ UNCHANGED <<booting, n, cuts>>

\* The variable passed as parameter is the first of the new page.
First ==
    /\ pc = "first"
    /\ IF Full(WritePage) THEN UNCHANGED flash /\ Return
       ELSE /\ ProgramValue(WritePage, request.value)
            /\ pc' = "firstKey"
            /\ UNCHANGED <<ram, cuts>>

FirstKey ==
    /\ pc = "firstKey"
    /\ ProgramKey(WritePage, request.key)
    /\ pc' = "copy"
    /\ UNCHANGED <<ram, cuts>>

\* (Mutant of Skipped: a recovery copies the variable of the first slot too.)
SkippedByParameter(k) == k = request.key

\* The loops over VirtAddVarTab in EE_PageTransfer and EE_Init: the variable
\* passed as parameter, or found in the first slot, is not copied.
Skipped(k) ==
    IF booting THEN slots[to] # <<>> /\ slots[to][1].key = k
    ELSE k = request.key

CopyNothing ==
    /\ pc = "copy" /\ n <= Len(Table)
    /\ Skipped(Table[n]) \/ Read(Table[n]) = NoValue
    /\ n' = n + 1
    /\ UNCHANGED <<flash, pc, booting, to, request, cuts>>

Copy ==
    /\ pc = "copy" /\ n <= Len(Table)
    /\ ~Skipped(Table[n]) /\ Read(Table[n]) # NoValue
    /\ IF Full(WritePage) THEN UNCHANGED flash /\ Return
       ELSE /\ ProgramValue(WritePage, Read(Table[n]))
            /\ pc' = "copyKey"
            /\ UNCHANGED <<ram, cuts>>

CopyKey ==
    /\ pc = "copyKey"
    /\ ProgramKey(WritePage, Table[n])
    /\ n' = n + 1
    /\ pc' = "copy"
    /\ UNCHANGED <<booting, to, request, cuts>>

\* EE_PageTransfer erases the old page before it marks the new one, EE_Init
\* marks the new one first.
Copied ==
    /\ pc = "copy" /\ n = Len(Table) + 1
    /\ pc' = IF booting THEN "mark" ELSE "erase"
    /\ UNCHANGED <<flash, ram, cuts>>

EraseOld ==
    /\ pc = "erase"
    /\ Erase(Other(to))
    /\ pc' = "mark"
    /\ UNCHANGED <<ram, cuts>>

\* (Mutant of Mark: the page that was copied is never erased.)
MarkOnly ==
    /\ pc = "mark"
    /\ MarkPage(to, "valid")
    /\ Return

Mark ==
    /\ pc = "mark"
    /\ MarkPage(to, "valid")
    /\ IF header[Other(to)] = "valid"
       THEN pc' = "clean" /\ UNCHANGED <<ram, cuts>>
       ELSE Return

Driver ==
    \/ Boot \/ Clean \/ Format \/ FormatMark \/ FormatClean
    \/ Write \/ WriteKey \/ Transfer \/ First \/ FirstKey
    \/ CopyNothing \/ Copy \/ CopyKey \/ Copied \/ EraseOld \/ Mark

-----------------------------------------------------------------------------
(***************************************************************************)
(* The surroundings cut the power.  A cut during an erase may leave the    *)
(* slots behind a header that is already erased, which is what             *)
(* EE_VerifyPageFullyErased looks for.                                     *)
(***************************************************************************)
InWindow ==
    IF Headers("receive", "valid") THEN "downward"
    ELSE IF Headers("valid", "valid") THEN "between"
    ELSE "other"

Torn ==
    \E p \in Page :
        /\ \/ pc = "erase" /\ p = Other(to)
           \/ pc = "clean" /\ p = Other(to) /\ ~FullyErased(p)
           \/ pc = "format" /\ p = 0 /\ ~FullyErased(p)
        /\ header' = [header EXCEPT ![p] = "erased"]
        /\ UNCHANGED slots

PowerCut ==
    /\ pc # "off"
    /\ InWindow \in Cuts /\ cuts < MaxCuts
    /\ Torn \/ UNCHANGED flash
    /\ pc' = "off" /\ booting' = TRUE
    /\ to' = 0 /\ n' = 1 /\ request' = NoRequest
    /\ cuts' = cuts + 1

Next == Driver \/ PowerCut

Spec == Init /\ [][Next]_vars

-----------------------------------------------------------------------------
(***************************************************************************)
(* Properties.                                                             *)
(***************************************************************************)
\* EE_Init and EE_PageTransfer leave the pages in a known good state: one
\* holds everything, the other is blank and can receive the next transfer.
KnownGood ==
    pc = "ready" =>
        \E p \in Page :
            /\ header[p] = "valid"
            /\ header[Other(p)] = "erased" /\ slots[Other(p)] = <<>>

Alone(p)     == header[p] # "erased" /\ header[Other(p)] = "erased"
Receiving(p) == header[p] = "receive" /\ header[Other(p)] = "valid"

\* While page p receives, its first slot counts, and for the rest the page it
\* is copied from.
Merged(p, k) ==
    IF slots[p] # <<>> /\ slots[p][1].key = k THEN Last(slots[p], k)
    ELSE Last(slots[Other(p)], k)

\* What the flash holds: what EE_Init would recover if the power were cut now.
\* (When it has marked the new page and not yet erased the old one, what it
\* goes on to keep: a cut at that point loses everything.)
Held(k) ==
    IF Alone(0) THEN Last(slots[0], k)
    ELSE IF Alone(1) THEN Last(slots[1], k)
    ELSE IF Receiving(0) THEN Merged(0, k)
    ELSE IF Receiving(1) THEN Merged(1, k)
    ELSE IF pc = "clean" THEN Last(slots[to], k)
    ELSE NoValue

store == [k \in Key |-> Held(k)]

Settings == INSTANCE SettingsStore WITH Nothing <- NoRequest

\* Every write takes effect at a single step of the flash, and transfers,
\* power cuts and recoveries change nothing of what is stored.
StoreSpec == Settings!Spec

\* Whatever was cut, EE_Init ends with a page to read from and one to write to.
Usable == pc = "ready" => ReadPage # NoPage /\ WritePage # NoPage

\* A write that returns has written: the next read finds its value.
ReadBack ==
    [][pc # "ready" /\ ~booting /\ pc' = "ready"
         => \A k \in Key, v \in Value :
              request = [key |-> k, value |-> v] => Read(k)' = v]_vars

-----------------------------------------------------------------------------
(***************************************************************************)
(* What comments and the changelog say and the code does not keep.         *)
(***************************************************************************)
\* "Auto-Off timer value is persisted": a value that is stored is replaced by
\* another one and never forgotten.
StaysStored ==
    [][\A k \in Key : Held(k) # NoValue => Held(k)' # NoValue]_vars
=============================================================================
